------------------------------ MODULE Matching ------------------------------
(***************************************************************************)
(* How two accounts come to be matched (services/discovery.py,             *)
(* record_action; services/matches.py, archive_match), as concurrent taps  *)
(* on like, save and pass over one Postgres database at READ COMMITTED.    *)
(*                                                                         *)
(* A tap is one transaction of several statements.  It reads its own row,  *)
(* writes it (the session flushes the row before the next SELECT), looks   *)
(* for the like of the other account among the COMMITTED rows, looks for a *)
(* match, inserts one, and commits.  What it has written and not committed *)
(* is in its tap: nobody else reads it, but a second write of the same row *)
(* or key waits for it, and an INSERT of a key that is there by then fails *)
(* and rolls the whole tap back.                                           *)
(***************************************************************************)
EXTENDS Naturals

CONSTANTS
    Account,   \* users
    Sport,     \* an action and a match belong to one sport
    Tap        \* slots for POST /discovery/actions in flight at the same time

VARIABLES
    action,  \* discovery_actions: the committed action of an account on another
    matches, \* matches, by canonical pair and sport: their status
    tap,     \* the requests in flight
    liked,   \* history: the likes that were ever committed
    raced    \* history: pairs of which two opposite likes were in flight together

matchingVars == <<action, matches, tap, liked, raced>>

Action == {"like", "pass", "save"}

\* The key of an action: actor, target and sport.  The feed offers nobody his own
\* card.
Row == {r \in Account \X Account \X Sport : r[1] # r[2]}
Opposite(r) == <<r[2], r[1], r[3]>>

\* The key of a match: sorted([actor, target]) is the same for both directions.
Pair(r) == <<{r[1], r[2]}, r[3]>>
Key == {Pair(r) : r \in Row}

\* Where a tap stands.  "read": it has read its own row; "flushed": it has written
\* it; "mutual": it has found the like of the other account; "new": and no match
\* of the two; "created": it has inserted one; "ready": only the commit is left.
Stage == {"read", "flushed", "mutual", "new", "created", "ready"}

\* found: the action the tap has read in its own row; crowded: another tap on
\* the same pair was in flight at some moment of it.
TapRecord ==
    [stage : Stage, row : Row, action : Action, found : Action \cup {"none"},
     crowded : BOOLEAN]
NoTap == [stage |-> "idle"]

InFlight(t) == tap[t].stage # "idle"

\* Whether the tap changes its row: existing.action = action writes nothing when
\* the value is the one that was loaded.
Writes(t) == tap[t].found # tap[t].action
HoldsRow(t) == tap[t].stage \notin {"idle", "read"} /\ Writes(t)

\* Every variable has its type.
MatchingTypeOK ==
    /\ action \in [Row -> Action \cup {"none"}]
    /\ matches \in [Key -> {"none", "active", "archived"}]
    /\ tap \in [Tap -> TapRecord \cup {NoTap}]
    /\ liked \subseteq Row
    /\ raced \subseteq Key

-----------------------------------------------------------------------------
(* POST /discovery/actions.                                                *)

\* existing_stmt: the actor's own row is read, before anything is written.
BeginTap(t, r, x) ==
    /\ ~InFlight(t)
    /\ LET others == {u \in Tap : InFlight(u) /\ Pair(tap[u].row) = Pair(r)}
           new == [stage |-> "read", row |-> r, action |-> x, found |-> action[r],
                   crowded |-> others # {}]
       IN /\ tap' = [u \in Tap |->
                 IF u = t THEN new
                 ELSE IF u \in others THEN [tap[u] EXCEPT !.crowded = TRUE] ELSE tap[u]]
          /\ raced' = IF /\ x = "like"
                         /\ \E u \in others : tap[u].row = Opposite(r) /\ tap[u].action = "like"
                      THEN raced \cup {Pair(r)} ELSE raced
    /\ UNCHANGED <<action, matches, liked>>

Advance(t, stage) == tap' = [tap EXCEPT ![t].stage = stage]

\* The row cannot be written while another tap has written it: the statement
\* waits for the end of that tap.
RowIsFree(t) == \A u \in Tap \ {t} : ~(HoldsRow(u) /\ tap[u].row = tap[t].row)

\* An INSERT whose key has been committed since the tap read no row.
RowIsTaken(t) == tap[t].found = "none" /\ action[tap[t].row] # "none"

\* The flush of the own row.  A tap that is not a like has nothing more to do.
Flush(t) ==
    /\ tap[t].stage = "read"
    /\ Writes(t) => RowIsFree(t) /\ ~RowIsTaken(t)
    /\ Advance(t, IF tap[t].action = "like" THEN "flushed" ELSE "ready")
    /\ UNCHANGED <<action, matches, liked, raced>>

\* Fault: any action of the other account counts as his like.
LookBackAny(t) ==
    /\ tap[t].stage = "flushed"
    /\ Advance(t, IF action[Opposite(tap[t].row)] # "none" THEN "mutual" ELSE "ready")
    /\ UNCHANGED <<action, matches, liked, raced>>

\* Fault: a change of mind is not followed by the look for the other's like.
LookBackFirst(t) ==
    /\ tap[t].stage = "flushed"
    /\ Advance(t, IF tap[t].found = "none" /\ action[Opposite(tap[t].row)] = "like"
                  THEN "mutual" ELSE "ready")
    /\ UNCHANGED <<action, matches, liked, raced>>

\* Fault: the other's row is read with a lock, so it waits for his tap.
LookBackLocked(t) ==
    /\ tap[t].stage = "flushed"
    /\ \A u \in Tap : ~(HoldsRow(u) /\ tap[u].row = Opposite(tap[t].row))
    /\ Advance(t, IF action[Opposite(tap[t].row)] = "like" THEN "mutual" ELSE "ready")
    /\ UNCHANGED <<action, matches, liked, raced>>

\* reverse_stmt: the committed like of the other account.
LookBack(t) ==
    /\ tap[t].stage = "flushed"
    /\ Advance(t, IF action[Opposite(tap[t].row)] = "like" THEN "mutual" ELSE "ready")
    /\ UNCHANGED <<action, matches, liked, raced>>

\* Fault: only an active match is looked for.
LookUpActive(t) ==
    /\ tap[t].stage = "mutual"
    /\ Advance(t, IF matches[Pair(tap[t].row)] # "active" THEN "new" ELSE "ready")
    /\ UNCHANGED <<action, matches, liked, raced>>

\* existing_match_stmt: a match of the pair, archived or not.
LookUp(t) ==
    /\ tap[t].stage = "mutual"
    /\ Advance(t, IF matches[Pair(tap[t].row)] = "none" THEN "new" ELSE "ready")
    /\ UNCHANGED <<action, matches, liked, raced>>

PairIsFree(t) ==
    \A u \in Tap \ {t} : tap[u].stage = "created" => Pair(tap[u].row) # Pair(tap[t].row)

\* Fault: the table has no unique constraint on the pair and the sport.
PairIsTakenNever(t) == FALSE

\* uq_matches_canonical_pair_sport.
PairIsTaken(t) == matches[Pair(tap[t].row)] # "none"

\* The flush of the new match, which fails if the other has committed his.
InsertMatch(t) ==
    /\ tap[t].stage = "new"
    /\ PairIsFree(t)
    /\ ~PairIsTaken(t)
    /\ Advance(t, "created")
    /\ UNCHANGED <<action, matches, liked, raced>>

\* The commit: the row, the match if there is one, and the answer.
Commit(t) ==
    /\ tap[t].stage \in {"ready", "created"}
    /\ action' = IF Writes(t) THEN [action EXCEPT ![tap[t].row] = tap[t].action] ELSE action
    /\ matches' = IF tap[t].stage = "created" THEN [matches EXCEPT ![Pair(tap[t].row)] = "active"]
                                             ELSE matches
    /\ liked' = IF tap[t].action = "like" THEN liked \cup {tap[t].row} ELSE liked
    /\ tap' = [tap EXCEPT ![t] = NoTap]
    /\ UNCHANGED raced

\* An INSERT meets a committed row with its key: IntegrityError, a rollback of
\* the whole tap, and a 500 for the app.
Collide(t) ==
    /\ \/ tap[t].stage = "read" /\ Writes(t) /\ RowIsFree(t) /\ RowIsTaken(t)
       \/ tap[t].stage = "new" /\ PairIsFree(t) /\ PairIsTaken(t)
    /\ tap' = [tap EXCEPT ![t] = NoTap]
    /\ UNCHANGED <<action, matches, liked, raced>>

\* The server dies under the tap: its transaction is rolled back.
LoseTap(t) ==
    /\ InFlight(t)
    /\ tap' = [tap EXCEPT ![t] = NoTap]
    /\ UNCHANGED <<action, matches, liked, raced>>

\* Fault: the status is written as the imperative of the route.
ArchiveMisspelt(k) ==
    /\ matches[k] # "none"
    /\ matches' = [matches EXCEPT ![k] = "archive"]
    /\ UNCHANGED <<action, tap, liked, raced>>

\* archive_match, by either of the two.
Archive(k) ==
    /\ matches[k] # "none"
    /\ matches' = [matches EXCEPT ![k] = "archived"]
    /\ UNCHANGED <<action, tap, liked, raced>>

-----------------------------------------------------------------------------
MatchingInit ==
    /\ action = [r \in Row |-> "none"]
    /\ matches = [k \in Key |-> "none"]
    /\ tap = [t \in Tap |-> NoTap]
    /\ liked = {}
    /\ raced = {}

Serve(t) == Flush(t) \/ LookBack(t) \/ LookUp(t) \/ InsertMatch(t) \/ Commit(t) \/ Collide(t)

MatchingNext ==
    \/ \E t \in Tap, r \in Row, x \in Action : BeginTap(t, r, x)
    \/ \E t \in Tap : Serve(t) \/ LoseTap(t)
    \/ \E k \in Key : Archive(k)

\* The event loop runs what can run, and Postgres wakes those that wait for a
\* row in the order they came: no tap is passed over for ever.
MatchingFairness == \A t \in Tap : SF_matchingVars(Serve(t))

MatchingSpec == MatchingInit /\ [][MatchingNext]_matchingVars /\ MatchingFairness

-----------------------------------------------------------------------------
(* Properties.                                                             *)

\* Two accounts that like each other in a sport have a match in it, archived or
\* not, unless their two likes were once in flight together: then each may have
\* missed the other, and nothing looks again until one of them likes once more.
MutualMeet ==
    \A r \in Row :
        action[r] = "like" /\ action[Opposite(r)] = "like" /\ Pair(r) \notin raced
            => matches[Pair(r)] # "none"

\* Nobody is matched, and so open to messages and proposals, with somebody he has
\* never liked in that sport, however the taps of the two overlap.
MatchNeedsLikes ==
    \A r \in Row : matches[Pair(r)] # "none" => r \in liked

\* A match stands for two likes and two likes for a match, in both directions.
MatchesAreMutual ==
    /\ MutualMeet
    /\ MatchNeedsLikes

\* "It's a match" is told once for a pair and a sport: of the taps that found no
\* match only one commits its own.
ToldOnce ==
    [][\A t \in Tap : tap[t].stage = "created" /\ Commit(t)
           => matches[Pair(tap[t].row)] = "none"]_matchingVars

\* A tap fails on a constraint only because of another that was in flight with
\* it: one that is alone on its pair is answered, matched before or not.
AloneIsAnswered ==
    [][\A t \in Tap : Collide(t) => tap[t].crowded]_matchingVars

\* What a tap is told: of a match once, and of an error only in a race.
TapsAreAnswered ==
    /\ ToldOnce
    /\ AloneIsAnswered

\* No tap waits for ever for the row or the pair of another.
TapsEnd == \A t \in Tap : InFlight(t) ~> ~InFlight(t)
=============================================================================

----------------------------- MODULE Challenges -----------------------------
(***************************************************************************)
(* Sports challenges and the verified-result path of the API               *)
(* (services/challenges.py and services/honor_system.py), as concurrent    *)
(* requests over one Postgres database at READ COMMITTED.                  *)
(*                                                                         *)
(* A request is one HTTP call: a program counter, its arguments, and the   *)
(* rows it has loaded.  The row variables are the committed state.  What a *)
(* transaction has written and not committed nobody else can see; it is    *)
(* implied by the program counter and applied by the commit.  Any step of  *)
(* another request may happen between two steps of one.  A request the     *)
(* code refuses (403, 404, 409, 422) before it writes changes no row and   *)
(* is not a step.                                                          *)
(*                                                                         *)
(* accept, decline and cancel load the challenge with a plain SELECT and   *)
(* write it later; the result submission holds the row under               *)
(* SELECT ... FOR UPDATE from its first step to its commit.  An UPDATE of  *)
(* a row another transaction has locked waits for that transaction.        *)
(***************************************************************************)
EXTENDS HonorRules, Sequences, FiniteSets

CONSTANTS
    User,       \* accounts
    Challenge,  \* identities of the challenges that may be created
    Ladder,     \* the (sport, area) pairs
    Request,    \* slots for requests in flight at the same time
    Nobody      \* SQL NULL, a missing row, a lock nobody holds

ASSUME NobodyAssumption == Nobody \notin User \cup Challenge \cup Ladder \cup Request

VARIABLES
    challenge,   \* the sports_challenges rows
    submission,  \* challenge_result_submissions: the winner each user reported
    profile,     \* the rank_profiles rows, per ladder and user
    profileRow,  \* which of those rows exist
    holder,      \* honor_titles.current_holder_user_id, per ladder
    history,     \* honor_history, per ladder, in commit order
    rowLock,     \* the request that holds a challenge row FOR UPDATE
    profileLock, \* the request with an uncommitted write on a rank profile
    pc,          \* where each request stands
    req,         \* its arguments
    seen,        \* the rows it has loaded
    applied      \* history variable: how often a result was applied

rows == <<challenge, submission, profile, profileRow, holder, history, applied>>
locks == <<rowLock, profileLock>>
vars == <<rows, locks, pc, req, seen>>

ChallengeStatus ==
    {"none", "pending", "accepted", "declined", "cancelled", "verified", "disputed"}
TerminalStatus == {"declined", "cancelled", "verified", "disputed"}

ChallengeRow ==
    [status : ChallengeStatus, challenger : User \cup {Nobody},
     opponent : User \cup {Nobody}, ladder : Ladder \cup {Nobody}]
NoChallenge ==
    [status |-> "none", challenger |-> Nobody, opponent |-> Nobody, ladder |-> Nobody]

\* The other tables: one report per challenge and user, one title per ladder
\* with its holder, and the rows of honor_history.
Submissions == [Challenge -> [User -> User \cup {Nobody}]]
Titles == [Ladder -> User \cup {Nobody}]
Transfer == [previous : User \cup {Nobody}, new : User, source : Challenge]

\* The arguments of a request; winner and loser are used by submissions only.
Arguments ==
    [user : User \cup {Nobody}, chal : Challenge \cup {Nobody},
     winner : User \cup {Nobody}, loser : User \cup {Nobody}]
NoArguments ==
    [user |-> Nobody, chal |-> Nobody, winner |-> Nobody, loser |-> Nobody]

\* What a submission has loaded: the other participant's report, the two rank
\* profiles and the title's holder.
Loaded ==
    [other : User \cup {Nobody}, winner : RankProfile, loser : RankProfile,
     holder : User \cup {Nobody}]
NothingLoaded ==
    [other |-> Nobody, winner |-> BaselineProfile, loser |-> BaselineProfile,
     holder |-> Nobody]

Role == {"winner", "loser"}
PC == {"idle", "accept", "decline", "cancel", "locked", "inserted",
       "loadWinner", "insertWinner", "loadLoser", "insertLoser",
       "update", "title", "commit"}

-----------------------------------------------------------------------------
(* Helpers.                                                                *)

Participants(c) == {challenge[c].challenger, challenge[c].opponent}
OtherParticipant(c, u) ==
    IF u = challenge[c].challenger THEN challenge[c].opponent
                                   ELSE challenge[c].challenger
LadderOf(r) == challenge[req[r].chal].ladder

Goto(r, label) == pc' = [pc EXCEPT ![r] = label]

\* A request begins: a free slot takes its arguments.
Begin(r, label, args) ==
    /\ pc[r] = "idle"
    /\ Goto(r, label)
    /\ req' = [req EXCEPT ![r] = args]
    /\ UNCHANGED seen

\* A request ends and its slot is free again.
End(r) ==
    /\ Goto(r, "idle")
    /\ req' = [req EXCEPT ![r] = NoArguments]
    /\ seen' = [seen EXCEPT ![r] = NothingLoaded]

\* Commit and rollback both give up every lock of the transaction.
ReleaseLocks(r) ==
    /\ rowLock' = [c \in Challenge |-> IF rowLock[c] = r THEN Nobody ELSE rowLock[c]]
    /\ profileLock' = [l \in Ladder |-> [u \in User |->
           IF profileLock[l][u] = r THEN Nobody ELSE profileLock[l][u]]]

Rollback(r) == End(r) /\ ReleaseLocks(r) /\ UNCHANGED rows

-----------------------------------------------------------------------------
(* Creation and the unlocked lifecycle transitions.                        *)

\* create_challenge: one INSERT.
CreateChallenge(c, u, v, l) ==
    /\ challenge[c].status = "none"
    /\ u # v
    /\ challenge' = [challenge EXCEPT ![c] =
           [status |-> "pending", challenger |-> u, opponent |-> v, ladder |-> l]]
    /\ UNCHANGED <<submission, profile, profileRow, holder, history, applied,
                   locks, pc, req, seen>>

\* accept_challenge, decline_challenge and cancel_challenge up to the check.
BeginTransition(r, u, c, label) ==
    /\ challenge[c].status = "pending"
    /\ Begin(r, label, [NoArguments EXCEPT !.user = u, !.chal = c])
    /\ UNCHANGED <<rows, locks>>

BeginAccept(r, u, c) ==
    u = challenge[c].opponent /\ BeginTransition(r, u, c, "accept")
BeginDecline(r, u, c) ==
    u = challenge[c].opponent /\ BeginTransition(r, u, c, "decline")
BeginCancel(r, u, c) ==
    u = challenge[c].challenger /\ BeginTransition(r, u, c, "cancel")

\* The UPDATE and the commit: the status is written whatever it has become.
WriteStatus(r, label, status) ==
    /\ pc[r] = label
    /\ rowLock[req[r].chal] = Nobody
    /\ challenge' = [challenge EXCEPT ![req[r].chal].status = status]
    /\ End(r)
    /\ UNCHANGED <<submission, profile, profileRow, holder, history, applied, locks>>

FinishAccept(r) == WriteStatus(r, "accept", "accepted")
FinishDecline(r) == WriteStatus(r, "decline", "declined")
FinishCancel(r) == WriteStatus(r, "cancel", "cancelled")

-----------------------------------------------------------------------------
(* submit_challenge_result, up to its decision.                            *)

\* Fault: the database ignores FOR UPDATE.
RowLockIgnored(c) == TRUE

\* The row lock a submission takes; it waits until the lock is free.
RowLockFree(c) == rowLock[c] = Nobody

\* Fault: the reported pair is not compared with the participants.
SubmitLockAnyPair(r, u, c, w, x) ==
    /\ RowLockFree(c)
    /\ u \in Participants(c)
    /\ challenge[c].status = "accepted"
    /\ w # x
    /\ submission[c][u] = Nobody
    /\ Begin(r, "locked", [user |-> u, chal |-> c, winner |-> w, loser |-> x])
    /\ rowLock' = [rowLock EXCEPT ![c] = r]
    /\ UNCHANGED <<rows, profileLock>>

\* SELECT ... FOR UPDATE, then every check the handler makes under the lock.
SubmitLock(r, u, c, w, x) ==
    /\ RowLockFree(c)
    /\ u \in Participants(c)
    /\ challenge[c].status = "accepted"
    /\ w # x /\ {w, x} = Participants(c)
    /\ submission[c][u] = Nobody
    /\ Begin(r, "locked", [user |-> u, chal |-> c, winner |-> w, loser |-> x])
    /\ rowLock' = [rowLock EXCEPT ![c] = r]
    /\ UNCHANGED <<rows, profileLock>>

\* INSERT, flush, and the re-query of all submissions.  The submission stays
\* uncommitted, so the re-query sees it and the committed ones.
SubmitInsert(r) ==
    LET c == req[r].chal IN
    /\ pc[r] = "locked"
    /\ submission[c][req[r].user] = Nobody
    /\ seen' = [seen EXCEPT ![r].other = submission[c][OtherParticipant(c, req[r].user)]]
    /\ Goto(r, "inserted")
    /\ UNCHANGED <<rows, locks, req>>

\* The submission becomes visible with the commit.
CommitSubmission(r) ==
    submission' = [submission EXCEPT ![req[r].chal][req[r].user] = req[r].winner]

\* The conditional UPDATE ... WHERE status = 'accepted'.
FlipStatus(c, status) ==
    IF challenge[c].status = "accepted"
    THEN [challenge EXCEPT ![c].status = status]
    ELSE challenge

\* Fault: the first report waits for the second one, which waits for its lock.
SubmitFirstWaits(r) ==
    LET c == req[r].chal IN
    /\ pc[r] = "inserted" /\ seen[r].other = Nobody
    /\ submission[c][OtherParticipant(c, req[r].user)] # Nobody
    /\ CommitSubmission(r)
    /\ End(r) /\ ReleaseLocks(r)
    /\ UNCHANGED <<challenge, profile, profileRow, holder, history, applied>>

\* One submission visible: commit it and keep the status.
SubmitFirst(r) ==
    /\ pc[r] = "inserted" /\ seen[r].other = Nobody
    /\ CommitSubmission(r)
    /\ End(r) /\ ReleaseLocks(r)
    /\ UNCHANGED <<challenge, profile, profileRow, holder, history, applied>>

\* The reports differ: dispute the challenge and leave the ladder alone.
SubmitDispute(r) ==
    /\ pc[r] = "inserted"
    /\ seen[r].other \notin {Nobody, req[r].winner}
    /\ CommitSubmission(r)
    /\ challenge' = FlipStatus(req[r].chal, "disputed")
    /\ End(r) /\ ReleaseLocks(r)
    /\ UNCHANGED <<profile, profileRow, holder, history, applied>>

\* Fault: two reports are enough, whatever they say.
SubmitAgreeUncompared(r) ==
    /\ pc[r] = "inserted" /\ seen[r].other # Nobody
    /\ challenge[req[r].chal].status = "accepted"
    /\ Goto(r, "loadWinner")
    /\ UNCHANGED <<rows, locks, req, seen>>

\* Fault: the flip to verified is committed before the honor hook runs.
SubmitAgreeCommitsFirst(r) ==
    /\ pc[r] = "inserted" /\ seen[r].other = req[r].winner
    /\ CommitSubmission(r)
    /\ challenge' = FlipStatus(req[r].chal, "verified")
    /\ Goto(r, "loadWinner")
    /\ UNCHANGED <<profile, profileRow, holder, history, applied, locks, req, seen>>

\* The reports agree.  The conditional UPDATE hits the row and the honor hook
\* runs in the same transaction, or it hits nothing and the handler returns.
SubmitAgree(r) ==
    /\ pc[r] = "inserted" /\ seen[r].other = req[r].winner
    /\ IF challenge[req[r].chal].status = "accepted"
       THEN /\ Goto(r, "loadWinner")
            /\ UNCHANGED <<rows, locks, req, seen>>
       ELSE /\ CommitSubmission(r)
            /\ End(r) /\ ReleaseLocks(r)
            /\ UNCHANGED <<challenge, profile, profileRow, holder, history, applied>>

-----------------------------------------------------------------------------
(* record_match_result_for_honor, still inside the submission.             *)

LoadLabel(role) == IF role = "winner" THEN "loadWinner" ELSE "loadLoser"
InsertLabel(role) == IF role = "winner" THEN "insertWinner" ELSE "insertLoser"
AfterLabel(role) == IF role = "winner" THEN "loadLoser" ELSE "update"
\* Fault: the two users are handed to the hook in the wrong order.
UserOfSwapped(r, role) == IF role = "winner" THEN req[r].loser ELSE req[r].winner
UserOf(r, role) == IF role = "winner" THEN req[r].winner ELSE req[r].loser
Remember(r, role, row) ==
    seen' = IF role = "winner" THEN [seen EXCEPT ![r].winner = row]
                               ELSE [seen EXCEPT ![r].loser = row]

\* get_or_create_rank_profile finds the row: an unlocked read.
LoadProfile(r, role) ==
    LET l == LadderOf(r) IN
    /\ pc[r] = LoadLabel(role)
    /\ <<l, UserOf(r, role)>> \in profileRow
    /\ Remember(r, role, profile[l][UserOf(r, role)])
    /\ Goto(r, AfterLabel(role))
    /\ UNCHANGED <<rows, locks, req>>

\* It finds none and goes on to insert one.
MissProfile(r, role) ==
    /\ pc[r] = LoadLabel(role)
    /\ <<LadderOf(r), UserOf(r, role)>> \notin profileRow
    /\ Goto(r, InsertLabel(role))
    /\ UNCHANGED <<rows, locks, req, seen>>

\* The INSERT waits for an uncommitted row of the same unique key.
InsertProfile(r, role) ==
    LET l == LadderOf(r)
        u == UserOf(r, role) IN
    /\ pc[r] = InsertLabel(role)
    /\ profileLock[l][u] = Nobody
    /\ <<l, u>> \notin profileRow
    /\ profileLock' = [profileLock EXCEPT ![l][u] = r]
    /\ Remember(r, role, BaselineProfile)
    /\ Goto(r, AfterLabel(role))
    /\ UNCHANGED <<rows, rowLock, req>>

\* The key has been committed meanwhile: IntegrityError, a 500, a rollback.
InsertConflict(r, role) ==
    /\ pc[r] = InsertLabel(role)
    /\ <<LadderOf(r), UserOf(r, role)>> \in profileRow
    /\ Rollback(r)

\* The SELECT of the title flushes the two dirty profiles first: both rows are
\* locked before the title is read.  The flush orders them by primary key, so
\* two transactions at this point do not wait for each other in a circle.
UpdateProfiles(r) ==
    LET l == LadderOf(r) IN
    /\ pc[r] = "update"
    /\ profileLock[l][req[r].winner] \in {Nobody, r}
    /\ profileLock[l][req[r].loser] \in {Nobody, r}
    /\ profileLock' = [profileLock EXCEPT ![l] =
           [@ EXCEPT ![req[r].winner] = r, ![req[r].loser] = r]]
    /\ Goto(r, "title")
    /\ UNCHANGED <<rows, rowLock, req, seen>>

ReadTitle(r) ==
    /\ pc[r] = "title"
    /\ seen' = [seen EXCEPT ![r].holder = holder[LadderOf(r)]]
    /\ Goto(r, "commit")
    /\ UNCHANGED <<rows, locks, req>>

\* Fault: the winner takes the title from whoever holds it.
TitleMovesAlways(r) == seen[r].holder # req[r].winner
\* The title goes to the winner when there was none or the loser held it.
TitleMoves(r) == seen[r].holder \in {Nobody, req[r].loser}

\* Fault: the key of honor_titles is not unique.
InauguratedMeanwhileUnnoticed(r) == FALSE
\* Another transaction has created the title since it was read.
InauguratedMeanwhile(r) == seen[r].holder = Nobody /\ holder[LadderOf(r)] # Nobody

\* Title and history, then the one commit of the whole submission.
CommitResult(r) ==
    LET c == req[r].chal
        l == LadderOf(r)
        w == req[r].winner
        x == req[r].loser
        row == [previous |-> seen[r].holder, new |-> w, source |-> c] IN
    /\ pc[r] = "commit"
    /\ ~InauguratedMeanwhile(r)
    /\ CommitSubmission(r)
    /\ challenge' = FlipStatus(c, "verified")
    /\ profileRow' = profileRow \cup {<<l, w>>, <<l, x>>}
    /\ profile' = [profile EXCEPT ![l][w] = WinnerRow(@, seen[r].winner),
                                  ![l][x] = LoserRow(@, seen[r].loser)]
    /\ holder' = IF TitleMoves(r) THEN [holder EXCEPT ![l] = w] ELSE holder
    /\ history' = IF TitleMoves(r) THEN [history EXCEPT ![l] = Append(@, row)] ELSE history
    /\ applied' = [applied EXCEPT ![c] = @ + 1]
    /\ End(r) /\ ReleaseLocks(r)

\* IntegrityError.
TitleConflict(r) ==
    /\ pc[r] = "commit"
    /\ InauguratedMeanwhile(r)
    /\ Rollback(r)

-----------------------------------------------------------------------------
(* What Postgres and the world do to a request.                            *)

\* The requests r has to wait for before its next step.
WaitsFor(r) ==
    LET Blocking(u) == {profileLock[LadderOf(r)][u]} \ {Nobody, r} IN
    CASE pc[r] = "insertWinner" -> Blocking(req[r].winner)
      [] pc[r] = "insertLoser"  -> Blocking(req[r].loser)
      [] pc[r] = "update" -> Blocking(req[r].winner) \cup Blocking(req[r].loser)
      [] OTHER -> {}

\* Postgres breaks a circle of waiting transactions by aborting a member.
Deadlock(r) ==
    /\ \E S \in SUBSET Request :
          /\ r \in S
          /\ \A s \in S : WaitsFor(s) \cap S # {}
          /\ \A s \in S : \E t \in S : s \in WaitsFor(t)
    /\ Rollback(r)

\* The API process dies or the connection is lost before the commit.
Crash(r) == pc[r] # "idle" /\ Rollback(r)

-----------------------------------------------------------------------------

Init ==
    /\ challenge = [c \in Challenge |-> NoChallenge]
    /\ submission = [c \in Challenge |-> [u \in User |-> Nobody]]
    /\ profile = [l \in Ladder |-> [u \in User |-> BaselineProfile]]
    /\ profileRow = {}
    /\ holder = [l \in Ladder |-> Nobody]
    /\ history = [l \in Ladder |-> <<>>]
    /\ rowLock = [c \in Challenge |-> Nobody]
    /\ profileLock = [l \in Ladder |-> [u \in User |-> Nobody]]
    /\ pc = [r \in Request |-> "idle"]
    /\ req = [r \in Request |-> NoArguments]
    /\ seen = [r \in Request |-> NothingLoaded]
    /\ applied = [c \in Challenge |-> 0]

Create ==
    \E c \in Challenge, u, v \in User, l \in Ladder : CreateChallenge(c, u, v, l)

Start(r) ==
    \E u \in User, c \in Challenge :
       \/ BeginAccept(r, u, c)
       \/ BeginDecline(r, u, c)
       \/ BeginCancel(r, u, c)
       \/ \E w, x \in User : SubmitLock(r, u, c, w, x)

\* The steps the server takes by itself once a request has begun.
Step(r) ==
    \/ FinishAccept(r) \/ FinishDecline(r) \/ FinishCancel(r)
    \/ SubmitInsert(r) \/ SubmitFirst(r) \/ SubmitDispute(r) \/ SubmitAgree(r)
    \/ \E role \in Role : \/ LoadProfile(r, role) \/ MissProfile(r, role)
                          \/ InsertProfile(r, role) \/ InsertConflict(r, role)
    \/ UpdateProfiles(r) \/ ReadTitle(r) \/ CommitResult(r) \/ TitleConflict(r)
    \/ Deadlock(r)

Next == Create \/ \E r \in Request : Start(r) \/ Step(r) \/ Crash(r)

Spec == Init /\ [][Next]_vars

\* A request that has begun keeps running, and Postgres serves the waiters of
\* a lock in turn: a step enabled again and again is taken.
FairSpec == Spec /\ \A r \in Request : SF_vars(Step(r))

-----------------------------------------------------------------------------
(* Properties.                                                             *)

\* The labels of a submission, which holds the challenge row lock, and of the
\* part of it that has found the two reports in agreement.
SubmitPC == PC \ {"idle", "accept", "decline", "cancel"}
AgreedPC == SubmitPC \ {"locked", "inserted"}

\* Every row, argument and loaded row has its type.
TypeOK ==
    /\ challenge \in [Challenge -> ChallengeRow]
    /\ submission \in Submissions
    /\ profile \in [Ladder -> [User -> RankProfile]]
    /\ profileRow \in SUBSET (Ladder \X User)
    /\ holder \in Titles
    /\ history \in [Ladder -> Seq(Transfer)]
    /\ rowLock \in [Challenge -> Request \cup {Nobody}]
    /\ profileLock \in [Ladder -> [User -> Request \cup {Nobody}]]
    /\ pc \in [Request -> PC]
    /\ req \in [Request -> Arguments]
    /\ seen \in [Request -> Loaded]
    /\ applied \in [Challenge -> Nat]

\* Both participants of c have committed the report that w won.
AgreedOn(c, w) == \A u \in Participants(c) : submission[c][u] = w

\* services/challenges.py:16, "a result is applied to rank/honor exactly once":
\* whatever requests race, crash or are retried, a challenge is applied at most
\* once, and only on two reports that agree.
AppliedOnceOnAgreement ==
    \A c \in Challenge :
       /\ applied[c] <= 1
       /\ applied[c] = 1 =>
             /\ challenge[c].status # "none"
             /\ \E w \in Participants(c) : AgreedOn(c, w)

\* A verified challenge has been applied, and a disputed one, whose two reports
\* differ, never has: the status and the ladder commit together.
StatusTellsOutcome ==
    \A c \in Challenge :
       /\ challenge[c].status = "verified" => applied[c] = 1
       /\ challenge[c].status = "disputed" =>
             /\ applied[c] = 0
             /\ submission[c][challenge[c].challenger] # submission[c][challenge[c].opponent]

\* What the ladder has counted, what the two reported and what the status says are
\* one and the same outcome.
ResultsAreAgreed ==
    /\ AppliedOnceOnAgreement
    /\ StatusTellsOutcome

BothReported(c) == Participants(c) \subseteq {u \in User : submission[c][u] # Nobody}

\* The docstring of submit_challenge_result: two concurrent submissions never
\* both see an empty list, which would leave the challenge stuck with two
\* reports and no outcome.  The commit of the second report decides it.
SecondReportDecides ==
    [][\A c \in Challenge :
          BothReported(c)' /\ ~BothReported(c) =>
             challenge'[c].status \in {"verified", "disputed"}]_vars

\* models/honor_system.py:146, "the ledger and the title row are always
\* consistent": each transfer starts where the one before it ended, the first
\* from nobody, and the title is held by the receiver of the last, although
\* the title is read in one step and written in another.
TitleFollowsHistory ==
    \A l \in Ladder :
       /\ holder[l] = IF history[l] = <<>> THEN Nobody
                      ELSE history[l][Len(history[l])].new
       /\ \A i \in 1 .. Len(history[l]) :
             history[l][i].previous = IF i = 1 THEN Nobody ELSE history[l][i - 1].new

\* The results of ladder l that u won, or lost.
Won(l, u) ==
    {c \in Challenge : applied[c] = 1 /\ challenge[c].ladder = l /\ AgreedOn(c, u)}
Lost(l, u) ==
    {c \in Challenge : /\ applied[c] = 1 /\ challenge[c].ladder = l
                       /\ u \in Participants(c) /\ ~AgreedOn(c, u)}

\* A rank profile row of u on ladder l that the applied results have earned.
EarnedRow(l, u, row) ==
    /\ row.wins <= Cardinality(Won(l, u))
    /\ row.losses <= Cardinality(Lost(l, u))
    /\ row.streak <= row.wins
    /\ row.rating >= RatingFloor

\* Racing transactions may lose an update of a rank profile but never invent
\* one: no counter exceeds the applied results behind it, a streak is part of
\* the wins, and the rating keeps the floor of the CHECK constraint.
ProfilesNeverInflate ==
    \A l \in Ladder, u \in User : EarnedRow(l, u, profile[l][u])

\* The champion of a ladder is on its leaderboard with at least one win, also
\* after racing results have overwritten each other's counters.
ChampionHasWon ==
    \A l \in Ladder : holder[l] # Nobody =>
       <<l, holder[l]>> \in profileRow /\ profile[l][holder[l]].wins > 0

\* Nobody stands higher on a ladder than the results behind it, and nobody holds its
\* title without one.
LadderIsEarned ==
    /\ ProfilesNeverInflate
    /\ ChampionHasWon

\* The docstring of record_match_result_for_honor, "Rating updates (always):
\* winner.wins += 1; loser.losses += 1": a profile counts every applied result.
ProfilesCountResults ==
    \A l \in Ladder, u \in User :
       /\ profile[l][u].wins = Cardinality(Won(l, u))
       /\ profile[l][u].losses = Cardinality(Lost(l, u))

\* Every request that has begun ends: waiting for a row lock or a unique key
\* never becomes waiting forever.
RequestsEnd == \A r \in Request : pc[r] # "idle" ~> pc[r] = "idle"

\* The reports, the applications and the title behave as if each result were
\* applied in one instant (HonorLedger), although the code loads, waits and
\* writes in many steps.
Ledger == INSTANCE HonorLedger WITH
    game <- [c \in Challenge |-> [challenger |-> challenge[c].challenger,
                                  opponent |-> challenge[c].opponent,
                                  ladder |-> challenge[c].ladder]],
    report <- submission
LedgerSpec == Ledger!Spec

\* The same for the steps alone, for behaviours that start in mid-season.
LedgerStep == [][Ledger!Next]_(Ledger!vars)

-----------------------------------------------------------------------------
(* The inductive invariant behind the safety properties.                   *)

Created(c) == challenge[c].status # "none"

\* A challenge that exists has two players; one that does not has nothing.
ChallengeOK(c) ==
    /\ Created(c) =>
          /\ challenge[c].challenger \in User /\ challenge[c].opponent \in User
          /\ challenge[c].challenger # challenge[c].opponent
          /\ challenge[c].ladder \in Ladder
    /\ ~Created(c) =>
          /\ challenge[c] = NoChallenge /\ applied[c] = 0
          /\ \A u \in User : submission[c][u] = Nobody

\* A challenge has been applied exactly when its two reports agree.
OutcomeOK(c) ==
    /\ applied[c] \in {0, 1}
    /\ Created(c) =>
          (applied[c] = 1 <=> \E w \in Participants(c) : AgreedOn(c, w))

\* A request in flight is about a challenge that exists; a submission has
\* passed the checks and holds the row, so its challenge is still accepted and
\* its user has still not reported.
RequestOK(r) ==
    /\ pc[r] # "idle" =>
          req[r].chal \in Challenge /\ req[r].user \in User /\ Created(req[r].chal)
    /\ pc[r] \in SubmitPC =>
          /\ req[r].user \in Participants(req[r].chal)
          /\ req[r].winner \in User /\ req[r].loser \in User
          /\ req[r].winner # req[r].loser
          /\ {req[r].winner, req[r].loser} = Participants(req[r].chal)
          /\ rowLock[req[r].chal] = r
          /\ challenge[req[r].chal].status = "accepted"
          /\ submission[req[r].chal][req[r].user] = Nobody

\* The other report a submission has loaded is still the committed one, because
\* the challenge row is locked.
ReportOK(r) ==
    /\ pc[r] \in SubmitPC \ {"locked"} =>
          seen[r].other = submission[req[r].chal][OtherParticipant(req[r].chal, req[r].user)]
    /\ pc[r] \in AgreedPC => seen[r].other = req[r].winner

\* The holder it has loaded still decides, because both players' rows are
\* locked: whoever moves the title locks the row of the one who loses it.
TitleOK(r) ==
    /\ pc[r] \in {"title", "commit"} =>
          /\ profileLock[LadderOf(r)][req[r].winner] = r
          /\ profileLock[LadderOf(r)][req[r].loser] = r
    /\ pc[r] = "commit" /\ seen[r].holder # Nobody =>
          IF seen[r].holder \in {req[r].winner, req[r].loser}
          THEN holder[LadderOf(r)] = seen[r].holder
          ELSE holder[LadderOf(r)] \notin {req[r].winner, req[r].loser, Nobody}

\* The rows a request has loaded were earned when they were loaded, and results
\* are never taken back: written later, they may have lost an update, but they
\* are still earned.
LoadedOK(r) ==
    /\ pc[r] \in {"loadLoser", "insertLoser", "update", "title", "commit"} =>
          EarnedRow(LadderOf(r), req[r].winner, seen[r].winner)
    /\ pc[r] \in {"update", "title", "commit"} =>
          EarnedRow(LadderOf(r), req[r].loser, seen[r].loser)

AppliedResults == {c \in Challenge : applied[c] = 1}
LadderInv ==
    /\ IsFiniteSet(AppliedResults)
    /\ LadderIsEarned
    /\ \A r \in Request : LoadedOK(r)

ChallengeInv == \A c \in Challenge : ChallengeOK(c) /\ OutcomeOK(c)
RequestInv == \A r \in Request : RequestOK(r) /\ ReportOK(r) /\ TitleOK(r)

IInv ==
    /\ TypeOK /\ ChallengeInv /\ RequestInv
    /\ StatusTellsOutcome /\ TitleFollowsHistory
=============================================================================

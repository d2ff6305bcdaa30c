--------------------------- MODULE Notifications ----------------------------
(***************************************************************************)
(* Push tokens, the notification outbox and its delivery                   *)
(* (services/notifications.py, worker.py and the internal endpoint).       *)
(*                                                                         *)
(* A delivery cycle reads every due event, pushes them one after the other *)
(* and commits once, at the end.  What the cycle has decided is in its     *)
(* session until then; the SELECT of the next token flushes the last       *)
(* decision, and the UPDATE locks that event until the commit.  A cycle    *)
(* that dies has pushed and remembers nothing.                             *)
(***************************************************************************)
EXTENDS Integers

CONSTANTS
    Event,    \* identities of the notification events that may be enqueued
    Account,  \* accounts
    Token,    \* device push tokens
    Worker,   \* processes that run delivery cycles: worker.py, the endpoint
    Nothing,  \* SQL NULL, no token, no event
    MaxCrash  \* bound on the number of crashes

ASSUME NothingAssumption == Nothing \notin Event \cup Account \cup Token \cup Worker
ASSUME MaxCrashAssumption == MaxCrash \in Nat

VARIABLES
    owner,     \* push_tokens.user_id, Nothing for a token without a row
    newer,     \* the pairs of push_tokens rows of which the first was created later
    event,     \* the notification_events rows
    age,       \* scheduled_at against the clock: future, due, or 48 hours past
    stage,     \* where each worker stands
    batch,     \* the events its cycle has still to look at
    expired,   \* those that were 48 hours past when the cycle began
    decided,   \* what its session holds for each event and has not committed
    unflushed, \* the decision that is not in an UPDATE yet
    target,    \* the event and token of the push under way
    pushes,    \* history variable: how often Expo accepted each event
    aborted,   \* history variable: cycles that were rolled back
    crashes    \* history variable: those that a crash ended

tokens == <<owner, newer>>
session == <<stage, batch, expired, decided, unflushed, target>>
deliveryVars == <<tokens, event, age, session, pushes, aborted, crashes>>

Failure == {"no", "delivery_failed", "no_push_token_after_48h"}
Decision == {"open", "sent", "delivery_failed", "no_push_token_after_48h"}

EventRow ==
    [row : {"none", "there", "deleted"}, user : Account \cup {Nothing},
     push_token : Token \cup {Nothing}, sent : BOOLEAN, failed : Failure]
NoEvent ==
    [row |-> "none", user |-> Nothing, push_token |-> Nothing,
     sent |-> FALSE, failed |-> "no"]
Target == [event : Event \cup {Nothing}, token : Token \cup {Nothing}]
NoTarget == [event |-> Nothing, token |-> Nothing]
Open == [e \in Event |-> "open"]

\* The token of u that was created last.  Registering a known token again gives
\* it a new owner and leaves created_at alone.
_get_latest_push_token(u) ==
    LET mine == {t \in Token : owner[t] = u}
        latest == {t \in mine : \A s \in mine \ {t} : <<t, s>> \in newer}
    IN IF latest = {} THEN Nothing ELSE CHOOSE t \in latest : TRUE

-----------------------------------------------------------------------------
(* Tokens and the outbox.                                                  *)

register_push_token(u, t) ==
    /\ owner' = [owner EXCEPT ![t] = u]
    /\ newer' = IF owner[t] = Nothing
                THEN newer \cup {<<t, s>> : s \in {x \in Token : owner[x] # Nothing}}
                ELSE newer
    /\ UNCHANGED <<event, age, session, pushes, aborted, crashes>>

unregister_push_token(u, t) ==
    /\ owner[t] = u
    /\ owner' = [owner EXCEPT ![t] = Nothing]
    /\ newer' = {p \in newer : p[1] # t /\ p[2] # t}
    /\ UNCHANGED <<event, age, session, pushes, aborted, crashes>>

\* schedule_booking_notification and its caller's commit: due now, or a reminder.
Schedule(e, u, when) ==
    /\ event[e].row = "none"
    /\ event' = [event EXCEPT ![e] =
           [row |-> "there", user |-> u, push_token |-> _get_latest_push_token(u),
            sent |-> FALSE, failed |-> "no"]]
    /\ age' = [age EXCEPT ![e] = when]
    /\ UNCHANGED <<tokens, session, pushes, aborted, crashes>>

\* The account or the booking of an event is deleted and the row goes with it;
\* the DELETE waits for a cycle that has the row locked.
HeldBy(w, e) == decided[w][e] # "open" /\ unflushed[w] # e

Delete(e) ==
    /\ event[e].row = "there"
    /\ \A w \in Worker : ~HeldBy(w, e)
    /\ event' = [event EXCEPT ![e].row = "deleted"]
    /\ UNCHANGED <<tokens, age, session, pushes, aborted, crashes>>

\* The clock.
Tick(e) ==
    /\ age[e] \in {"future", "due"}
    /\ age' = [age EXCEPT ![e] = IF @ = "future" THEN "due" ELSE "stale"]
    /\ UNCHANGED <<tokens, event, session, pushes, aborted, crashes>>

-----------------------------------------------------------------------------
(* process_pending_notifications.                                          *)

\* Fault: an event that has failed is tried again.
PendingWithFailed ==
    {e \in Event : /\ event[e].row = "there" /\ age[e] \in {"due", "stale"}
                   /\ ~event[e].sent}

\* Fault: an event that was sent is read again.
PendingWithSent ==
    {e \in Event : /\ event[e].row = "there" /\ age[e] \in {"due", "stale"}
                   /\ event[e].failed = "no"}

\* The query of a cycle: due, not sent, not failed.
Pending ==
    {e \in Event : /\ event[e].row = "there" /\ age[e] \in {"due", "stale"}
                   /\ ~event[e].sent /\ event[e].failed = "no"}

StartCycle(w) ==
    /\ stage[w] = "idle"
    /\ Pending # {}
    /\ stage' = [stage EXCEPT ![w] = "scan"]
    /\ batch' = [batch EXCEPT ![w] = Pending]
    /\ expired' = [expired EXCEPT ![w] = {e \in Pending : age[e] = "stale"}]
    /\ UNCHANGED <<tokens, event, age, decided, unflushed, target, pushes, aborted, crashes>>

\* The next statement flushes the last decision: an UPDATE that needs the row,
\* unlocked.
CanFlush(w) ==
    LET e == unflushed[w]
    IN e # Nothing => /\ event[e].row = "there"
                      /\ \A v \in Worker \ {w} : ~HeldBy(v, e)

\* Fault: the token is the one of scheduling time if there is one.
ResolveCachedFirst(e) ==
    IF event[e].push_token # Nothing THEN event[e].push_token
    ELSE _get_latest_push_token(event[e].user)

\* The user's latest token now, else the one cached when the event was enqueued.
Resolve(e) ==
    LET fresh == _get_latest_push_token(event[e].user)
    IN IF fresh # Nothing THEN fresh ELSE event[e].push_token

\* Fault: an event without a token is given up in its first cycle.
SkipImpatient(w, e) ==
    /\ Resolve(e) = Nothing
    /\ decided' = [decided EXCEPT ![w][e] = "no_push_token_after_48h"]
    /\ unflushed' = [unflushed EXCEPT ![w] = e]
    /\ UNCHANGED <<stage, target>>

\* Fault: an event without a token is skipped however old it is.
SkipForever(w, e) ==
    /\ Resolve(e) = Nothing
    /\ unflushed' = [unflushed EXCEPT ![w] = Nothing]
    /\ UNCHANGED <<stage, target, decided>>

\* No token: the event is given up after 48 hours and skipped before.
Skip(w, e) ==
    /\ Resolve(e) = Nothing
    /\ decided' = [decided EXCEPT ![w][e] =
           IF e \in expired[w] THEN "no_push_token_after_48h" ELSE "open"]
    /\ unflushed' = [unflushed EXCEPT ![w] = IF e \in expired[w] THEN e ELSE Nothing]
    /\ UNCHANGED <<stage, target>>

BeginPush(w, e) ==
    /\ Resolve(e) # Nothing
    /\ stage' = [stage EXCEPT ![w] = "push"]
    /\ target' = [target EXCEPT ![w] = [event |-> e, token |-> Resolve(e)]]
    /\ unflushed' = [unflushed EXCEPT ![w] = Nothing]
    /\ UNCHANGED decided

\* One turn of the loop up to the request to Expo.  The query has no ORDER BY.
NextEvent(w, e) ==
    /\ stage[w] = "scan"
    /\ e \in batch[w]
    /\ CanFlush(w)
    /\ batch' = [batch EXCEPT ![w] = @ \ {e}]
    /\ Skip(w, e) \/ BeginPush(w, e)
    /\ UNCHANGED <<tokens, event, age, expired, pushes, aborted, crashes>>

\* Fault: the outcome of the request is not looked at.
OutcomeUnchecked(ok) == "sent"

\* Fault: the reason is not one of the two the column has.
OutcomeUnknown(ok) == IF ok THEN "sent" ELSE "expo_push_failed"

\* What the event becomes: sent on a 200, failed on anything else.
Outcome(ok) == IF ok THEN "sent" ELSE "delivery_failed"

\* _send_expo_push: Expo takes the push and answers 200, takes it and the answer
\* is lost or late, or does not take it.
Push(w, taken, ok) ==
    /\ stage[w] = "push"
    /\ ok => taken
    /\ LET e == target[w].event
       IN /\ pushes' = [pushes EXCEPT ![e] = IF taken THEN @ + 1 ELSE @]
          /\ decided' = [decided EXCEPT ![w][e] = Outcome(ok)]
          /\ unflushed' = [unflushed EXCEPT ![w] = e]
    /\ stage' = [stage EXCEPT ![w] = "scan"]
    /\ target' = [target EXCEPT ![w] = NoTarget]
    /\ UNCHANGED <<tokens, event, age, batch, expired, aborted, crashes>>

\* The session ends: its decisions and its locks are gone.
EndCycle(w) ==
    /\ stage' = [stage EXCEPT ![w] = "idle"]
    /\ batch' = [batch EXCEPT ![w] = {}]
    /\ expired' = [expired EXCEPT ![w] = {}]
    /\ decided' = [decided EXCEPT ![w] = Open]
    /\ target' = [target EXCEPT ![w] = NoTarget]

\* The commit.  An UPDATE names only the column that changed, so the other
\* column keeps what another cycle has written.
Commit(w) ==
    /\ stage[w] = "scan"
    /\ batch[w] = {}
    /\ CanFlush(w)
    /\ event' = [e \in Event |->
           [event[e] EXCEPT
               !.sent = @ \/ decided[w][e] = "sent",
               !.failed = IF decided[w][e] \in {"open", "sent"} THEN @ ELSE decided[w][e]]]
    /\ EndCycle(w)
    /\ unflushed' = [unflushed EXCEPT ![w] = Nothing]
    /\ UNCHANGED <<tokens, age, pushes, aborted, crashes>>

\* worker.py logs the exception of a cycle and goes on with its next one.
Abort(w) ==
    /\ stage[w] = "scan"
    /\ unflushed[w] # Nothing
    /\ EndCycle(w)
    /\ aborted' = aborted + 1
    /\ UNCHANGED <<tokens, event, age, pushes, crashes>>

\* The row of the last decision is gone: SQLAlchemy raises and rolls back.
RowIsGone(w) ==
    /\ Abort(w)
    /\ event[unflushed[w]].row = "deleted"
    /\ unflushed' = [unflushed EXCEPT ![w] = Nothing]

\* Two cycles wait for each other's rows: Postgres ends w, and v has its row.
Deadlock(w, v) ==
    /\ Abort(w)
    /\ stage[v] = "scan" /\ unflushed[v] # Nothing
    /\ HeldBy(v, unflushed[w]) /\ HeldBy(w, unflushed[v])
    /\ unflushed' = [unflushed EXCEPT ![w] = Nothing, ![v] = Nothing]

\* The process dies in the middle of a cycle, and is started again.
Crash(w) ==
    /\ stage[w] # "idle"
    /\ crashes < MaxCrash
    /\ EndCycle(w)
    /\ unflushed' = [unflushed EXCEPT ![w] = Nothing]
    /\ crashes' = crashes + 1
    /\ aborted' = aborted + 1
    /\ UNCHANGED <<tokens, event, age, pushes>>

-----------------------------------------------------------------------------
DeliveryInit ==
    /\ owner = [t \in Token |-> Nothing]
    /\ newer = {}
    /\ event = [e \in Event |-> NoEvent]
    /\ age = [e \in Event |-> "none"]
    /\ stage = [w \in Worker |-> "idle"]
    /\ batch = [w \in Worker |-> {}]
    /\ expired = [w \in Worker |-> {}]
    /\ decided = [w \in Worker |-> Open]
    /\ unflushed = [w \in Worker |-> Nothing]
    /\ target = [w \in Worker |-> NoTarget]
    /\ pushes = [e \in Event |-> 0]
    /\ aborted = 0
    /\ crashes = 0

Users ==
    \/ \E u \in Account, t \in Token : register_push_token(u, t) \/ unregister_push_token(u, t)
    \/ \E e \in Event, u \in Account, when \in {"future", "due"} : Schedule(e, u, when)
    \/ \E e \in Event : Delete(e)

Cycle(w) ==
    \/ StartCycle(w) \/ Commit(w) \/ RowIsGone(w)
    \/ \E v \in Worker \ {w} : Deadlock(w, v)
    \/ \E e \in Event : NextEvent(w, e)
    \/ \E taken, ok \in BOOLEAN : Push(w, taken, ok)

DeliveryNext ==
    \/ Users
    \/ \E e \in Event : Tick(e)
    \/ \E w \in Worker : Cycle(w) \/ Crash(w)

DeliverySpec == DeliveryInit /\ [][DeliveryNext]_deliveryVars

\* Time passes, and worker.py polls for ever: a cycle that can go on does.
DeliveryFairness ==
    /\ \A e \in Event : WF_deliveryVars(Tick(e))
    /\ \A w \in Worker : WF_deliveryVars(Cycle(w))
FairDeliverySpec == DeliverySpec /\ DeliveryFairness

-----------------------------------------------------------------------------
(* Properties.                                                             *)

\* Every variable has its type.
DeliveryTypeOK ==
    /\ owner \in [Token -> Account \cup {Nothing}]
    /\ newer \in SUBSET (Token \X Token)
    /\ event \in [Event -> EventRow]
    /\ age \in [Event -> {"none", "future", "due", "stale"}]
    /\ stage \in [Worker -> {"idle", "scan", "push"}]
    /\ batch \in [Worker -> SUBSET Event]
    /\ expired \in [Worker -> SUBSET Event]
    /\ decided \in [Worker -> [Event -> Decision]]
    /\ unflushed \in [Worker -> Event \cup {Nothing}]
    /\ target \in [Worker -> Target]
    /\ pushes \in [Event -> Nat]
    /\ aborted \in Nat
    /\ crashes \in Nat

\* An event is marked as sent only when Expo has taken it, whatever crashed,
\* overlapped or was deleted meanwhile.
SentWasPushed == \A e \in Event : event[e].sent => pushes[e] > 0

\* Nobody's notification is given up for lack of a token before it is 48 hours
\* late.
GivenUpLate ==
    \A e \in Event : event[e].failed = "no_push_token_after_48h" => age[e] = "stale"

\* What the outbox says of an event is what has happened to it.
OutboxTellsTruth ==
    /\ SentWasPushed
    /\ GivenUpLate

\* With one worker a user gets a notification twice only for a cycle that was
\* rolled back: once more for each.
DuplicatesAreAborts == \A e \in Event : pushes[e] <= 1 + aborted

\* With one worker a settled event has one outcome and keeps it: it is sent or it
\* has failed, not both, and it is never pushed again.
SettledOnce ==
    \A e \in Event :
        event[e].sent \/ event[e].failed # "no" =>
            /\ pushes'[e] = pushes[e]
            /\ event'[e].sent = event[e].sent
            /\ event'[e].failed = event[e].failed

\* A user is pushed again only after a cycle was rolled back, and never about an event
\* that is settled.
PushesAreFew == [][DuplicatesAreAborts' /\ SettledOnce]_deliveryVars

\* A notification that is due is settled in the end, unless it is deleted.
EventuallySettled ==
    \A e \in Event :
        (event[e].row = "there" /\ age[e] = "due") ~>
            (event[e].sent \/ event[e].failed # "no" \/ event[e].row = "deleted")

\* A registered device is used.  Whenever a user has a token, a push for him goes
\* to a token that is his at that moment.
FreshTokenUsed ==
    [][\A w \in Worker :
        LET e == target'[w].event
        IN target[w] = NoTarget /\ e # Nothing
             /\ (\E t \in Token : owner[t] = event[e].user)
           => owner[target'[w].token] = event[e].user]_deliveryVars
=============================================================================

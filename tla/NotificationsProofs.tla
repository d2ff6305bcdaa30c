------------------------ MODULE NotificationsProofs -------------------------
(***************************************************************************)
(* Proofs about Notifications, for every set of events, users, tokens and  *)
(* workers and any number of crashes.                                      *)
(***************************************************************************)
EXTENDS Notifications, FiniteSetTheorems, WellFoundedInduction, TLAPS

\* What a session has decided is true of the world although it is not committed.
SessionOK(w) ==
    /\ \A e \in expired[w] : age[e] = "stale"
    /\ \A e \in Event :
           /\ decided[w][e] = "sent" => pushes[e] > 0
           /\ decided[w][e] = "no_push_token_after_48h" => age[e] = "stale"
    /\ stage[w] = "push" => target[w].event \in Event

IInv ==
    /\ DeliveryTypeOK
    /\ \A w \in Worker : SessionOK(w)
    /\ \A e \in Event : event[e].row = "none" => age[e] = "none"
    /\ SentWasPushed
    /\ GivenUpLate

-----------------------------------------------------------------------------
(* Types.                                                                  *)

\* The newest token of a user is a token, or there is none.
LEMMA LatestTokenType ==
    ASSUME NEW u
    PROVE  _get_latest_push_token(u) \in Token \cup {Nothing}
  <1> DEFINE mine == {t \in Token : owner[t] = u}
             latest == {t \in mine : \A s \in mine \ {t} : <<t, s>> \in newer}
  <1>1. CASE latest = {}
    BY <1>1 DEF _get_latest_push_token
  <1>2. CASE latest # {}
    <2>1. (CHOOSE t \in latest : TRUE) \in latest
      BY <1>2
    <2>2. latest \subseteq Token
      OBVIOUS
    <2> QED
      BY <1>2, <2>1, <2>2 DEF _get_latest_push_token
  <1> QED
    BY <1>1, <1>2

\* So is what a worker resolves for an event.
LEMMA ResolveType ==
    ASSUME DeliveryTypeOK, NEW e \in Event
    PROVE  Resolve(e) \in Token \cup {Nothing}
  BY LatestTokenType DEF Resolve, DeliveryTypeOK, EventRow

\* The end of a cycle, with whatever becomes of the locks.
LEMMA EndCycleTypes ==
    ASSUME DeliveryTypeOK, NEW w \in Worker, EndCycle(w)
    PROVE  /\ stage' \in [Worker -> {"idle", "scan", "push"}]
           /\ batch' \in [Worker -> SUBSET Event]
           /\ expired' \in [Worker -> SUBSET Event]
           /\ decided' \in [Worker -> [Event -> Decision]]
           /\ target' \in [Worker -> Target]
  <1>1. Open \in [Event -> Decision] /\ NoTarget \in Target
    BY DEF Open, Decision, NoTarget, Target
  <1> QED
    BY <1>1 DEF EndCycle, DeliveryTypeOK

\* Every step keeps the types.
LEMMA TypeStep ==
    ASSUME DeliveryTypeOK, [DeliveryNext]_deliveryVars
    PROVE  DeliveryTypeOK'
  <1> USE DEF tokens, session
  <1>1. CASE \E u \in Account, t \in Token : register_push_token(u, t)
    BY <1>1 DEF register_push_token, DeliveryTypeOK
  <1>2. CASE \E u \in Account, t \in Token : unregister_push_token(u, t)
    BY <1>2 DEF unregister_push_token, DeliveryTypeOK
  <1>3. CASE \E e \in Event, u \in Account, when \in {"future", "due"} : Schedule(e, u, when)
    <2>1. PICK e \in Event, u \in Account, when \in {"future", "due"} : Schedule(e, u, when)
      BY <1>3
    <2>2. [row |-> "there", user |-> u, push_token |-> _get_latest_push_token(u),
           sent |-> FALSE, failed |-> "no"] \in EventRow
      BY LatestTokenType DEF EventRow, Failure
    <2>3. event' \in [Event -> EventRow]
      BY <2>1, <2>2 DEF Schedule, DeliveryTypeOK
    <2>4. age' \in [Event -> {"none", "future", "due", "stale"}]
      BY <2>1 DEF Schedule, DeliveryTypeOK
    <2> QED
      BY <2>1, <2>3, <2>4 DEF Schedule, DeliveryTypeOK
  <1>4. CASE \E e \in Event : Delete(e)
    <2>1. PICK e \in Event : Delete(e)
      BY <1>4
    <2>2. [event[e] EXCEPT !.row = "deleted"] \in EventRow
      <3>1. event[e] \in EventRow
        BY DEF DeliveryTypeOK
      <3> QED
        BY <3>1 DEF EventRow
    <2>3. event' \in [Event -> EventRow]
      BY <2>1, <2>2 DEF Delete, DeliveryTypeOK
    <2> QED
      BY <2>1, <2>3 DEF Delete, DeliveryTypeOK
  <1>5. CASE \E e \in Event : Tick(e)
    BY <1>5 DEF Tick, DeliveryTypeOK
  <1>6. CASE \E w \in Worker : StartCycle(w)
    BY <1>6 DEF StartCycle, Pending, DeliveryTypeOK
  <1>7. CASE \E w \in Worker, e \in Event : NextEvent(w, e)
    <2>1. PICK w \in Worker, e \in Event : NextEvent(w, e)
      BY <1>7
    <2>2. CASE Skip(w, e)
      <3>1. decided' \in [Worker -> [Event -> Decision]]
        BY <2>2 DEF Skip, DeliveryTypeOK, Decision
      <3>2. unflushed' \in [Worker -> Event \cup {Nothing}]
        BY <2>2 DEF Skip, DeliveryTypeOK
      <3>3. batch' \in [Worker -> SUBSET Event]
        BY <2>1 DEF NextEvent, DeliveryTypeOK
      <3> QED
        BY <2>1, <2>2, <3>1, <3>2, <3>3 DEF NextEvent, Skip, DeliveryTypeOK
    <2>3. CASE BeginPush(w, e)
      <3>1. [event |-> e, token |-> Resolve(e)] \in Target
        BY ResolveType DEF Target
      <3>2. target' \in [Worker -> Target]
        BY <2>3, <3>1 DEF BeginPush, DeliveryTypeOK
      <3>3. batch' \in [Worker -> SUBSET Event]
        BY <2>1 DEF NextEvent, DeliveryTypeOK
      <3> QED
        BY <2>1, <2>3, <3>2, <3>3 DEF NextEvent, BeginPush, DeliveryTypeOK
    <2> QED
      BY <2>1, <2>2, <2>3 DEF NextEvent
  <1>8. CASE \E w \in Worker, taken, ok \in BOOLEAN : Push(w, taken, ok)
    <2>1. PICK w \in Worker, taken \in BOOLEAN, ok \in BOOLEAN : Push(w, taken, ok)
      BY <1>8
    <2>2. SUFFICES ASSUME NEW e, e = target[w].event
                   PROVE  DeliveryTypeOK'
      OBVIOUS
    <2>3. e \in Event \cup {Nothing}
      BY <2>2 DEF DeliveryTypeOK, Target
    <2>4. pushes' \in [Event -> Nat]
      <3>1. pushes \in [Event -> Nat]
        BY DEF DeliveryTypeOK
      <3>2. pushes' = [pushes EXCEPT ![e] = IF taken THEN @ + 1 ELSE @]
        BY <2>1, <2>2 DEF Push
      <3>3. CASE taken
        <4>1. pushes' = [d \in Event |-> IF d = e THEN pushes[d] + 1 ELSE pushes[d]]
          BY <3>1, <3>2, <3>3
        <4> QED
          BY <3>1, <4>1
      <3>4. CASE ~taken
        BY <3>1, <3>2, <3>4
      <3> QED
        BY <3>3, <3>4
    <2>5. Outcome(ok) \in Decision
      BY DEF Outcome, Decision
    <2>6. decided' \in [Worker -> [Event -> Decision]]
      BY <2>1, <2>5 DEF Push, DeliveryTypeOK
    <2>7. unflushed' \in [Worker -> Event \cup {Nothing}]
      BY <2>1, <2>2, <2>3 DEF Push, DeliveryTypeOK
    <2>8. target' \in [Worker -> Target]
      BY <2>1 DEF Push, DeliveryTypeOK, Target, NoTarget
    <2> QED
      BY <2>1, <2>4, <2>6, <2>7, <2>8 DEF Push, DeliveryTypeOK
  <1>9. CASE \E w \in Worker : Commit(w)
    <2>1. PICK w \in Worker : Commit(w)
      BY <1>9
    <2>2. event' \in [Event -> EventRow]
      <3> SUFFICES ASSUME NEW e \in Event
                   PROVE  event'[e] \in EventRow
        BY <2>1 DEF Commit
      <3>1. decided[w][e] \in Decision /\ event[e] \in EventRow
        BY <2>1 DEF DeliveryTypeOK
      <3>2. event'[e] = [event[e] EXCEPT
                !.sent = event[e].sent \/ decided[w][e] = "sent",
                !.failed = IF decided[w][e] \in {"open", "sent"} THEN event[e].failed
                           ELSE decided[w][e]]
        BY <2>1 DEF Commit
      <3> QED
        BY <3>1, <3>2 DEF EventRow, Decision, Failure
    <2> QED
      BY <2>1, <2>2, EndCycleTypes DEF Commit, DeliveryTypeOK
  <1>10. CASE \E w \in Worker : RowIsGone(w)
    BY <1>10, EndCycleTypes DEF RowIsGone, Abort, DeliveryTypeOK
  <1>11. CASE \E w \in Worker : \E v \in Worker \ {w} : Deadlock(w, v)
    BY <1>11, EndCycleTypes DEF Deadlock, Abort, DeliveryTypeOK
  <1>12. CASE \E w \in Worker : Crash(w)
    BY <1>12, EndCycleTypes DEF Crash, DeliveryTypeOK
  <1>13. CASE UNCHANGED deliveryVars
    BY <1>13 DEF deliveryVars, DeliveryTypeOK
  <1> QED
    BY <1>1, <1>2, <1>3, <1>4, <1>5, <1>6, <1>7, <1>8, <1>9, <1>10, <1>11, <1>12, <1>13
       DEF DeliveryNext, Users, Cycle

-----------------------------------------------------------------------------
(* Sessions and events, whatever overlaps.                                 *)

\* Pushes and lateness only grow, so what is decided stays true while it waits:
\* a step that decides nothing and leaves the sessions alone or ends one.
LEMMA SessionFrame ==
    ASSUME DeliveryTypeOK, NEW w \in Worker, SessionOK(w),
           \A e \in Event : /\ pushes[e] > 0 => pushes'[e] > 0
                            /\ age[e] = "stale" => age'[e] = "stale",
           \/ UNCHANGED <<stage[w], expired[w], decided[w], target[w]>>
           \/ EndCycle(w)
    PROVE  SessionOK(w)'
  <1>1. CASE UNCHANGED <<stage[w], expired[w], decided[w], target[w]>>
    <2>1. expired[w] \subseteq Event
      BY DEF DeliveryTypeOK
    <2> QED
      BY <1>1, <2>1 DEF SessionOK
  <1>2. CASE EndCycle(w)
    <2>1. stage'[w] = "idle" /\ expired'[w] = {} /\ decided'[w] = Open
      BY <1>2 DEF EndCycle, DeliveryTypeOK
    <2> QED
      BY <2>1 DEF SessionOK, Open
  <1> QED
    BY <1>1, <1>2

\* A step of one worker leaves the sessions of the others alone.
LEMMA OtherSessions ==
    ASSUME DeliveryTypeOK, NEW w \in Worker, NEW v \in Worker, v # w,
           \/ Cycle(w) \/ Crash(w)
    PROVE  UNCHANGED <<stage[v], expired[v], decided[v], target[v]>>
  <1>1. CASE StartCycle(w)
    BY <1>1 DEF StartCycle, DeliveryTypeOK
  <1>2. CASE \E e \in Event : NextEvent(w, e)
    BY <1>2 DEF NextEvent, Skip, BeginPush, DeliveryTypeOK
  <1>3. CASE \E taken, ok \in BOOLEAN : Push(w, taken, ok)
    BY <1>3 DEF Push, DeliveryTypeOK
  <1>4. CASE EndCycle(w)
    BY <1>4 DEF EndCycle, DeliveryTypeOK
  <1> QED
    BY <1>1, <1>2, <1>3, <1>4 DEF Cycle, Commit, RowIsGone, Deadlock, Abort, Crash

\* The clock of an event runs one way, and Expo takes nothing back.
LEMMA Monotone ==
    ASSUME IInv, [DeliveryNext]_deliveryVars, NEW e \in Event
    PROVE  /\ pushes[e] > 0 => pushes'[e] > 0
           /\ age[e] = "stale" => age'[e] = "stale"
  <1> USE DEF tokens, session
  <1>1. CASE \E x \in Event, u \in Account, when \in {"future", "due"} : Schedule(x, u, when)
    BY <1>1 DEF Schedule, IInv, DeliveryTypeOK
  <1>2. CASE \E x \in Event : Tick(x)
    BY <1>2 DEF Tick, IInv, DeliveryTypeOK
  <1>3. CASE \E w \in Worker, taken, ok \in BOOLEAN : Push(w, taken, ok)
    <2>1. PICK w \in Worker, taken \in BOOLEAN, ok \in BOOLEAN : Push(w, taken, ok)
      BY <1>3
    <2>2. pushes[e] \in Nat
      BY DEF IInv, DeliveryTypeOK
    <2>3. \/ pushes'[e] = pushes[e]
          \/ pushes'[e] = pushes[e] + 1
      BY <2>1 DEF Push, IInv, DeliveryTypeOK
    <2> QED
      BY <2>1, <2>2, <2>3 DEF Push
  <1>4. CASE UNCHANGED <<pushes, age>>
    BY <1>4
  <1> QED
    BY <1>1, <1>2, <1>3, <1>4
       DEF DeliveryNext, Users, Cycle, register_push_token, unregister_push_token, Delete,
           StartCycle, NextEvent, Commit, RowIsGone, Deadlock, Abort, Crash, deliveryVars

\* The worker that takes the step: what it decides is true when it decides it.
LEMMA OwnSession ==
    ASSUME IInv, [DeliveryNext]_deliveryVars, NEW w \in Worker, Cycle(w) \/ Crash(w)
    PROVE  SessionOK(w)'
  <1>1. /\ DeliveryTypeOK /\ DeliveryTypeOK' /\ SessionOK(w)
        /\ \A e \in Event : /\ pushes[e] > 0 => pushes'[e] > 0
                            /\ age[e] = "stale" => age'[e] = "stale"
    BY TypeStep, Monotone DEF IInv
  <1>2. CASE StartCycle(w)
    <2>1. /\ stage'[w] = "scan" /\ UNCHANGED <<decided, pushes, age>>
          /\ expired'[w] = {e \in Pending : age[e] = "stale"}
      BY <1>1, <1>2 DEF StartCycle, DeliveryTypeOK
    <2> QED
      BY <1>1, <2>1 DEF SessionOK
  <1>3. CASE \E e \in Event : NextEvent(w, e)
    <2>1. PICK e \in Event : NextEvent(w, e)
      BY <1>3
    <2>2. UNCHANGED <<pushes, age, expired>>
      BY <2>1 DEF NextEvent
    <2>3. CASE Skip(w, e)
      <3>1. stage'[w] = "scan"
        BY <2>1, <2>3 DEF NextEvent, Skip
      <3>2. \A x \in Event : x # e => decided'[w][x] = decided[w][x]
        BY <2>3, <1>1 DEF Skip, DeliveryTypeOK
      <3>3. decided'[w][e] = IF e \in expired[w] THEN "no_push_token_after_48h" ELSE "open"
        BY <2>3, <1>1 DEF Skip, DeliveryTypeOK
      <3> QED
        BY <2>2, <3>1, <3>2, <3>3, <1>1 DEF SessionOK
    <2>4. CASE BeginPush(w, e)
      <3>1. decided' = decided /\ target'[w].event = e
        BY <2>4, <1>1 DEF BeginPush, DeliveryTypeOK
      <3> QED
        BY <2>2, <3>1, <1>1 DEF SessionOK
    <2> QED
      BY <2>1, <2>3, <2>4 DEF NextEvent
  <1>4. CASE \E taken, ok \in BOOLEAN : Push(w, taken, ok)
    <2>1. PICK taken \in BOOLEAN, ok \in BOOLEAN : Push(w, taken, ok)
      BY <1>4
    <2>2. SUFFICES ASSUME NEW e \in Event, e = target[w].event
                   PROVE  SessionOK(w)'
      BY <2>1, <1>1 DEF Push, SessionOK
    <2>3. /\ stage'[w] = "scan" /\ UNCHANGED <<expired, age>>
          /\ \A x \in Event : x # e => decided'[w][x] = decided[w][x]
          /\ decided'[w][e] = Outcome(ok)
      BY <2>1, <2>2, <1>1 DEF Push, DeliveryTypeOK
    <2>4. Outcome(ok) = "sent" => pushes'[e] > 0
      <3>1. ok => taken
        BY <2>1 DEF Push
      <3>2. taken => pushes'[e] = pushes[e] + 1
        BY <2>1, <2>2, <1>1 DEF Push, DeliveryTypeOK
      <3>3. pushes[e] \in Nat
        BY <1>1 DEF DeliveryTypeOK
      <3> QED
        BY <3>1, <3>2, <3>3 DEF Outcome
    <2>5. Outcome(ok) # "no_push_token_after_48h"
      BY DEF Outcome
    <2> QED
      BY <2>3, <2>4, <2>5, <1>1 DEF SessionOK
  <1>5. CASE EndCycle(w)
    BY <1>1, <1>5, SessionFrame
  <1> QED
    BY <1>2, <1>3, <1>4, <1>5 DEF Cycle, Commit, RowIsGone, Deadlock, Abort, Crash

\* A commit writes to an event what was decided for it, and nothing else does.
LEMMA EventStep ==
    ASSUME IInv, [DeliveryNext]_deliveryVars, NEW e \in Event
    PROVE  /\ event'[e].sent =>
                  event[e].sent \/ \E w \in Worker : decided[w][e] = "sent"
           /\ event'[e].failed = "no_push_token_after_48h" =>
                  \/ event[e].failed = "no_push_token_after_48h"
                  \/ \E w \in Worker : decided[w][e] = "no_push_token_after_48h"
           /\ event'[e].row = "none" => event[e].row = "none" /\ age'[e] = age[e]
  <1> USE DEF tokens, session
  <1>1. DeliveryTypeOK
    BY DEF IInv
  <1>2. event[e] \in EventRow
    BY <1>1 DEF DeliveryTypeOK
  <1>3. CASE \E x \in Event, u \in Account, when \in {"future", "due"} : Schedule(x, u, when)
    BY <1>1, <1>3 DEF Schedule, DeliveryTypeOK
  <1>4. CASE \E x \in Event : Delete(x)
    BY <1>1, <1>2, <1>4 DEF Delete, DeliveryTypeOK, EventRow
  <1>5. CASE \E x \in Event : Tick(x)
    BY <1>1, <1>5 DEF Tick, IInv, DeliveryTypeOK
  <1>6. CASE \E w \in Worker : Commit(w)
    <2>1. PICK w \in Worker : Commit(w)
      BY <1>6
    <2>2. event'[e] = [event[e] EXCEPT
              !.sent = event[e].sent \/ decided[w][e] = "sent",
              !.failed = IF decided[w][e] \in {"open", "sent"} THEN event[e].failed
                         ELSE decided[w][e]]
      BY <2>1 DEF Commit
    <2>3. /\ event'[e].sent = (event[e].sent \/ decided[w][e] = "sent")
          /\ event'[e].failed = IF decided[w][e] \in {"open", "sent"} THEN event[e].failed
                                ELSE decided[w][e]
          /\ event'[e].row = event[e].row
      BY <1>2, <2>2 DEF EventRow
    <2> QED
      BY <2>1, <2>3 DEF Commit
  <1>7. CASE UNCHANGED <<event, age>>
    BY <1>7
  <1> QED
    BY <1>3, <1>4, <1>5, <1>6, <1>7
       DEF DeliveryNext, Users, Cycle, register_push_token, unregister_push_token,
           StartCycle, NextEvent, Push, RowIsGone, Deadlock, Abort, Crash, deliveryVars

\* Every step keeps the inductive invariant.
THEOREM Invariance == DeliverySpec => []IInv
  <1>1. DeliveryInit => IInv
    BY DEF DeliveryInit, IInv, DeliveryTypeOK, SessionOK, SentWasPushed, GivenUpLate, Open, Decision,
           NoTarget, Target, NoEvent, EventRow, Failure
  <1>2. IInv /\ [DeliveryNext]_deliveryVars => IInv'
    <2> SUFFICES ASSUME IInv, [DeliveryNext]_deliveryVars
                 PROVE  IInv'
      OBVIOUS
    <2>1. DeliveryTypeOK /\ DeliveryTypeOK'
      BY TypeStep DEF IInv
    <2>2. \A w \in Worker : SessionOK(w)'
      <3> TAKE w \in Worker
      <3>1. CASE Cycle(w) \/ Crash(w)
        BY <3>1, OwnSession
      <3>2. CASE \E v \in Worker : v # w /\ (Cycle(v) \/ Crash(v))
        <4>1. UNCHANGED <<stage[w], expired[w], decided[w], target[w]>>
          BY <2>1, <3>2, OtherSessions
        <4> QED
          BY <2>1, <4>1, SessionFrame, Monotone DEF IInv
      <3>3. CASE UNCHANGED session
        <4>1. UNCHANGED <<stage[w], expired[w], decided[w], target[w]>>
          BY <3>3 DEF session
        <4> QED
          BY <2>1, <4>1, SessionFrame, Monotone DEF IInv
      <3> QED
        BY <3>1, <3>2, <3>3
           DEF DeliveryNext, Users, register_push_token, unregister_push_token, Schedule, Delete,
               Tick, deliveryVars
    <2>3. \A e \in Event : event'[e].row = "none" => age'[e] = "none"
      BY EventStep DEF IInv
    <2>4. SentWasPushed'
      <3> SUFFICES ASSUME NEW e \in Event, event'[e].sent
                   PROVE  pushes'[e] > 0
        BY DEF SentWasPushed
      <3>1. event[e].sent \/ \E w \in Worker : decided[w][e] = "sent"
        BY EventStep
      <3>2. pushes[e] > 0
        BY <3>1 DEF IInv, SentWasPushed, SessionOK
      <3> QED
        BY <3>2, Monotone
    <2>5. GivenUpLate'
      <3> SUFFICES ASSUME NEW e \in Event, event'[e].failed = "no_push_token_after_48h"
                   PROVE  age'[e] = "stale"
        BY DEF GivenUpLate
      <3>1. \/ event[e].failed = "no_push_token_after_48h"
            \/ \E w \in Worker : decided[w][e] = "no_push_token_after_48h"
        BY EventStep
      <3>2. age[e] = "stale"
        BY <3>1 DEF IInv, GivenUpLate, SessionOK
      <3> QED
        BY <3>2, Monotone
    <2> QED
      BY <2>1, <2>2, <2>3, <2>4, <2>5 DEF IInv
  <1> QED
    BY <1>1, <1>2, PTL DEF DeliverySpec

\* Every variable keeps its type.
THEOREM TypeCorrectness == DeliverySpec => []DeliveryTypeOK
  <1>1. IInv => DeliveryTypeOK
    BY DEF IInv
  <1> QED
    BY <1>1, Invariance, PTL

\* The outbox does not lie about delivery: what is marked as sent was taken by
\* Expo, and what is given up was 48 hours late, with any number of workers.
THEOREM OutboxHonest == DeliverySpec => []OutboxTellsTruth
  <1>1. IInv => OutboxTellsTruth
    BY DEF IInv, OutboxTellsTruth
  <1> QED
    BY <1>1, Invariance, PTL

-----------------------------------------------------------------------------
(* One worker.                                                             *)

Settled(e) == event[e].sent \/ event[e].failed # "no"

\* The event still waits for a decision in the session of w.
Awaited(w, e) == e \in batch[w] \/ (stage[w] = "push" /\ target[w].event = e)

\* The account of the only worker w: an event has been pushed once for every
\* aborted cycle, and once more only if it is settled or decided.
AccountOK(w) ==
    /\ stage[w] = "idle" => decided[w] = Open /\ batch[w] = {}
    /\ stage[w] = "push" => target[w].event \notin batch[w]
    /\ \A e \in Event :
           /\ pushes[e] <= aborted + 1
           /\ ~Settled(e) /\ decided[w][e] = "open" => pushes[e] <= aborted
           /\ Awaited(w, e) =>
                  ~Settled(e) /\ decided[w][e] = "open" /\ event[e].row # "none"
           /\ decided[w][e] # "open" => ~Settled(e) /\ event[e].row # "none"
           /\ event[e].row = "none" => ~Settled(e)

\* A settled event is not touched.
Kept == \A e \in Event :
    Settled(e) => /\ pushes'[e] = pushes[e]
                  /\ event'[e].sent = event[e].sent
                  /\ event'[e].failed = event[e].failed

\* Steps that leave the sessions, the pushes and the outcomes alone.
LEMMA AccountFrame ==
    ASSUME DeliveryTypeOK, NEW w \in Worker, AccountOK(w),
           UNCHANGED <<session, pushes, aborted>>,
           \A e \in Event : /\ event'[e].sent = event[e].sent
                            /\ event'[e].failed = event[e].failed
                            /\ event[e].row # "none" => event'[e].row # "none"
    PROVE  AccountOK(w)' /\ Kept
  BY DEF AccountOK, Kept, Settled, Awaited, session

\* A cycle that is rolled back forgets its decisions, and counts as aborted.
LEMMA AccountAbort ==
    ASSUME DeliveryTypeOK, NEW w \in Worker, AccountOK(w), EndCycle(w),
           aborted' = aborted + 1, UNCHANGED <<event, pushes>>
    PROVE  AccountOK(w)' /\ Kept
  <1>1. stage'[w] = "idle" /\ batch'[w] = {} /\ decided'[w] = Open
    BY DEF EndCycle, DeliveryTypeOK
  <1>2. aborted \in Nat /\ \A e \in Event : pushes[e] \in Nat
    BY DEF DeliveryTypeOK
  <1>3. \A e \in Event : decided'[w][e] = "open"
    BY <1>1 DEF Open
  <1> QED
    BY <1>1, <1>2, <1>3 DEF AccountOK, Kept, Settled, Awaited

\* The commit turns decisions into outcomes.
LEMMA AccountCommit ==
    ASSUME DeliveryTypeOK, NEW w \in Worker, AccountOK(w), Commit(w)
    PROVE  AccountOK(w)' /\ Kept
  <1>1. stage'[w] = "idle" /\ batch'[w] = {} /\ decided'[w] = Open
    BY DEF Commit, EndCycle, DeliveryTypeOK
  <1>2. UNCHANGED <<pushes, aborted>>
    BY DEF Commit
  <1>3. \A e \in Event : decided'[w][e] = "open"
    BY <1>1 DEF Open
  <1>4. ASSUME NEW e \in Event
        PROVE  /\ event'[e].row = event[e].row
               /\ event'[e].sent = (event[e].sent \/ decided[w][e] = "sent")
               /\ event'[e].failed = IF decided[w][e] \in {"open", "sent"} THEN event[e].failed
                                     ELSE decided[w][e]
    <2>1. event[e] \in EventRow
      BY DEF DeliveryTypeOK
    <2>2. event'[e] = [event[e] EXCEPT
              !.sent = event[e].sent \/ decided[w][e] = "sent",
              !.failed = IF decided[w][e] \in {"open", "sent"} THEN event[e].failed
                         ELSE decided[w][e]]
      BY DEF Commit
    <2> QED
      BY <2>1, <2>2 DEF EventRow
  <1>5. Kept
    <2> SUFFICES ASSUME NEW e \in Event, Settled(e)
                 PROVE  event'[e].sent = event[e].sent /\ event'[e].failed = event[e].failed
      BY <1>2 DEF Kept
    <2>1. decided[w][e] = "open"
      BY DEF AccountOK
    <2>2. event[e].sent \in BOOLEAN
      BY DEF DeliveryTypeOK, EventRow
    <2> QED
      BY <1>4, <2>1, <2>2
  <1>6. ASSUME NEW e \in Event
        PROVE  /\ Settled(e)' <=> Settled(e) \/ decided[w][e] # "open"
               /\ event[e].row # "none" => event'[e].row # "none"
    <2>1. decided[w][e] \in Decision
      BY DEF DeliveryTypeOK
    <2> QED
      BY <1>4, <2>1 DEF Settled, Decision
  <1>7. \A e \in Event : event'[e].row = "none" => ~Settled(e)'
    BY <1>4, <1>6 DEF AccountOK
  <1> QED
    BY <1>1, <1>2, <1>3, <1>5, <1>6, <1>7 DEF AccountOK, Awaited

\* A cycle begins with what is due and not settled.
LEMMA AccountStart ==
    ASSUME DeliveryTypeOK, NEW w \in Worker, AccountOK(w), StartCycle(w)
    PROVE  AccountOK(w)' /\ Kept
  <1>1. /\ stage[w] = "idle" /\ stage'[w] = "scan" /\ batch'[w] = Pending
        /\ UNCHANGED <<event, decided, pushes, aborted>>
    BY DEF StartCycle, DeliveryTypeOK
  <1>2. \A e \in Event : decided[w][e] = "open"
    BY <1>1 DEF AccountOK, Open
  <1>3. \A e \in Pending : ~Settled(e) /\ event[e].row # "none"
    BY DEF Pending, Settled
  <1> QED
    BY <1>1, <1>2, <1>3 DEF AccountOK, Kept, Settled, Awaited

\* Each event of the cycle is looked at once.
LEMMA AccountNext ==
    ASSUME DeliveryTypeOK, NEW w \in Worker, NEW e \in Event, AccountOK(w), NextEvent(w, e)
    PROVE  AccountOK(w)' /\ Kept
  <1>1. /\ stage[w] = "scan" /\ e \in batch[w] /\ batch'[w] = batch[w] \ {e}
        /\ UNCHANGED <<event, pushes, aborted>>
        /\ stage'[w] \in {"scan", "push"}
    BY DEF NextEvent, Skip, BeginPush, DeliveryTypeOK
  <1>2. Awaited(w, e) /\ ~Settled(e) /\ decided[w][e] = "open" /\ event[e].row # "none"
    BY <1>1 DEF AccountOK, Awaited
  <1>3. Kept
    BY <1>1 DEF Kept
  <1>4. \A x \in Event : Settled(x)' <=> Settled(x)
    BY <1>1 DEF Settled
  <1>5. \A x \in Event : x # e => decided'[w][x] = decided[w][x]
    BY DEF NextEvent, Skip, BeginPush, DeliveryTypeOK
  <1>6. CASE Skip(w, e)
    <2>1. stage'[w] = "scan"
      BY <1>1, <1>6 DEF Skip
    <2> QED
      BY <1>1, <1>2, <1>3, <1>4, <1>5, <2>1 DEF AccountOK, Awaited
  <1>7. CASE BeginPush(w, e)
    <2>1. stage'[w] = "push" /\ target'[w].event = e /\ decided' = decided
      BY <1>7 DEF BeginPush, DeliveryTypeOK
    <2> QED
      BY <1>1, <1>2, <1>3, <1>4, <2>1 DEF AccountOK, Awaited
  <1> QED
    BY <1>6, <1>7 DEF NextEvent

\* A push is of an undecided event, and decides it.
LEMMA AccountPush ==
    ASSUME IInv, NEW w \in Worker, NEW taken \in BOOLEAN, NEW ok \in BOOLEAN,
           AccountOK(w), Push(w, taken, ok)
    PROVE  AccountOK(w)' /\ Kept
  <1>1. SUFFICES ASSUME NEW e \in Event, e = target[w].event
                 PROVE  AccountOK(w)' /\ Kept
    BY DEF Push, IInv, SessionOK
  <1>2. /\ stage[w] = "push" /\ stage'[w] = "scan"
        /\ UNCHANGED <<event, batch, aborted>>
    BY DEF Push, IInv, DeliveryTypeOK
  <1>3. /\ \A x \in Event : x # e => decided'[w][x] = decided[w][x] /\ pushes'[x] = pushes[x]
        /\ decided'[w][e] = Outcome(ok)
    BY <1>1 DEF Push, IInv, DeliveryTypeOK
  <1>4. /\ aborted \in Nat /\ pushes[e] \in Nat
        /\ pushes'[e] = pushes[e] \/ pushes'[e] = pushes[e] + 1
    BY <1>1 DEF Push, IInv, DeliveryTypeOK
  <1>5. ~Settled(e) /\ decided[w][e] = "open" /\ event[e].row # "none" /\ e \notin batch[w]
    BY <1>1, <1>2 DEF AccountOK, Awaited
  <1>6. Outcome(ok) # "open"
    BY DEF Outcome
  <1>7. pushes'[e] <= aborted + 1
    BY <1>4, <1>5 DEF AccountOK
  <1>8. Kept
    BY <1>2, <1>3, <1>5 DEF Kept
  <1>9. \A x \in Event : Settled(x)' <=> Settled(x)
    BY <1>2 DEF Settled
  <1> QED
    BY <1>2, <1>3, <1>5, <1>6, <1>7, <1>8, <1>9 DEF AccountOK, Awaited

\* With one worker every user gets every notification at most once more than
\* cycles were rolled back, and a settled one is left alone for good.
THEOREM OneWorker ==
    ASSUME NEW w, Worker = {w}
    PROVE  DeliverySpec => PushesAreFew
  <1>1. DeliveryInit => AccountOK(w)
    BY DEF DeliveryInit, AccountOK, Settled, Awaited, Open, NoEvent, NoTarget
  <1>2. IInv /\ AccountOK(w) /\ [DeliveryNext]_deliveryVars => AccountOK(w)' /\ Kept
    <2> SUFFICES ASSUME IInv, AccountOK(w), [DeliveryNext]_deliveryVars
                 PROVE  AccountOK(w)' /\ Kept
      OBVIOUS
    <2>1. DeliveryTypeOK /\ w \in Worker
      BY DEF IInv
    <2>2. CASE \E e \in Event, u \in Account, when \in {"future", "due"} : Schedule(e, u, when)
      <3>1. PICK e \in Event, u \in Account, when \in {"future", "due"} : Schedule(e, u, when)
        BY <2>2
      <3>2. UNCHANGED <<session, pushes, aborted>>
        BY <3>1 DEF Schedule
      <3>3. \A x \in Event : x # e => event'[x] = event[x]
        BY <2>1, <3>1 DEF Schedule, DeliveryTypeOK
      <3>4. /\ event[e].row = "none" /\ ~event'[e].sent /\ event'[e].failed = "no"
            /\ event'[e].row = "there"
        BY <2>1, <3>1 DEF Schedule, DeliveryTypeOK
      <3>5. ~event[e].sent /\ event[e].failed = "no"
        BY <3>4 DEF AccountOK, Settled
      <3>6. event[e].sent \in BOOLEAN /\ event'[e].sent \in BOOLEAN
        BY <2>1, TypeStep DEF DeliveryTypeOK, EventRow
      <3> QED
        BY <2>1, <3>2, <3>3, <3>4, <3>5, <3>6, AccountFrame
    <2>3. CASE \E e \in Event : Delete(e)
      <3>1. PICK e \in Event : Delete(e)
        BY <2>3
      <3>2. UNCHANGED <<session, pushes, aborted>>
        BY <3>1 DEF Delete
      <3>3. \A x \in Event : event[x] \in EventRow
        BY <2>1 DEF DeliveryTypeOK
      <3>4. \A x \in Event : /\ event'[x].sent = event[x].sent
                             /\ event'[x].failed = event[x].failed
                             /\ event[x].row # "none" => event'[x].row # "none"
        BY <2>1, <3>1, <3>3 DEF Delete, DeliveryTypeOK, EventRow
      <3> QED
        BY <2>1, <3>2, <3>4, AccountFrame
    <2>4. CASE UNCHANGED <<event, session, pushes, aborted>>
      BY <2>1, <2>4, AccountFrame
    <2>5. CASE Cycle(w) \/ Crash(w)
      <3>1. CASE RowIsGone(w) \/ Crash(w) \/ \E v \in Worker \ {w} : Deadlock(w, v)
        BY <2>1, <3>1, AccountAbort DEF RowIsGone, Deadlock, Abort, Crash
      <3> QED
        BY <2>1, <2>5, <3>1, AccountStart, AccountNext, AccountPush, AccountCommit DEF Cycle
    <2> QED
      BY <2>2, <2>3, <2>4, <2>5
         DEF DeliveryNext, Users, register_push_token, unregister_push_token, Tick, deliveryVars
  <1>3. IInv /\ AccountOK(w) => DuplicatesAreAborts
    <2> SUFFICES ASSUME IInv, AccountOK(w), NEW e \in Event
                 PROVE  pushes[e] <= 1 + aborted
      BY DEF DuplicatesAreAborts
    <2>1. aborted \in Nat /\ pushes[e] \in Nat
      BY DEF IInv, DeliveryTypeOK
    <2>2. pushes[e] <= aborted + 1
      BY DEF AccountOK
    <2> QED
      BY <2>1, <2>2
  <1>4. Kept => SettledOnce
    BY DEF Kept, Settled, SettledOnce
  <1>5. DeliverySpec => [](IInv /\ AccountOK(w))
    BY <1>1, <1>2, Invariance, PTL DEF DeliverySpec
  <1> HIDE DEF Kept
  <1>6. DeliverySpec => [][DuplicatesAreAborts' /\ SettledOnce]_deliveryVars
    BY <1>2, <1>3, <1>4, <1>5, PTL DEF DeliverySpec
  <1> QED
    BY <1>6 DEF PushesAreFew

-----------------------------------------------------------------------------
(* The token of a push.                                                    *)

\* The registered tokens.
Held == {t \in Token : owner[t] # Nothing}

\* Those tokens are finitely many, and the times of their creation order them.
TokensInv ==
    /\ IsFiniteSet(Held)
    /\ \A p \in newer : p[1] \in Held /\ p[2] \in Held
    /\ \A t \in Token : <<t, t>> \notin newer
    /\ \A r, s, t \in Token : <<r, s>> \in newer /\ <<s, t>> \in newer => <<r, t>> \in newer
    /\ \A s, t \in Held : s # t => <<s, t>> \in newer \/ <<t, s>> \in newer

\* What a cycle looks at was scheduled, for a user.
UsersInv ==
    /\ \A e \in Event : event[e].row # "none" => event[e].user \in Account
    /\ \A w \in Worker : \A e \in batch[w] : event[e].row # "none"

\* Of the tokens of a user one is the newest: with the fewest newer ones there is none.
LEMMA NewestToken ==
    ASSUME DeliveryTypeOK, TokensInv, NEW u \in Account, \E t \in Token : owner[t] = u
    PROVE  /\ _get_latest_push_token(u) \in Token
           /\ owner[_get_latest_push_token(u)] = u
  <1> DEFINE mine == {t \in Token : owner[t] = u}
             above(t) == {s \in mine : <<s, t>> \in newer}
             sets == {above(t) : t \in mine}
             latest == {t \in mine : \A s \in mine \ {t} : <<t, s>> \in newer}
  <1>1. u # Nothing /\ mine \subseteq Held
    BY NothingAssumption DEF Held
  <1>2. \A t \in mine : above(t) \in FiniteSubsetsOf(Held)
    <2> SUFFICES ASSUME NEW t \in mine
                 PROVE  above(t) \subseteq Held /\ IsFiniteSet(above(t))
      BY DEF FiniteSubsetsOf
    <2>1. above(t) \in SUBSET Held
      BY <1>1
    <2>2. IsFiniteSet(Held)
      BY DEF TokensInv
    <2> HIDE DEF above
    <2> QED
      BY <2>1, <2>2, FS_Subset
  <1>3. sets \subseteq FiniteSubsetsOf(Held) /\ sets # {}
    BY <1>2
  <1>4. PICK least \in sets : \A x \in sets : ~(<<x, least>> \in StrictSubsetOrdering(Held))
    <2> HIDE DEF sets
    <2> QED
      BY <1>3, FS_StrictSubsetOrderingWellFounded, WFMin
  <1>5. PICK t \in mine : least = above(t)
    BY <1>4
  <1>6. above(t) = {}
    <2> SUFFICES ASSUME NEW s \in above(t)
                 PROVE  FALSE
      OBVIOUS
    <2>1. s \in mine /\ <<s, t>> \in newer
      OBVIOUS
    <2>2. above(s) \subseteq above(t) /\ s \notin above(s)
      BY <2>1 DEF TokensInv
    <2>3. above(s) # above(t)
      BY <2>2
    <2>4. above(s) \subseteq Held /\ above(t) \subseteq Held
      BY <1>1
    <2>5. <<above(s), above(t)>> \in StrictSubsetOrdering(Held)
      BY <2>2, <2>3, <2>4 DEF StrictSubsetOrdering
    <2> QED
      BY <1>4, <1>5, <2>1, <2>5
  <1>7. t \in latest
    <2> SUFFICES ASSUME NEW s \in mine, s # t
                 PROVE  <<t, s>> \in newer
      OBVIOUS
    <2>1. <<s, t>> \notin newer
      BY <1>6
    <2> QED
      BY <1>1, <2>1 DEF TokensInv
  <1>8. _get_latest_push_token(u) = CHOOSE x \in latest : TRUE
    BY <1>7 DEF _get_latest_push_token
  <1>9. (CHOOSE x \in latest : TRUE) \in latest
    BY <1>7
  <1> QED
    BY <1>8, <1>9

\* Registering puts a new token in front of all others, and a known one nowhere else.
LEMMA TokensStep ==
    ASSUME DeliveryTypeOK, TokensInv, [DeliveryNext]_deliveryVars
    PROVE  TokensInv'
  <1>1. CASE \E u \in Account, t \in Token : register_push_token(u, t)
    <2>1. PICK u \in Account, t \in Token : register_push_token(u, t)
      BY <1>1
    <2>2. /\ owner \in [Token -> Account \cup {Nothing}] /\ newer \subseteq Token \X Token
          /\ owner' = [owner EXCEPT ![t] = u] /\ u # Nothing
      BY <2>1, NothingAssumption DEF DeliveryTypeOK, register_push_token
    <2>3. Held' = Held \cup {t}
      BY <2>2 DEF Held
    <2>4. IsFiniteSet(Held')
      BY <2>3, FS_AddElement DEF TokensInv
    <2>5. CASE t \in Held
      <3>1. newer' = newer /\ Held' = Held
        BY <2>1, <2>3, <2>5 DEF register_push_token, Held
      <3> QED
        BY <2>4, <3>1 DEF TokensInv
    <2>6. CASE t \notin Held
      <3>1. newer' = newer \cup {<<t, s>> : s \in Held}
        BY <2>1, <2>6 DEF register_push_token, Held
      <3>2. \A r, s \in Token : <<r, s>> \in newer' <=> <<r, s>> \in newer \/ (r = t /\ s \in Held)
        BY <3>1
      <3>3. \A r, s \in Token : <<r, s>> \in newer => r \in Held /\ s \in Held
        BY DEF TokensInv
      <3>4. \A p \in newer' : p[1] \in Held' /\ p[2] \in Held'
        <4> SUFFICES ASSUME NEW p \in newer'
                     PROVE  p[1] \in Held' /\ p[2] \in Held'
          OBVIOUS
        <4>1. CASE p \in newer
          BY <2>3, <4>1 DEF TokensInv
        <4>2. CASE p \in {<<t, s>> : s \in Held}
          BY <2>3, <4>2
        <4> QED
          BY <3>1, <4>1, <4>2
      <3>5. \A r \in Token : <<r, r>> \notin newer'
        BY <2>6, <3>2 DEF TokensInv
      <3>6. ASSUME NEW q \in Token, NEW r \in Token, NEW s \in Token,
                   <<q, r>> \in newer', <<r, s>> \in newer'
            PROVE  <<q, s>> \in newer'
        BY <2>6, <3>2, <3>3, <3>6 DEF TokensInv
      <3>7. ASSUME NEW r \in Held', NEW s \in Held', r # s
            PROVE  <<r, s>> \in newer' \/ <<s, r>> \in newer'
        <4>1. r \in Held \cup {t} /\ s \in Held \cup {t} /\ r \in Token /\ s \in Token
          BY <2>3, <3>7 DEF Held
        <4> QED
          BY <3>2, <3>7, <4>1 DEF TokensInv
      <3> QED
        BY <2>4, <3>4, <3>5, <3>6, <3>7 DEF TokensInv
    <2> QED
      BY <2>5, <2>6
  <1>2. CASE \E u \in Account, t \in Token : unregister_push_token(u, t)
    <2>1. PICK u \in Account, t \in Token : unregister_push_token(u, t)
      BY <1>2
    <2>2. /\ owner \in [Token -> Account \cup {Nothing}]
          /\ owner' = [owner EXCEPT ![t] = Nothing]
          /\ newer' = {p \in newer : p[1] # t /\ p[2] # t}
      BY <2>1 DEF DeliveryTypeOK, unregister_push_token
    <2>3. Held' = Held \ {t}
      BY <2>2 DEF Held
    <2>4. IsFiniteSet(Held')
      BY <2>3, FS_RemoveElement DEF TokensInv
    <2>5. \A r, s \in Token : <<r, s>> \in newer' <=> <<r, s>> \in newer /\ r # t /\ s # t
      BY <2>2
    <2>6. \A p \in newer' : p[1] \in Held' /\ p[2] \in Held'
      BY <2>2, <2>3 DEF TokensInv
    <2>7. \A r \in Token : <<r, r>> \notin newer'
      BY <2>5 DEF TokensInv
    <2>8. \A q, r, s \in Token : <<q, r>> \in newer' /\ <<r, s>> \in newer' => <<q, s>> \in newer'
      BY <2>5 DEF TokensInv
    <2>9. \A r, s \in Held' : r # s => <<r, s>> \in newer' \/ <<s, r>> \in newer'
      BY <2>3, <2>5 DEF TokensInv, Held
    <2> QED
      BY <2>4, <2>6, <2>7, <2>8, <2>9 DEF TokensInv
  <1>3. CASE UNCHANGED tokens
    BY <1>3 DEF tokens, TokensInv, Held
  <1> QED
    BY <1>1, <1>2, <1>3
       DEF DeliveryNext, Users, Schedule, Delete, Tick, Cycle, StartCycle, NextEvent, Push, Commit,
           RowIsGone, Deadlock, Abort, Crash, deliveryVars

\* A notification keeps the user it was scheduled for.
LEMMA UsersStep ==
    ASSUME DeliveryTypeOK, UsersInv, [DeliveryNext]_deliveryVars
    PROVE  UsersInv'
  <1>1. DeliveryTypeOK'
    BY TypeStep
  <1>2. \A e \in Event : /\ event[e].row # "none" => event'[e].row # "none"
                         /\ event[e].row # "none" => event'[e].user = event[e].user
                         /\ event'[e].row # "none" => event'[e].user \in Account
    <2>1. \A e \in Event : event[e] \in EventRow
      BY DEF DeliveryTypeOK
    <2>2. CASE \E e \in Event, u \in Account, when \in {"future", "due"} : Schedule(e, u, when)
      <3>1. PICK e \in Event, u \in Account, when \in {"future", "due"} : Schedule(e, u, when)
        BY <2>2
      <3>2. event[e].row = "none" /\ event'[e].row = "there" /\ event'[e].user = u
            /\ \A x \in Event \ {e} : event'[x] = event[x]
        BY <3>1 DEF Schedule, DeliveryTypeOK
      <3> QED
        BY <3>2 DEF UsersInv
    <2>3. CASE \E e \in Event : Delete(e)
      <3>1. PICK e \in Event : Delete(e)
        BY <2>3
      <3>2. /\ event[e].row = "there" /\ event'[e].row = "deleted" /\ event'[e].user = event[e].user
            /\ \A x \in Event \ {e} : event'[x] = event[x]
        BY <2>1, <3>1 DEF Delete, DeliveryTypeOK, EventRow
      <3> QED
        BY <3>2 DEF UsersInv
    <2>4. CASE \E w \in Worker : Commit(w)
      <3>1. PICK w \in Worker : Commit(w)
        BY <2>4
      <3>2. ASSUME NEW x \in Event
            PROVE  event'[x].row = event[x].row /\ event'[x].user = event[x].user
        <4>1. event'[x] = [event[x] EXCEPT
                 !.sent = @ \/ decided[w][x] = "sent",
                 !.failed = IF decided[w][x] \in {"open", "sent"} THEN @ ELSE decided[w][x]]
          BY <3>1 DEF Commit
        <4> QED
          BY <2>1, <4>1 DEF EventRow
      <3> QED
        BY <3>2 DEF UsersInv
    <2>5. CASE UNCHANGED event
      BY <2>5 DEF UsersInv
    <2> QED
      BY <2>2, <2>3, <2>4, <2>5
         DEF DeliveryNext, Users, register_push_token, unregister_push_token, Tick, Cycle, StartCycle,
             NextEvent, Push, RowIsGone, Deadlock, Abort, Crash, deliveryVars
  <1>3. \A w \in Worker : \A e \in batch'[w] : e \in Event /\ event[e].row # "none"
    <2> SUFFICES ASSUME NEW w \in Worker, NEW e \in batch'[w]
                 PROVE  event[e].row # "none"
      BY <1>1 DEF DeliveryTypeOK
    <2>1. e \in Event
      BY <1>1 DEF DeliveryTypeOK
    <2>2. e \in batch[w] => event[e].row # "none"
      BY DEF UsersInv
    <2>3. CASE \E v \in Worker : StartCycle(v)
      <3>1. e \in batch[w] \/ e \in Pending
        BY <2>3 DEF StartCycle, DeliveryTypeOK
      <3> QED
        BY <2>2, <3>1 DEF Pending
    <2>4. CASE \E v \in Worker, x \in Event : NextEvent(v, x)
      BY <2>2, <2>4 DEF NextEvent, DeliveryTypeOK
    <2>5. CASE \E v \in Worker : EndCycle(v)
      BY <2>2, <2>5 DEF EndCycle, DeliveryTypeOK
    <2>6. CASE UNCHANGED batch
      BY <2>2, <2>6
    <2> QED
      BY <2>3, <2>4, <2>5, <2>6
         DEF DeliveryNext, Users, register_push_token, unregister_push_token, Schedule, Delete, Tick,
             Cycle, Push, Commit, RowIsGone, Deadlock, Abort, Crash, deliveryVars, session
  <1> QED
    BY <1>2, <1>3 DEF UsersInv

\* A push for a user who has a token at that moment goes to a token that is his then,
\* whatever was registered, handed over or cached before.
THEOREM TokensAreFresh == DeliverySpec => FreshTokenUsed
  <1>1. DeliveryInit => TokensInv /\ UsersInv
    <2> SUFFICES ASSUME DeliveryInit
                 PROVE  TokensInv /\ UsersInv
      OBVIOUS
    <2>1. Held = {} /\ newer = {}
      BY DEF DeliveryInit, Held
    <2>2. TokensInv
      BY <2>1, FS_EmptySet DEF TokensInv
    <2>3. UsersInv
      BY DEF DeliveryInit, UsersInv, NoEvent
    <2> QED
      BY <2>2, <2>3
  <1>2. DeliveryTypeOK /\ TokensInv /\ UsersInv /\ [DeliveryNext]_deliveryVars => TokensInv' /\ UsersInv'
    BY TokensStep, UsersStep
  <1> DEFINE Pushed(w) ==
        LET e == target'[w].event
        IN target[w] = NoTarget /\ e # Nothing /\ (\E t \in Token : owner[t] = event[e].user)
             => owner[target'[w].token] = event[e].user
  <1>3. DeliveryTypeOK /\ TokensInv /\ UsersInv /\ [DeliveryNext]_deliveryVars => \A w \in Worker : Pushed(w)
    <2> SUFFICES ASSUME DeliveryTypeOK, TokensInv, UsersInv, [DeliveryNext]_deliveryVars, NEW w \in Worker,
                        target[w] = NoTarget, target'[w].event # Nothing,
                        \E t \in Token : owner[t] = event[target'[w].event].user
                 PROVE  owner[target'[w].token] = event[target'[w].event].user
      OBVIOUS
    <2>1. target'[w] # target[w] /\ target'[w] # NoTarget
      BY DEF NoTarget
    <2>2. \E v \in Worker, e \in Event : NextEvent(v, e) /\ BeginPush(v, e)
      BY <2>1 DEF DeliveryNext, Users, register_push_token, unregister_push_token, Schedule, Delete,
                  Tick, Cycle, StartCycle, NextEvent, Skip, Push, Commit, RowIsGone, Deadlock,
                  Abort, EndCycle, Crash, deliveryVars, session, DeliveryTypeOK
    <2>3. PICK v \in Worker, e \in Event : NextEvent(v, e) /\ BeginPush(v, e)
      BY <2>2
    <2>4. target'[w] = [event |-> e, token |-> Resolve(e)] /\ e \in batch[v]
      BY <2>1, <2>3 DEF BeginPush, NextEvent, DeliveryTypeOK
    <2>5. event[e].user \in Account /\ \E t \in Token : owner[t] = event[e].user
      BY <2>4 DEF UsersInv
    <2>6. /\ _get_latest_push_token(event[e].user) \in Token
          /\ owner[_get_latest_push_token(event[e].user)] = event[e].user
      BY <2>5, NewestToken
    <2>7. Resolve(e) = _get_latest_push_token(event[e].user)
      BY <2>6, NothingAssumption DEF Resolve
    <2> QED
      BY <2>4, <2>6, <2>7
  <1> HIDE DEF Pushed
  <1>4. DeliverySpec => [][\A w \in Worker : Pushed(w)]_deliveryVars
    BY <1>1, <1>2, <1>3, TypeCorrectness, PTL DEF DeliverySpec
  <1> QED
    BY <1>4 DEF FreshTokenUsed, Pushed
=============================================================================

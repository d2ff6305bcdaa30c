---------------------------- MODULE EventsProofs ----------------------------
(***************************************************************************)
(* Proofs about Events, for every finite set of users and every set of     *)
(* events and concurrent requests.                                         *)
(***************************************************************************)
EXTENDS Events, FiniteSetTheorems, TLAPS

Locking == {"join", "leave", "cancel", "complete"}

\* An event that exists has its host on the roster.
EventOK(e) ==
    \/ event[e].status = "none" /\ row[e] = [u \in User |-> NoParticipant]
    \/ event[e].status # "none" /\ event[e].host \in Joined(e)

\* What a request has read.  Under the lock it is still true at the commit;
\* without it only that the event exists and has begun.
RequestOK(r) ==
    LET e == req[r].event
    IN /\ pc[r] # "idle" => e \in Event /\ event[e].status # "none"
       /\ pc[r] \in Locking =>
              /\ lock[e] = r
              /\ req[r].user \in User
              /\ event[e].status \in {"open", "full"}
       /\ pc[r] = "join" =>
              /\ req[r].user \notin Joined(e)
              /\ req[r].count = _joined_count(e)
              /\ event[e].status = "open"
       /\ pc[r] = "leave" => req[r].user \in Joined(e) /\ req[r].user # event[e].host
       /\ pc[r] = "complete" => e \in started
       /\ pc[r] \in {"mark", "report"} => req[r].target \in User /\ e \in started
       /\ pc[r] = "report" =>
              req[r].write \in EVENT_ATTENDANCE_SELF_STATUSES \cup {"unchanged"}

IInv ==
    /\ TypeOK
    /\ \A e \in Event : EventOK(e)
    /\ \A r \in Request : RequestOK(r)
    /\ FullTellsCapacity
    /\ MarksAfterStart
    /\ NoShowIsHosts

-----------------------------------------------------------------------------
(* Counting.                                                               *)

\* A roster is finite, and its size a natural number.
LEMMA RosterFinite ==
    ASSUME NEW e
    PROVE  IsFiniteSet(Joined(e)) /\ _joined_count(e) \in Nat
  <1>1. Joined(e) \in SUBSET User
    BY DEF Joined
  <1> QED
    BY <1>1, UserAssumption, FS_Subset, FS_CardinalityType DEF _joined_count

\* One more and one less.
LEMMA RosterCounts ==
    ASSUME NEW e, NEW u
    PROVE  /\ u \notin Joined(e) => Cardinality(Joined(e) \cup {u}) = _joined_count(e) + 1
           /\ u \in Joined(e) => Cardinality(Joined(e) \ {u}) = _joined_count(e) - 1
  BY RosterFinite, FS_AddElement, FS_RemoveElement DEF _joined_count

\* Who is on a roster depends on its rows alone.
LEMMA JoinedDependsOnRow ==
    ASSUME NEW e, \A u \in User : (row'[e][u].status = "joined") <=> (row[e][u].status = "joined")
    PROVE  Joined(e)' = Joined(e) /\ _joined_count(e)' = _joined_count(e)
  BY DEF Joined, _joined_count

-----------------------------------------------------------------------------
(* The lock at work: a commit on one event disturbs no other request.      *)

\* The commit of the request that holds an event's lock leaves the others with what
\* they rely on: none of them has locked it.
LEMMA CommitKeepsRequests ==
    ASSUME IInv, NEW r \in Request, NEW e \in Event, lock[e] = r,
           End(r), Release(r), started' = started,
           event'[e].status # "none",
           \A x \in Event \ {e} : event'[x] = event[x] /\ row'[x] = row[x]
    PROVE  \A q \in Request : RequestOK(q)'
  <1> SUFFICES ASSUME NEW q \in Request PROVE RequestOK(q)'
    OBVIOUS
  <1>1. CASE q = r
    BY <1>1 DEF End, RequestOK, Locking, IInv, TypeOK
  <1>2. CASE q # r /\ pc[q] = "idle"
    BY <1>2 DEF End, RequestOK, Locking, IInv, TypeOK
  <1>3. CASE q # r /\ pc[q] # "idle"
    <2> SUFFICES ASSUME NEW x, x = req[q].event PROVE RequestOK(q)'
      OBVIOUS
    <2>1. pc'[q] = pc[q] /\ req'[q] = req[q]
      BY <1>3 DEF End, IInv, TypeOK
    <2>2. RequestOK(q) /\ x \in Event /\ event[x].status # "none"
      BY <1>3 DEF RequestOK, IInv
    <2>3. event'[x].status # "none"
      BY <2>2
    <2>4. CASE pc[q] \in Locking
      <3>1. x # e /\ lock[x] = q
        BY <1>3, <2>2, <2>4 DEF RequestOK
      <3>2. lock'[x] = q
        BY <3>1, <1>3, <2>2 DEF Release
      <3>3. event'[x] = event[x] /\ row'[x] = row[x]
        BY <3>1, <2>2
      <3>4. Joined(x)' = Joined(x) /\ _joined_count(x)' = _joined_count(x)
        BY <3>3, JoinedDependsOnRow
      <3> QED
        BY <2>1, <2>2, <2>3, <2>4, <3>1, <3>2, <3>3, <3>4 DEF RequestOK, Locking
    <2>5. CASE pc[q] \notin Locking
      BY <2>1, <2>2, <2>3, <2>5 DEF RequestOK, Locking
    <2> QED
      BY <2>4, <2>5
  <1> QED
    BY <1>1, <1>2, <1>3

\* A request that begins without the lock, or with it, leaves the tables alone.
LEMMA TablesKept ==
    ASSUME IInv, UNCHANGED tables
    PROVE  /\ \A e \in Event : EventOK(e)'
           /\ FullTellsCapacity' /\ MarksAfterStart' /\ NoShowIsHosts'
           /\ \A e \in Event : Joined(e)' = Joined(e) /\ _joined_count(e)' = _joined_count(e)
  <1>1. \A e \in Event : Joined(e)' = Joined(e) /\ _joined_count(e)' = _joined_count(e)
    BY JoinedDependsOnRow DEF tables
  <1> QED
    BY <1>1 DEF IInv, EventOK, FullTellsCapacity, MarksAfterStart, NoShowIsHosts, tables

\* A request gets a lock that was free, so no other request relies on it.
LEMMA BeginLockedStep ==
    ASSUME IInv, NEW r \in Request, NEW u \in User, NEW e \in Event,
           NEW label \in Locking, BeginLocked(r, label, u, e),
           event[e].status \in {"open", "full"},
           label = "join" => u \notin Joined(e) /\ event[e].status = "open",
           label = "leave" => u \in Joined(e) /\ u # event[e].host,
           label = "complete" => e \in started
    PROVE  IInv'
  <1>1. UNCHANGED tables /\ lock[e] = Nobody /\ pc[r] = "idle"
    BY DEF BeginLocked, LockFree, Begin
  <1>2. lock' = [lock EXCEPT ![e] = r] /\ pc' = [pc EXCEPT ![r] = label]
    BY DEF BeginLocked, Begin
  <1>3. req' = [req EXCEPT ![r] = [NoArguments EXCEPT
                    !.user = u, !.event = e, !.count = _joined_count(e)]]
    BY DEF BeginLocked, Begin
  <1>4. TypeOK'
    <2>1. _joined_count(e) \in Nat
      BY RosterFinite
    <2>2. [NoArguments EXCEPT !.user = u, !.event = e, !.count = _joined_count(e)] \in Arguments
      BY <2>1 DEF NoArguments, Arguments, EVENT_ATTENDANCE_STATUSES
    <2>3. req' \in [Request -> Arguments]
      BY <1>3, <2>2 DEF IInv, TypeOK
    <2> QED
      BY <1>1, <1>2, <2>3 DEF IInv, TypeOK, tables, Locking
  <1>5. \A q \in Request : RequestOK(q)'
    <2> TAKE q \in Request
    <2>1. CASE q = r
      <3>1. pc'[q] = label /\ lock'[e] = q /\ event' = event /\ started' = started
        BY <1>1, <1>2, <2>1 DEF IInv, TypeOK, tables
      <3>2. /\ req'[q].event = e /\ req'[q].user = u
            /\ req'[q].count = _joined_count(e)
        BY <1>3, <2>1 DEF IInv, TypeOK, NoArguments
      <3>3. Joined(e)' = Joined(e) /\ _joined_count(e)' = _joined_count(e)
        BY <1>1, TablesKept
      <3> QED
        BY <3>1, <3>2, <3>3 DEF RequestOK, Locking
    <2>2. CASE q # r
      <3>1. pc'[q] = pc[q] /\ req'[q] = req[q] /\ event' = event /\ started' = started
        BY <1>1, <1>2, <1>3, <2>2 DEF IInv, TypeOK, tables
      <3>2. RequestOK(q)
        BY DEF IInv
      <3>3. pc[q] \in Locking => req[q].event # e /\ lock'[req[q].event] = q
        BY <1>1, <1>2, <3>2, NobodyAssumption DEF RequestOK, IInv, TypeOK, Locking
      <3> SUFFICES ASSUME NEW x, x = req[q].event PROVE RequestOK(q)'
        OBVIOUS
      <3>4. pc[q] # "idle" => Joined(x)' = Joined(x) /\ _joined_count(x)' = _joined_count(x)
        BY <1>1, <3>2, TablesKept DEF RequestOK
      <3> QED
        BY <3>1, <3>2, <3>3, <3>4 DEF RequestOK, Locking
    <2> QED
      BY <2>1, <2>2
  <1> QED
    BY <1>1, <1>4, <1>5, TablesKept DEF IInv

\* A request that has just locked an event has read what it relies on.
LEMMA BeginSteps ==
    ASSUME IInv, NEW r \in Request, NEW u \in User, NEW e \in Event,
           BeginJoin(r, u, e) \/ BeginLeave(r, u, e) \/ BeginCancel(r, u, e)
               \/ BeginComplete(r, u, e)
    PROVE  IInv'
  <1>1. event[e].status \in EVENT_STATUSES \cup {"none"}
    BY DEF IInv, TypeOK, EventRow
  <1>2. CASE BeginJoin(r, u, e)
    BY <1>1, <1>2, BeginLockedStep DEF BeginJoin, Locking, EVENT_STATUSES
  <1>3. CASE BeginLeave(r, u, e)
    BY <1>3, BeginLockedStep DEF BeginLeave, Locking, _LEAVABLE_STATUSES
  <1>4. CASE BeginCancel(r, u, e)
    BY <1>1, <1>4, BeginLockedStep DEF BeginCancel, Locking, EVENT_STATUSES
  <1>5. CASE BeginComplete(r, u, e)
    BY <1>1, <1>5, BeginLockedStep DEF BeginComplete, Locking, EVENT_STATUSES
  <1> QED
    BY <1>2, <1>3, <1>4, <1>5

\* An attendance request checks, and locks nothing.
LEMMA BeginAttendanceStep ==
    ASSUME IInv, NEW r \in Request, NEW u \in User, NEW e \in Event, NEW v \in User,
           NEW label \in {"mark", "report"}, NEW mark \in EVENT_ATTENDANCE_STATUSES,
           BeginAttendance(r, label, u, e, v, mark),
           label = "report" => mark \in EVENT_ATTENDANCE_SELF_STATUSES
    PROVE  IInv'
  <1>1. UNCHANGED <<tables, lock>> /\ pc[r] = "idle" /\ pc' = [pc EXCEPT ![r] = label]
    BY DEF BeginAttendance, Begin
  <1>2. req' = [req EXCEPT ![r] = [user |-> u, event |-> e, count |-> 0, target |-> v,
                    write |-> IF mark = row[e][v].attendance THEN "unchanged" ELSE mark]]
    BY DEF BeginAttendance, Begin
  <1>3. event[e].status # "none" /\ e \in started
    BY DEF BeginAttendance, AttendanceOpen, _ATTENDANCE_MUTABLE_EVENT_STATUSES,
           MarksAfterStart, IInv
  <1>4. TypeOK'
    <2>1. row[e][v].attendance \in EVENT_ATTENDANCE_STATUSES
      BY DEF IInv, TypeOK, ParticipantRow
    <2>2. req' \in [Request -> Arguments]
      BY <1>2, <2>1 DEF IInv, TypeOK, Arguments
    <2> QED
      BY <1>1, <2>2 DEF IInv, TypeOK, tables
  <1>5. \A q \in Request : RequestOK(q)'
    <2> TAKE q \in Request
    <2>1. CASE q = r
      <3>1. pc'[q] = label /\ event' = event /\ started' = started
        BY <1>1, <2>1 DEF IInv, TypeOK, tables
      <3>2. req'[q].event = e /\ req'[q].target = v /\ req'[q].write \in {mark, "unchanged"}
        BY <1>2, <2>1 DEF IInv, TypeOK
      <3> QED
        BY <3>1, <3>2, <1>3 DEF RequestOK, Locking
    <2>2. CASE q # r
      <3>1. pc'[q] = pc[q] /\ req'[q] = req[q] /\ event' = event /\ started' = started
            /\ lock' = lock
        BY <1>1, <1>2, <2>2 DEF IInv, TypeOK, tables
      <3>2. RequestOK(q)
        BY DEF IInv
      <3> SUFFICES ASSUME NEW x, x = req[q].event PROVE RequestOK(q)'
        OBVIOUS
      <3>3. pc[q] # "idle" => Joined(x)' = Joined(x) /\ _joined_count(x)' = _joined_count(x)
        BY <1>1, <3>2, TablesKept DEF RequestOK
      <3> QED
        BY <3>1, <3>2, <3>3 DEF RequestOK, Locking
    <2> QED
      BY <2>1, <2>2
  <1> QED
    BY <1>1, <1>4, <1>5, TablesKept DEF IInv

-----------------------------------------------------------------------------
(* What the lock holders commit.                                           *)

\* The request that holds a lock: what it may rely on.
LEMMA HolderFacts ==
    ASSUME IInv, NEW r \in Request, pc[r] \in Locking, NEW e, e = req[r].event
    PROVE  /\ e \in Event /\ lock[e] = r /\ req[r].user \in User
           /\ event[e] \in EventRow /\ event[e].status \in {"open", "full"}
           /\ event[e].host \in Joined(e) /\ event[e].capacity \in Nat
           /\ _joined_count(e) \in Nat
  <1>1. RequestOK(r)
    BY DEF IInv
  <1>2. e \in Event /\ lock[e] = r /\ req[r].user \in User /\ event[e].status \in {"open", "full"}
    BY <1>1 DEF RequestOK, Locking
  <1>3. event[e] \in EventRow /\ EventOK(e)
    BY <1>2 DEF IInv, TypeOK
  <1> QED
    BY <1>2, <1>3, RosterFinite DEF EventOK, EventRow

\* End and Release keep the types of what they write.
LEMMA EndTypes ==
    ASSUME IInv, NEW r \in Request, End(r)
    PROVE  /\ pc' \in [Request ->
                  {"idle", "join", "leave", "cancel", "complete", "mark", "report"}]
           /\ req' \in [Request -> Arguments]
           /\ Release(r) => lock' \in [Event -> Request \cup {Nobody}]
  <1>1. NoArguments \in Arguments
    BY DEF NoArguments, Arguments, EVENT_ATTENDANCE_STATUSES
  <1> QED
    BY <1>1 DEF IInv, TypeOK, End, Release

\* Joining and leaving write one status, and no attendance.
LEMMA StatusWritten ==
    ASSUME TypeOK, NEW e \in Event, NEW u \in User, NEW s \in {"joined", "left"},
           row' = [row EXCEPT ![e][u].status = s]
    PROVE  /\ row' \in [Event -> [User -> ParticipantRow]]
           /\ \A x \in Event, w \in User :
                 /\ row'[x][w].attendance = row[x][w].attendance
                 /\ row'[x][w].confirmed = row[x][w].confirmed
  <1>1. \A x \in Event, w \in User : row[x][w] \in ParticipantRow
    BY DEF TypeOK
  <1>2. DOMAIN row' = Event /\ \A x \in Event : row'[x] =
            IF x = e THEN [row[e] EXCEPT ![u].status = s] ELSE row[x]
    BY DEF TypeOK
  <1>3. \A x \in Event, w \in User : row'[x][w] =
            IF x = e /\ w = u THEN [row[e][u] EXCEPT !.status = s] ELSE row[x][w]
    BY <1>2 DEF TypeOK
  <1>4. [row[e][u] EXCEPT !.status = s] \in ParticipantRow
    BY <1>1 DEF ParticipantRow
  <1>5. \A x \in Event, w \in User : row'[x][w] \in ParticipantRow
    BY <1>1, <1>3, <1>4
  <1>6. row' \in [Event -> [User -> ParticipantRow]]
    BY <1>2, <1>5 DEF TypeOK
  <1>7. /\ [row[e][u] EXCEPT !.status = s].attendance = row[e][u].attendance
        /\ [row[e][u] EXCEPT !.status = s].confirmed = row[e][u].confirmed
    BY <1>1 DEF ParticipantRow
  <1> QED
    BY <1>3, <1>6, <1>7

\* A commit that writes no attendance, and completes nothing, moves no outcome.
LEMMA OutcomesKept ==
    ASSUME IInv, started' = started,
           \A x \in Event : event'[x].status = "completed" => event[x].status = "completed",
           \A x \in Event, w \in User :
               /\ row'[x][w].attendance = row[x][w].attendance
               /\ row'[x][w].confirmed = row[x][w].confirmed
    PROVE  MarksAfterStart' /\ NoShowIsHosts'
  <1>1. MarksAfterStart'
    <2> SUFFICES ASSUME NEW x \in Event, x \notin started
                 PROVE  /\ event'[x].status # "completed"
                        /\ \A w \in User : row'[x][w].attendance = "pending"
                                           /\ ~row'[x][w].confirmed
      BY DEF MarksAfterStart
    <2> QED
      BY DEF IInv, MarksAfterStart
  <1>2. NoShowIsHosts'
    BY DEF IInv, NoShowIsHosts
  <1> QED
    BY <1>1, <1>2

\* join_event takes a free place, and says so when it was the last.
LEMMA JoinStep ==
    ASSUME IInv, NEW r \in Request, CommitJoin(r)
    PROVE  IInv'
  <1> SUFFICES ASSUME NEW e, e = req[r].event, NEW u, u = req[r].user PROVE IInv'
    OBVIOUS
  <1>1. pc[r] \in Locking /\ RequestOK(r) /\ pc[r] = "join"
    BY DEF CommitJoin, Locking, IInv
  <1>2. /\ e \in Event /\ lock[e] = r /\ u \in User /\ event[e] \in EventRow
        /\ event[e].host \in Joined(e) /\ event[e].capacity \in Nat
        /\ _joined_count(e) \in Nat
    BY <1>1, HolderFacts
  <1>3. u \notin Joined(e) /\ req[r].count = _joined_count(e) /\ event[e].status = "open"
    BY <1>1 DEF RequestOK
  <1>4. row' = [row EXCEPT ![e][u].status = "joined"] /\ started' = started
    BY DEF CommitJoin
  <1>5. event' = [event EXCEPT ![e].status =
            IF _joined_count(e) + 1 >= event[e].capacity THEN "full" ELSE event[e].status]
    BY <1>3 DEF CommitJoin
  <1>6. End(r) /\ Release(r)
    BY DEF CommitJoin
  <1>7. Joined(e)' = Joined(e) \cup {u} /\ _joined_count(e)' = _joined_count(e) + 1
    <2>1. Joined(e)' = Joined(e) \cup {u}
      BY <1>2, <1>4 DEF Joined, IInv, TypeOK, ParticipantRow
    <2> QED
      BY <2>1, <1>3, RosterCounts DEF _joined_count
  <1>8. \A x \in Event \ {e} : event'[x] = event[x] /\ row'[x] = row[x]
    BY <1>2, <1>4, <1>5 DEF IInv, TypeOK
  <1>9. \A x \in Event \ {e} : Joined(x)' = Joined(x) /\ _joined_count(x)' = _joined_count(x)
    BY <1>8, JoinedDependsOnRow
  <1>10. /\ event'[e].capacity = event[e].capacity /\ event'[e].host = event[e].host
         /\ _joined_count(e) + 1 >= event[e].capacity => event'[e].status = "full"
         /\ ~(_joined_count(e) + 1 >= event[e].capacity) => event'[e].status = "open"
         /\ event'[e] \in EventRow
    BY <1>2, <1>3, <1>5 DEF IInv, TypeOK, EventRow, EVENT_STATUSES
  <1>11. \A x \in Event, w \in User :
            /\ row'[x][w].attendance = row[x][w].attendance
            /\ row'[x][w].confirmed = row[x][w].confirmed
    BY <1>2, <1>4, StatusWritten DEF IInv
  <1>12. TypeOK'
    <2>1. event' \in [Event -> EventRow]
      BY <1>5, <1>10 DEF IInv, TypeOK
    <2>2. row' \in [Event -> [User -> ParticipantRow]]
      BY <1>2, <1>4, StatusWritten DEF IInv
    <2> QED
      BY <2>1, <2>2, <1>4, <1>6, EndTypes DEF IInv, TypeOK
  <1>13. \A x \in Event : EventOK(x)'
    <2>1. EventOK(e)'
      BY <1>2, <1>7, <1>10 DEF EventOK
    <2>2. \A x \in Event \ {e} : EventOK(x)'
      BY <1>8, <1>9 DEF EventOK, IInv
    <2> QED
      BY <2>1, <2>2
  <1>14. \A q \in Request : RequestOK(q)'
    BY <1>2, <1>4, <1>6, <1>8, <1>10, CommitKeepsRequests
  <1>15. FullTellsCapacity'
    <2>1. _joined_count(e) < event[e].capacity
      BY <1>2, <1>3 DEF IInv, FullTellsCapacity
    <2> QED
      BY <2>1, <1>2, <1>7, <1>8, <1>9, <1>10 DEF IInv, FullTellsCapacity
  <1>16. MarksAfterStart' /\ NoShowIsHosts'
    <2>1. event'[e].status # "completed"
      BY <1>10
    <2>2. \A x \in Event : event'[x].status = "completed" => event[x].status = "completed"
      BY <2>1, <1>8
    <2> QED
      BY <2>2, <1>4, <1>11, OutcomesKept
  <1> QED
    BY <1>12, <1>13, <1>14, <1>15, <1>16 DEF IInv

\* leave_event gives a place back and reopens a full event.
LEMMA LeaveStep ==
    ASSUME IInv, NEW r \in Request, CommitLeave(r)
    PROVE  IInv'
  <1> SUFFICES ASSUME NEW e, e = req[r].event, NEW u, u = req[r].user PROVE IInv'
    OBVIOUS
  <1>1. pc[r] \in Locking /\ RequestOK(r) /\ pc[r] = "leave"
    BY DEF CommitLeave, Locking, IInv
  <1>2. /\ e \in Event /\ lock[e] = r /\ u \in User /\ event[e] \in EventRow
        /\ event[e].status \in {"open", "full"}
        /\ event[e].host \in Joined(e) /\ event[e].capacity \in Nat
        /\ _joined_count(e) \in Nat
    BY <1>1, HolderFacts
  <1>3. u \in Joined(e) /\ u # event[e].host
    BY <1>1 DEF RequestOK
  <1>4. Cardinality(Joined(e) \ {u}) = _joined_count(e) - 1
    BY <1>3, RosterCounts
  <1>5. row' = [row EXCEPT ![e][u].status = "left"] /\ started' = started
    BY DEF CommitLeave
  <1>6. event' = [event EXCEPT ![e].status =
            IF event[e].status = "full" /\ _joined_count(e) - 1 < event[e].capacity
            THEN "open" ELSE event[e].status]
    BY <1>4 DEF CommitLeave
  <1>7. End(r) /\ Release(r)
    BY DEF CommitLeave
  <1>8. Joined(e)' = Joined(e) \ {u} /\ _joined_count(e)' = _joined_count(e) - 1
    <2>1. Joined(e)' = Joined(e) \ {u}
      BY <1>2, <1>5 DEF Joined, IInv, TypeOK, ParticipantRow
    <2> QED
      BY <2>1, <1>4 DEF _joined_count
  <1>9. \A x \in Event \ {e} : event'[x] = event[x] /\ row'[x] = row[x]
    BY <1>2, <1>5, <1>6 DEF IInv, TypeOK
  <1>10. \A x \in Event \ {e} : Joined(x)' = Joined(x) /\ _joined_count(x)' = _joined_count(x)
    BY <1>9, JoinedDependsOnRow
  <1>11. /\ _joined_count(e) <= event[e].capacity
         /\ event[e].status = "open" => _joined_count(e) < event[e].capacity
    BY <1>2 DEF IInv, FullTellsCapacity
  <1>12. /\ event'[e].capacity = event[e].capacity /\ event'[e].host = event[e].host
         /\ event'[e].status = "open" /\ event'[e] \in EventRow
    BY <1>2, <1>6, <1>11 DEF IInv, TypeOK, EventRow, EVENT_STATUSES
  <1>13. \A x \in Event, w \in User :
            /\ row'[x][w].attendance = row[x][w].attendance
            /\ row'[x][w].confirmed = row[x][w].confirmed
    BY <1>2, <1>5, StatusWritten DEF IInv
  <1>14. TypeOK'
    <2>1. event' \in [Event -> EventRow]
      BY <1>6, <1>12 DEF IInv, TypeOK
    <2>2. row' \in [Event -> [User -> ParticipantRow]]
      BY <1>2, <1>5, StatusWritten DEF IInv
    <2> QED
      BY <2>1, <2>2, <1>5, <1>7, EndTypes DEF IInv, TypeOK
  <1>15. \A x \in Event : EventOK(x)'
    <2>1. EventOK(e)'
      BY <1>2, <1>3, <1>8, <1>12 DEF EventOK
    <2>2. \A x \in Event \ {e} : EventOK(x)'
      BY <1>9, <1>10 DEF EventOK, IInv
    <2> QED
      BY <2>1, <2>2
  <1>16. \A q \in Request : RequestOK(q)'
    BY <1>2, <1>5, <1>7, <1>9, <1>12, CommitKeepsRequests
  <1>17. FullTellsCapacity'
    BY <1>2, <1>8, <1>9, <1>10, <1>11, <1>12 DEF IInv, FullTellsCapacity
  <1>18. MarksAfterStart' /\ NoShowIsHosts'
    <2>1. \A x \in Event : event'[x].status = "completed" => event[x].status = "completed"
      BY <1>9, <1>12
    <2> QED
      BY <2>1, <1>5, <1>13, OutcomesKept
  <1> QED
    BY <1>14, <1>15, <1>16, <1>17, <1>18 DEF IInv

\* cancel_event and complete_event write the status and nothing else.
LEMMA CloseStep ==
    ASSUME IInv, NEW r \in Request, CommitCancel(r) \/ CommitComplete(r)
    PROVE  IInv'
  <1>1. PICK outcome \in {"cancelled", "completed"} :
            /\ event' = [event EXCEPT ![req[r].event].status = outcome]
            /\ outcome = "completed" => pc[r] = "complete"
    BY DEF CommitCancel, CommitComplete, CommitClose
  <1>2. /\ pc[r] \in {"cancel", "complete"} /\ End(r) /\ Release(r)
        /\ started' = started /\ row' = row
    BY DEF CommitCancel, CommitComplete, CommitClose
  <1> SUFFICES ASSUME NEW e, e = req[r].event PROVE IInv'
    OBVIOUS
  <1>3. pc[r] \in Locking /\ RequestOK(r)
    BY <1>2 DEF Locking, IInv
  <1>4. /\ e \in Event /\ lock[e] = r /\ event[e] \in EventRow
        /\ event[e].status \in {"open", "full"} /\ event[e].host \in Joined(e)
    BY <1>3, HolderFacts
  <1>5. outcome = "completed" => e \in started
    BY <1>1, <1>3 DEF RequestOK
  <1>6. \A x \in Event \ {e} : event'[x] = event[x] /\ row'[x] = row[x]
    BY <1>1, <1>2, <1>4 DEF IInv, TypeOK
  <1>7. \A x \in Event : Joined(x)' = Joined(x) /\ _joined_count(x)' = _joined_count(x)
    BY <1>2, JoinedDependsOnRow
  <1>8. /\ event'[e].capacity = event[e].capacity /\ event'[e].host = event[e].host
        /\ event'[e].status = outcome /\ event'[e] \in EventRow
    BY <1>1, <1>4 DEF IInv, TypeOK, EventRow, EVENT_STATUSES
  <1>9. TypeOK'
    <2>1. event' \in [Event -> EventRow]
      BY <1>1, <1>8 DEF IInv, TypeOK
    <2> QED
      BY <2>1, <1>2, EndTypes DEF IInv, TypeOK
  <1>10. \A x \in Event : EventOK(x)'
    <2>1. EventOK(e)'
      BY <1>4, <1>7, <1>8 DEF EventOK
    <2>2. \A x \in Event \ {e} : EventOK(x)'
      BY <1>6, <1>7 DEF EventOK, IInv
    <2> QED
      BY <2>1, <2>2
  <1>11. \A q \in Request : RequestOK(q)'
    BY <1>2, <1>4, <1>6, <1>8, CommitKeepsRequests
  <1>12. FullTellsCapacity'
    BY <1>4, <1>6, <1>7, <1>8 DEF IInv, FullTellsCapacity
  <1>13. MarksAfterStart' /\ NoShowIsHosts'
    BY <1>2, <1>5, <1>6, <1>8 DEF IInv, MarksAfterStart, NoShowIsHosts
  <1> QED
    BY <1>9, <1>10, <1>11, <1>12, <1>13 DEF IInv

-----------------------------------------------------------------------------
(* The other steps.                                                        *)

\* create_event seats the host, alone.
LEMMA CreateStep ==
    ASSUME IInv, NEW e \in Event, NEW u \in User, NEW n \in Capacity, NEW past \in BOOLEAN,
           create_event(e, u, n, past)
    PROVE  IInv'
  <1>1. /\ event[e].status = "none" /\ UNCHANGED <<lock, pc, req>>
        /\ row' = [row EXCEPT ![e][u].status = "joined"]
        /\ event' = [event EXCEPT ![e] =
               [status |-> IF n <= 1 THEN "full" ELSE "open", host |-> u, capacity |-> n]]
        /\ started' = IF past THEN started \cup {e} ELSE started
    BY DEF create_event
  <1>2. n \in Nat /\ n >= 1
    BY CapacityAssumption
  <1>3. row[e] = [w \in User |-> NoParticipant]
    BY <1>1 DEF IInv, EventOK
  <1>4. Joined(e)' = {u}
    BY <1>1, <1>3 DEF Joined, IInv, TypeOK, NoParticipant
  <1>5. _joined_count(e)' = 1
    BY <1>4, FS_Singleton DEF _joined_count
  <1>6. \A x \in Event \ {e} : event'[x] = event[x] /\ row'[x] = row[x]
    BY <1>1 DEF IInv, TypeOK
  <1>7. \A x \in Event \ {e} : Joined(x)' = Joined(x) /\ _joined_count(x)' = _joined_count(x)
    BY <1>6, JoinedDependsOnRow
  <1>8. /\ event'[e].status \in {"open", "full"} /\ event'[e].host = u
        /\ event'[e].capacity = n /\ event'[e] \in EventRow
        /\ event'[e].status = "full" => n = 1
        /\ event'[e].status = "open" => n > 1
    BY <1>1, <1>2 DEF IInv, TypeOK, EventRow, EVENT_STATUSES
  <1>9. /\ row' \in [Event -> [User -> ParticipantRow]]
        /\ \A x \in Event, w \in User : /\ row'[x][w].attendance = row[x][w].attendance
                                        /\ row'[x][w].confirmed = row[x][w].confirmed
    BY <1>1, StatusWritten DEF IInv
  <1>10. TypeOK'
    <2>1. event' \in [Event -> EventRow]
      BY <1>1, <1>8 DEF IInv, TypeOK
    <2>2. started' \in SUBSET Event
      BY <1>1 DEF IInv, TypeOK
    <2> QED
      BY <2>1, <2>2, <1>1, <1>9 DEF IInv, TypeOK
  <1>11. \A x \in Event : EventOK(x)'
    <2>1. EventOK(e)'
      BY <1>4, <1>8 DEF EventOK
    <2>2. \A x \in Event \ {e} : EventOK(x)'
      BY <1>6, <1>7 DEF EventOK, IInv
    <2> QED
      BY <2>1, <2>2
  <1>12. \A q \in Request : RequestOK(q)'
    <2> SUFFICES ASSUME NEW q \in Request, NEW x, x = req[q].event PROVE RequestOK(q)'
      OBVIOUS
    <2>1. pc'[q] = pc[q] /\ req'[q] = req[q] /\ lock' = lock /\ RequestOK(q)
      BY <1>1 DEF IInv
    <2>2. pc[q] # "idle" => x \in Event \ {e}
      BY <1>1, <2>1 DEF RequestOK
    <2>3. pc[q] # "idle" => /\ event'[x] = event[x] /\ (x \in started => x \in started')
                            /\ Joined(x)' = Joined(x) /\ _joined_count(x)' = _joined_count(x)
      BY <1>1, <1>6, <1>7, <2>2
    <2> QED
      BY <2>1, <2>2, <2>3 DEF RequestOK, Locking
  <1>13. FullTellsCapacity'
    BY <1>2, <1>5, <1>6, <1>7, <1>8 DEF IInv, FullTellsCapacity
  <1>14. MarksAfterStart'
    <2> SUFFICES ASSUME NEW x \in Event, x \notin started'
                 PROVE  /\ event'[x].status # "completed"
                        /\ \A w \in User : row'[x][w].attendance = "pending"
                                           /\ ~row'[x][w].confirmed
      BY DEF MarksAfterStart
    <2>1. x \notin started
      BY <1>1
    <2>2. event'[x].status = "completed" => event[x].status = "completed"
      BY <1>6, <1>8
    <2>3. /\ event[x].status # "completed"
          /\ \A w \in User : row[x][w].attendance = "pending" /\ ~row[x][w].confirmed
      BY <2>1 DEF IInv, MarksAfterStart
    <2>4. ASSUME NEW w \in User
          PROVE  row'[x][w].attendance = "pending" /\ ~row'[x][w].confirmed
      BY <2>3, <1>9
    <2> QED
      BY <2>2, <2>3, <2>4
  <1>15. NoShowIsHosts'
    BY <1>9 DEF IInv, NoShowIsHosts
  <1> QED
    BY <1>10, <1>11, <1>12, <1>13, <1>14, <1>15 DEF IInv

\* The attendance write meets an event that exists and has begun, whatever else
\* became of it; only the host's write can leave a no-show behind.
LEMMA AttendanceStep ==
    ASSUME IInv, NEW r \in Request, CommitMark(r) \/ CommitReport(r)
    PROVE  IInv'
  <1> SUFFICES ASSUME NEW e, e = req[r].event, NEW v, v = req[r].target PROVE IInv'
    OBVIOUS
  <1>1. PICK confirms \in BOOLEAN :
            WriteAttendance(r, confirms) /\ (~confirms => pc[r] = "report")
    BY DEF CommitMark, CommitReport
  <1>2. /\ pc[r] \in {"mark", "report"} /\ End(r)
        /\ event' = event /\ started' = started /\ lock' = lock
    BY DEF CommitMark, CommitReport
  <1>3. /\ e \in Event /\ v \in User /\ e \in started
        /\ ~confirms => req[r].write \in {"attended", "excused", "unchanged"}
    BY <1>1, <1>2 DEF RequestOK, IInv, EVENT_ATTENDANCE_SELF_STATUSES
  <1> DEFINE outcome == IF req[r].write = "unchanged" THEN row[e][v].attendance ELSE req[r].write
  <1> DEFINE new == [status |-> row[e][v].status, attendance |-> outcome,
                     confirmed |-> row[e][v].confirmed \/ confirms]
  <1>4. row' = [row EXCEPT ![e][v] = new]
    BY <1>1 DEF WriteAttendance
  <1>5. \A x \in Event, w \in User : row[x][w] \in ParticipantRow
    BY DEF IInv, TypeOK
  <1>6. new \in ParticipantRow /\ new.status = row[e][v].status
    <2>1. outcome \in EVENT_ATTENDANCE_STATUSES
      BY <1>3, <1>5 DEF IInv, TypeOK, Arguments, ParticipantRow
    <2>2. row[e][v].status \in {"none", "joined", "left"}
      BY <1>3, <1>5 DEF ParticipantRow
    <2>3. (row[e][v].confirmed \/ confirms) \in BOOLEAN
      OBVIOUS
    <2> QED
      BY <2>1, <2>2, <2>3 DEF ParticipantRow
  <1>7. DOMAIN row' = Event /\ \A x \in Event : row'[x] =
            IF x = e THEN [row[e] EXCEPT ![v] = new] ELSE row[x]
    BY <1>4 DEF IInv, TypeOK
  <1>8. \A x \in Event, w \in User :
            row'[x][w] = IF x = e /\ w = v THEN new ELSE row[x][w]
    BY <1>7 DEF IInv, TypeOK
  <1> HIDE DEF new
  <1>9. row' \in [Event -> [User -> ParticipantRow]]
    BY <1>4, <1>6 DEF IInv, TypeOK
  <1>10. TypeOK'
    BY <1>2, <1>9, EndTypes DEF IInv, TypeOK
  <1>11. \A x \in Event : Joined(x)' = Joined(x) /\ _joined_count(x)' = _joined_count(x)
    <2> SUFFICES ASSUME NEW x \in Event
                 PROVE  \A w \in User :
                           (row'[x][w].status = "joined") <=> (row[x][w].status = "joined")
      BY JoinedDependsOnRow
    <2> QED
      BY <1>6, <1>8
  <1>12. \A x \in Event : EventOK(x)'
    <2>1. event[e].status # "none"
      BY <1>2 DEF RequestOK, IInv
    <2>2. \A x \in Event \ {e} : row'[x] = row[x]
      BY <1>7
    <2> QED
      BY <1>2, <1>11, <2>1, <2>2 DEF EventOK, IInv
  <1>13. \A q \in Request : RequestOK(q)'
    <2> SUFFICES ASSUME NEW q \in Request, NEW x, x = req[q].event PROVE RequestOK(q)'
      OBVIOUS
    <2>1. CASE q = r
      BY <1>2, <2>1 DEF End, RequestOK, Locking, IInv, TypeOK
    <2>2. CASE q # r
      <3>1. pc'[q] = pc[q] /\ req'[q] = req[q] /\ RequestOK(q)
        BY <1>2, <2>2 DEF End, IInv, TypeOK
      <3>2. pc[q] # "idle" => Joined(x)' = Joined(x) /\ _joined_count(x)' = _joined_count(x)
        BY <3>1, <1>11 DEF RequestOK
      <3> QED
        BY <3>1, <3>2, <1>2 DEF RequestOK, Locking
    <2> QED
      BY <2>1, <2>2
  <1>14. FullTellsCapacity'
    BY <1>2, <1>11 DEF IInv, FullTellsCapacity
  <1>15. MarksAfterStart'
    <2> SUFFICES ASSUME NEW x \in Event, x \notin started
                 PROVE  /\ event[x].status # "completed"
                        /\ \A w \in User : row'[x][w].attendance = "pending"
                                           /\ ~row'[x][w].confirmed
      BY <1>2 DEF MarksAfterStart
    <2>1. \A w \in User : row'[x][w] = row[x][w]
      BY <1>3, <1>8
    <2> QED
      BY <2>1 DEF IInv, MarksAfterStart
  <1>16. NoShowIsHosts'
    <2> SUFFICES ASSUME NEW x \in Event, NEW w \in User, row'[x][w].attendance = "no_show"
                 PROVE  row'[x][w].confirmed
      BY DEF NoShowIsHosts
    <2>1. CASE x = e /\ w = v
      <3>1. /\ new.attendance = outcome /\ new.confirmed = (row[e][v].confirmed \/ confirms)
            /\ row'[x][w] = new
        BY <1>8, <2>1 DEF new
      <3>2. outcome = "no_show" => confirms \/ row[e][v].attendance = "no_show"
        BY <1>3
      <3>3. row[e][v].attendance = "no_show" => row[e][v].confirmed
        BY <1>3 DEF IInv, NoShowIsHosts
      <3> QED
        BY <3>1, <3>2, <3>3
    <2>2. CASE ~(x = e /\ w = v)
      BY <1>8, <2>2 DEF IInv, NoShowIsHosts
    <2> QED
      BY <2>1, <2>2
  <1> QED
    BY <1>10, <1>12, <1>13, <1>14, <1>15, <1>16 DEF IInv

\* A request that dies gives its lock back and changes nothing else.
LEMMA AbandonStep ==
    ASSUME IInv, NEW r \in Request, Abandon(r)
    PROVE  IInv'
  <1>1. UNCHANGED tables /\ End(r) /\ Release(r)
    BY DEF Abandon
  <1>2. TypeOK'
    BY <1>1, EndTypes DEF IInv, TypeOK, tables
  <1>3. \A q \in Request : RequestOK(q)'
    <2> SUFFICES ASSUME NEW q \in Request, NEW x, x = req[q].event PROVE RequestOK(q)'
      OBVIOUS
    <2>1. CASE q = r
      BY <1>1, <2>1 DEF End, RequestOK, Locking, IInv, TypeOK
    <2>2. CASE q # r
      <3>1. pc'[q] = pc[q] /\ req'[q] = req[q] /\ RequestOK(q)
        BY <1>1, <2>2 DEF End, IInv, TypeOK
      <3>2. pc[q] # "idle" => Joined(x)' = Joined(x) /\ _joined_count(x)' = _joined_count(x)
        BY <3>1, <1>1, TablesKept DEF RequestOK
      <3>3. pc[q] \in Locking => lock'[x] = q
        BY <1>1, <2>2, <3>1 DEF Release, RequestOK, Locking
      <3> QED
        BY <3>1, <3>2, <3>3, <1>1 DEF RequestOK, Locking, tables
    <2> QED
      BY <2>1, <2>2
  <1> QED
    BY <1>1, <1>2, <1>3, TablesKept DEF IInv

\* Time passes, and only loosens what is asked.
LEMMA StartStep ==
    ASSUME IInv, NEW e \in Event, Start(e)
    PROVE  IInv'
  <1>1. started' = started \cup {e} /\ UNCHANGED <<event, row, lock, pc, req>>
    BY DEF Start
  <1>2. \A x : Joined(x)' = Joined(x) /\ _joined_count(x)' = _joined_count(x)
    BY <1>1, JoinedDependsOnRow
  <1>3. TypeOK'
    BY <1>1 DEF IInv, TypeOK
  <1>4. \A q \in Request : RequestOK(q)'
    <2> SUFFICES ASSUME NEW q \in Request, NEW x, x = req[q].event PROVE RequestOK(q)'
      OBVIOUS
    <2>1. Joined(x)' = Joined(x) /\ _joined_count(x)' = _joined_count(x)
      BY <1>2
    <2> QED
      BY <1>1, <2>1 DEF IInv, RequestOK
  <1>5. (\A x \in Event : EventOK(x)') /\ FullTellsCapacity' /\ NoShowIsHosts'
    BY <1>1, <1>2 DEF IInv, EventOK, FullTellsCapacity, NoShowIsHosts
  <1>6. MarksAfterStart'
    BY <1>1 DEF IInv, MarksAfterStart
  <1> QED
    BY <1>3, <1>4, <1>5, <1>6 DEF IInv

-----------------------------------------------------------------------------
(* The theorems.                                                           *)

\* Every step keeps the invariant.
LEMMA NextStep ==
    ASSUME IInv, [Next]_vars
    PROVE  IInv'
  <1>1. ASSUME NEW e \in Event, NEW u \in User, NEW n \in Capacity, NEW past \in BOOLEAN,
               create_event(e, u, n, past)
        PROVE  IInv'
    BY <1>1, CreateStep
  <1>2. ASSUME NEW r \in Request, NEW u \in User, NEW e \in Event,
               BeginJoin(r, u, e) \/ BeginLeave(r, u, e) \/ BeginCancel(r, u, e)
                   \/ BeginComplete(r, u, e)
        PROVE  IInv'
    BY <1>2, BeginSteps
  <1>3. ASSUME NEW r \in Request, NEW u \in User, NEW v \in User, NEW e \in Event,
               NEW mark \in EVENT_ATTENDANCE_HOST_STATUSES, BeginMark(r, u, e, v, mark)
        PROVE  IInv'
    BY <1>3, BeginAttendanceStep DEF BeginMark, EVENT_ATTENDANCE_HOST_STATUSES
  <1>4. ASSUME NEW r \in Request, NEW u \in User, NEW e \in Event,
               NEW mark \in EVENT_ATTENDANCE_SELF_STATUSES, BeginReport(r, u, e, mark)
        PROVE  IInv'
    BY <1>4, BeginAttendanceStep
       DEF BeginReport, EVENT_ATTENDANCE_SELF_STATUSES, EVENT_ATTENDANCE_STATUSES
  <1>5. ASSUME NEW r \in Request,
               \/ CommitJoin(r) \/ CommitLeave(r) \/ CommitCancel(r) \/ CommitComplete(r)
               \/ CommitMark(r) \/ CommitReport(r) \/ Abandon(r)
        PROVE  IInv'
    BY <1>5, JoinStep, LeaveStep, CloseStep, AttendanceStep, AbandonStep
  <1>6. ASSUME NEW e \in Event, Start(e)
        PROVE  IInv'
    BY <1>6, StartStep
  <1>7. CASE UNCHANGED vars
    <2>1. UNCHANGED tables /\ lock' = lock /\ pc' = pc /\ req' = req
      BY <1>7 DEF vars
    <2>2. \A q \in Request : RequestOK(q)'
      <3> SUFFICES ASSUME NEW q \in Request, NEW x, x = req[q].event PROVE RequestOK(q)'
        OBVIOUS
      <3>1. pc[q] # "idle" => Joined(x)' = Joined(x) /\ _joined_count(x)' = _joined_count(x)
        BY <2>1, TablesKept DEF RequestOK, IInv
      <3> QED
        BY <2>1, <3>1 DEF IInv, RequestOK, Locking, tables
    <2>3. TypeOK'
      BY <2>1 DEF IInv, TypeOK, tables
    <2> QED
      BY <2>1, <2>2, <2>3, TablesKept DEF IInv
  <1> QED
    BY <1>1, <1>2, <1>3, <1>4, <1>5, <1>6, <1>7 DEF Next

\* The empty database satisfies it.
LEMMA InitStep ==
    ASSUME Init
    PROVE  IInv
  <1>1. NoEvent \in EventRow /\ NoParticipant \in ParticipantRow /\ NoArguments \in Arguments
    BY DEF NoEvent, EventRow, NoParticipant, ParticipantRow, NoArguments, Arguments,
           EVENT_ATTENDANCE_STATUSES
  <1>2. TypeOK
    BY <1>1 DEF Init, TypeOK
  <1>3. \A e \in Event : Joined(e) = {} /\ _joined_count(e) = 0
    BY FS_EmptySet DEF Init, Joined, _joined_count, NoParticipant
  <1> QED
    BY <1>2, <1>3 DEF Init, IInv, EventOK, RequestOK, Locking, FullTellsCapacity, NoEvent,
                      MarksAfterStart, NoShowIsHosts, NoParticipant

\* The inductive invariant holds in every reachable state.
THEOREM Invariance == Spec => []IInv
BY InitStep, NextStep, PTL DEF Spec

\* Type correctness.
THEOREM TypeCorrectness == Spec => []TypeOK
<1>1. IInv => TypeOK
  BY DEF IInv
<1> QED
  BY <1>1, Invariance, PTL

\* No event is ever overbooked, and its status always tells whether there is room.
THEOREM Capacities == Spec => []FullTellsCapacity
<1>1. IInv => FullTellsCapacity
  BY DEF IInv
<1> QED
  BY <1>1, Invariance, PTL

\* No outcome before the game, and no no-show without the host's word.
THEOREM Outcomes == Spec => []OutcomesAreEarned
<1>1. IInv => OutcomesAreEarned
  BY DEF IInv, OutcomesAreEarned
<1> QED
  BY <1>1, Invariance, PTL

-----------------------------------------------------------------------------
(* The refinement.                                                         *)

\* The board is a function of the event rows and of who has joined.
LEMMA BoardKept ==
    ASSUME event' = event,
           \A e \in Event, u \in User :
               (row'[e][u].status = "joined") <=> (row[e][u].status = "joined")
    PROVE  UNCHANGED Roster!board
  <1>1. \A e \in Event : Joined(e)' = Joined(e)
    BY JoinedDependsOnRow
  <1> QED
    BY <1>1 DEF Roster!board

\* A commit under the lock is one step of the roster.
LEMMA BoardJoin ==
    ASSUME IInv, NEW r \in Request, CommitJoin(r)
    PROVE  \E e \in Event, u \in User : Roster!Enter(e, u)
  <1> SUFFICES ASSUME NEW e, e = req[r].event, NEW u, u = req[r].user
               PROVE  e \in Event /\ u \in User /\ Roster!Enter(e, u)
    OBVIOUS
  <1>1. pc[r] \in Locking /\ RequestOK(r) /\ pc[r] = "join"
    BY DEF CommitJoin, Locking, IInv
  <1>2. e \in Event /\ u \in User /\ event[e] \in EventRow
    BY <1>1, HolderFacts
  <1>3. u \notin Joined(e) /\ event[e].status = "open"
    BY <1>1 DEF RequestOK
  <1>4. Cardinality(Joined(e)) < event[e].capacity
    BY <1>2, <1>3 DEF IInv, FullTellsCapacity, _joined_count
  <1>5. row' = [row EXCEPT ![e][u].status = "joined"]
    BY DEF CommitJoin
  <1>6. \A x \in Event : Joined(x)' = IF x = e THEN Joined(e) \cup {u} ELSE Joined(x)
    BY <1>2, <1>5 DEF Joined, IInv, TypeOK, ParticipantRow
  <1>7. /\ \A x \in Event \ {e} : event'[x] = event[x]
        /\ event'[e].status \in {"open", "full"}
        /\ event'[e].host = event[e].host /\ event'[e].capacity = event[e].capacity
    BY <1>2, <1>3 DEF CommitJoin, IInv, TypeOK, EventRow
  <1>8. [x \in Event |-> Joined(x)]'
            = [[x \in Event |-> Joined(x)] EXCEPT ![e] = Joined(e) \cup {u}]
    BY <1>2, <1>6
  <1>9. UNCHANGED <<[x \in Event |-> IF event[x].status \in {"open", "full"}
                                     THEN "active" ELSE event[x].status],
                    [x \in Event |-> event[x].host],
                    [x \in Event |-> event[x].capacity]>>
    BY <1>2, <1>3, <1>7
  <1>10. Roster!Cardinality(Joined(e)) < event[e].capacity
    BY <1>4 DEF Roster!Cardinality, Cardinality
  <1> QED
    BY <1>2, <1>3, <1>10, <1>8, <1>9 DEF Roster!Enter

\* leave_event quits the roster.
LEMMA BoardLeave ==
    ASSUME IInv, NEW r \in Request, CommitLeave(r)
    PROVE  \E e \in Event, u \in User : Roster!Quit(e, u)
  <1> SUFFICES ASSUME NEW e, e = req[r].event, NEW u, u = req[r].user
               PROVE  e \in Event /\ u \in User /\ Roster!Quit(e, u)
    OBVIOUS
  <1>1. pc[r] \in Locking /\ RequestOK(r) /\ pc[r] = "leave"
    BY DEF CommitLeave, Locking, IInv
  <1>2. e \in Event /\ u \in User /\ event[e] \in EventRow /\ event[e].status \in {"open", "full"}
    BY <1>1, HolderFacts
  <1>3. u \in Joined(e) /\ u # event[e].host
    BY <1>1 DEF RequestOK
  <1>4. row' = [row EXCEPT ![e][u].status = "left"]
    BY DEF CommitLeave
  <1>5. \A x \in Event : Joined(x)' = IF x = e THEN Joined(e) \ {u} ELSE Joined(x)
    BY <1>2, <1>4 DEF Joined, IInv, TypeOK, ParticipantRow
  <1>6. /\ \A x \in Event \ {e} : event'[x] = event[x]
        /\ event'[e].status \in {"open", "full"}
        /\ event'[e].host = event[e].host /\ event'[e].capacity = event[e].capacity
    BY <1>2 DEF CommitLeave, IInv, TypeOK, EventRow
  <1> QED
    BY <1>2, <1>3, <1>5, <1>6 DEF Roster!Quit

\* cancel_event and complete_event close it.
LEMMA BoardClose ==
    ASSUME IInv, NEW r \in Request, CommitCancel(r) \/ CommitComplete(r)
    PROVE  \E e \in Event, outcome \in {"cancelled", "completed"} : Roster!Close(e, outcome)
  <1>1. PICK outcome \in {"cancelled", "completed"} :
            event' = [event EXCEPT ![req[r].event].status = outcome]
    BY DEF CommitCancel, CommitComplete, CommitClose
  <1> SUFFICES ASSUME NEW e, e = req[r].event
               PROVE  e \in Event /\ Roster!Close(e, outcome)
    BY <1>1
  <1>2. pc[r] \in Locking /\ row' = row
    BY DEF CommitCancel, CommitComplete, CommitClose, Locking
  <1>3. e \in Event /\ event[e] \in EventRow /\ event[e].status \in {"open", "full"}
    BY <1>2, HolderFacts
  <1>4. \A x \in Event : Joined(x)' = Joined(x)
    BY <1>2, JoinedDependsOnRow
  <1>5. /\ \A x \in Event \ {e} : event'[x] = event[x]
        /\ event'[e].status = outcome
        /\ event'[e].host = event[e].host /\ event'[e].capacity = event[e].capacity
    BY <1>1, <1>3 DEF IInv, TypeOK, EventRow
  <1> QED
    BY <1>3, <1>4, <1>5 DEF Roster!Close

\* create_event opens one with its host.
LEMMA BoardOpen ==
    ASSUME IInv, NEW e \in Event, NEW u \in User, NEW n \in Capacity, NEW past \in BOOLEAN,
           create_event(e, u, n, past)
    PROVE  Roster!Open(e, u, n)
  <1>1. /\ event[e].status = "none" /\ row' = [row EXCEPT ![e][u].status = "joined"]
        /\ event' = [event EXCEPT ![e] =
               [status |-> IF n <= 1 THEN "full" ELSE "open", host |-> u, capacity |-> n]]
    BY DEF create_event
  <1>2. row[e] = [w \in User |-> NoParticipant]
    BY <1>1 DEF IInv, EventOK
  <1>3. \A x \in Event : Joined(x)' = IF x = e THEN {u} ELSE Joined(x)
    BY <1>1, <1>2 DEF Joined, IInv, TypeOK, NoParticipant
  <1>4. /\ \A x \in Event \ {e} : event'[x] = event[x]
        /\ event'[e].status \in {"open", "full"}
        /\ event'[e].host = u /\ event'[e].capacity = n
    BY <1>1 DEF IInv, TypeOK
  <1>5. [x \in Event |-> Joined(x)]' = [[x \in Event |-> Joined(x)] EXCEPT ![e] = {u}]
    BY <1>3
  <1>6. [x \in Event |-> IF event[x].status \in {"open", "full"}
                         THEN "active" ELSE event[x].status]'
            = [[x \in Event |-> IF event[x].status \in {"open", "full"}
                                THEN "active" ELSE event[x].status] EXCEPT ![e] = "active"]
    BY <1>4
  <1>7. /\ [x \in Event |-> event[x].host]' = [[x \in Event |-> event[x].host] EXCEPT ![e] = u]
        /\ [x \in Event |-> event[x].capacity]'
               = [[x \in Event |-> event[x].capacity] EXCEPT ![e] = n]
    BY <1>4
  <1> QED
    BY <1>1, <1>5, <1>6, <1>7 DEF Roster!Open

\* The attendance routes do not move anybody.
LEMMA BoardAttendance ==
    ASSUME IInv, NEW r \in Request, CommitMark(r) \/ CommitReport(r)
    PROVE  UNCHANGED Roster!board
  <1> SUFFICES ASSUME NEW e, e = req[r].event, NEW v, v = req[r].target
               PROVE  UNCHANGED Roster!board
    OBVIOUS
  <1>1. event' = event
    BY DEF CommitMark, CommitReport
  <1>2. PICK new : row' = [row EXCEPT ![e][v] = new] /\ new.status = row[e][v].status
    <2>1. ASSUME NEW confirms, WriteAttendance(r, confirms)
          PROVE  \E new : row' = [row EXCEPT ![e][v] = new] /\ new.status = row[e][v].status
      <3> DEFINE written ==
            [status |-> row[e][v].status,
             attendance |-> IF req[r].write = "unchanged" THEN row[e][v].attendance
                                                          ELSE req[r].write,
             confirmed |-> row[e][v].confirmed \/ confirms]
      <3>1. row' = [row EXCEPT ![e][v] = written]
        BY <2>1 DEF WriteAttendance
      <3>2. written.status = row[e][v].status
        OBVIOUS
      <3> QED
        BY <3>1, <3>2
    <2> QED
      BY <2>1 DEF CommitMark, CommitReport
  <1>3. \A x \in Event, w \in User : row'[x][w].status = row[x][w].status
    BY <1>2 DEF IInv, TypeOK
  <1> QED
    BY <1>1, <1>3, BoardKept

\* Every step is a step of the roster or none.
LEMMA BoardStep ==
    ASSUME IInv, [Next]_vars
    PROVE  [Roster!Next]_(Roster!board)
  <1>1. ASSUME NEW e \in Event, NEW u \in User, NEW n \in Capacity, NEW past \in BOOLEAN,
               create_event(e, u, n, past)
        PROVE  Roster!Next
    BY <1>1, BoardOpen DEF Roster!Next
  <1>2. ASSUME UNCHANGED tables
        PROVE  UNCHANGED Roster!board
    BY <1>2, BoardKept DEF tables
  <1>3. ASSUME NEW r \in Request, NEW u \in User, NEW e \in Event,
               BeginJoin(r, u, e) \/ BeginLeave(r, u, e) \/ BeginCancel(r, u, e)
                   \/ BeginComplete(r, u, e)
        PROVE  UNCHANGED tables
    BY <1>3 DEF BeginJoin, BeginLeave, BeginCancel, BeginComplete, BeginLocked
  <1>4. ASSUME NEW r \in Request, NEW u \in User, NEW v \in User, NEW e \in Event, NEW mark,
               BeginMark(r, u, e, v, mark) \/ BeginReport(r, u, e, mark)
        PROVE  UNCHANGED tables
    BY <1>4 DEF BeginMark, BeginReport, BeginAttendance
  <1>5. ASSUME NEW r \in Request,
               \/ CommitJoin(r) \/ CommitLeave(r) \/ CommitCancel(r) \/ CommitComplete(r)
        PROVE  Roster!Next
    BY <1>5, BoardJoin, BoardLeave, BoardClose DEF Roster!Next
  <1>6. ASSUME NEW r \in Request, CommitMark(r) \/ CommitReport(r)
        PROVE  UNCHANGED Roster!board
    BY <1>6, BoardAttendance
  <1>7. ASSUME NEW r \in Request, Abandon(r)
        PROVE  UNCHANGED tables
    BY <1>7 DEF Abandon
  <1>8. ASSUME NEW e \in Event, Start(e)
        PROVE  UNCHANGED Roster!board
    BY <1>8, BoardKept DEF Start
  <1>9. CASE UNCHANGED vars
    BY <1>9, <1>2 DEF vars
  <1> QED
    BY <1>1, <1>2, <1>3, <1>4, <1>5, <1>6, <1>7, <1>8, <1>9 DEF Next

\* No event is no roster.
LEMMA BoardInit ==
    ASSUME Init
    PROVE  Roster!Init
  <1>1. \A e \in Event : Joined(e) = {}
    BY DEF Init, Joined, NoParticipant
  <1> QED
    BY <1>1 DEF Init, Roster!Init, NoEvent

\* The four locked routes act as if each took effect in one instant on a roster
\* that is never overbooked and is final once the event is over.
THEOREM RosterRefinement == Spec => RosterSpec
BY BoardInit, BoardStep, Invariance, PTL DEF Spec, RosterSpec, Roster!Spec

-----------------------------------------------------------------------------
(* The score.                                                              *)

\* A report on a row the host has not confirmed leaves every row that counts
\* for a score as it was.
LEMMA ReportStep ==
    ASSUME IInv, NEW r \in Request, CommitReport(r),
           ~row[req[r].event][req[r].target].confirmed, NEW u \in User
    PROVE  HonorScore(u)' = HonorScore(u) /\ GangScore(u)' = GangScore(u)
  <1> DEFINE e == req[r].event
             v == req[r].target
  <1>1. event' = event /\ WriteAttendance(r, FALSE)
    BY DEF CommitReport
  <1>2. e \in Event /\ v \in User
    BY DEF IInv, RequestOK, CommitReport
  <1>3. PICK new : /\ row' = [row EXCEPT ![e][v] = new]
                   /\ ~new.confirmed
    <2> DEFINE written ==
          [status |-> row[e][v].status,
           attendance |-> IF req[r].write = "unchanged" THEN row[e][v].attendance
                                                        ELSE req[r].write,
           confirmed |-> row[e][v].confirmed \/ FALSE]
    <2>1. row' = [row EXCEPT ![e][v] = written]
      BY <1>1 DEF WriteAttendance
    <2>2. ~written.confirmed
      OBVIOUS
    <2> QED
      BY <2>1, <2>2
  <1>4. \A x \in Event, w \in User :
           \/ row'[x][w] = row[x][w]
           \/ ~row'[x][w].confirmed /\ ~row[x][w].confirmed
    <2> SUFFICES ASSUME NEW x \in Event, NEW w \in User
                 PROVE  \/ row'[x][w] = row[x][w]
                        \/ ~row'[x][w].confirmed /\ ~row[x][w].confirmed
      OBVIOUS
    <2>1. CASE x = e /\ w = v
      BY <2>1, <1>2, <1>3 DEF IInv, TypeOK
    <2>2. CASE ~(x = e /\ w = v)
      BY <2>2, <1>2, <1>3 DEF IInv, TypeOK
    <2> QED
      BY <2>1, <2>2
  <1>5. ASSUME NEW w \in User, NEW outcome
        PROVE  Credited(w, outcome)' = Credited(w, outcome)
    BY <1>1, <1>4 DEF Credited
  <1>6. Hosted(u)' = Hosted(u)
    BY <1>1, <1>5 DEF Hosted
  <1>7. Credited(u, "attended")' = Credited(u, "attended")
        /\ Credited(u, "no_show")' = Credited(u, "no_show")
    BY <1>5
  <1> QED
    BY <1>6, <1>7 DEF HonorScore, GangScore

\* Before the host has spoken, a self-report moves nobody's score.
THEOREM ReportsAreInert == Spec => ReportAloneIsInert
  <1>1. IInv /\ [Next]_vars =>
          [\A r \in Request :
             CommitReport(r) /\ ~row[req[r].event][req[r].target].confirmed =>
                \A u \in User : HonorScore(u)' = HonorScore(u) /\ GangScore(u)' = GangScore(u)]_vars
    BY ReportStep
  <1> QED
    BY <1>1, Invariance, PTL DEF Spec, ReportAloneIsInert
=============================================================================

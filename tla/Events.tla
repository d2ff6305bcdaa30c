------------------------------- MODULE Events -------------------------------
(***************************************************************************)
(* Group events: hosting, joining, leaving, attendance, cancellation and   *)
(* completion (services/events.py), and the score that is computed from    *)
(* them (compute_honor_summary of services/rank.py), as concurrent         *)
(* requests over one Postgres database at READ COMMITTED.                  *)
(*                                                                         *)
(* join, leave, cancel and complete begin with SELECT ... FOR UPDATE on    *)
(* the event and check and count under that lock.  The two attendance      *)
(* routes do not lock: they check the event and the participant's row and  *)
(* write the row later.  They read the event first and the row second;     *)
(* whenever the two reads succeed there was also an instant at which both  *)
(* would have, so one step reads both.                                     *)
(*                                                                         *)
(* A request that is refused, or finds its work already done, changes      *)
(* nothing and is not a step.  Every event is public: create_event refuses *)
(* the others.                                                             *)
(***************************************************************************)
EXTENDS Integers, FiniteSets

CONSTANTS
    User,      \* accounts
    Event,     \* identities of the events that may be created
    Request,   \* slots for requests in flight at the same time
    Capacity,  \* the capacities hosts choose from
    Nobody     \* SQL NULL, a missing row

ASSUME NobodyAssumption == Nobody \notin User \cup Event \cup Request
ASSUME UserAssumption == IsFiniteSet(User)
\* CHECK (capacity >= 1), and the bound of the request schema.
ASSUME CapacityAssumption == Capacity \subseteq 1 .. 200

VARIABLES
    event,   \* the events rows
    started, \* the events whose starts_at is past
    row,     \* event_participants: the row of each event and user
    lock,    \* the request that holds the FOR UPDATE lock of each event
    pc,      \* where each request stands
    req      \* its arguments and what it has read

tables == <<event, started, row>>
vars == <<tables, lock, pc, req>>

EVENT_STATUSES == {"open", "full", "cancelled", "completed"}
EVENT_ATTENDANCE_STATUSES == {"pending", "attended", "no_show", "excused"}

EventRow ==
    [status : EVENT_STATUSES \cup {"none"}, host : User \cup {Nobody}, capacity : Nat]
NoEvent == [status |-> "none", host |-> Nobody, capacity |-> 0]

\* One row per event and user: join_event looks for a row of either status under
\* the lock before it inserts one.
ParticipantRow ==
    [status : {"none", "joined", "left"}, attendance : EVENT_ATTENDANCE_STATUSES,
     confirmed : BOOLEAN]
NoParticipant == [status |-> "none", attendance |-> "pending", confirmed |-> FALSE]

Arguments ==
    [user : User \cup {Nobody}, event : Event \cup {Nobody}, count : Nat,
     target : User \cup {Nobody}, write : EVENT_ATTENDANCE_STATUSES \cup {"unchanged"}]
NoArguments ==
    [user |-> Nobody, event |-> Nobody, count |-> 0, target |-> Nobody,
     write |-> "unchanged"]

-----------------------------------------------------------------------------
(* Helpers.                                                                *)

Joined(e) == {u \in User : row[e][u].status = "joined"}
_joined_count(e) == Cardinality(Joined(e))

Begin(r, label, args) ==
    /\ pc[r] = "idle"
    /\ pc' = [pc EXCEPT ![r] = label]
    /\ req' = [req EXCEPT ![r] = args]

End(r) ==
    /\ pc' = [pc EXCEPT ![r] = "idle"]
    /\ req' = [req EXCEPT ![r] = NoArguments]

\* Commit and rollback give up the lock of the transaction, if it has one.
Release(r) == lock' = [e \in Event |-> IF lock[e] = r THEN Nobody ELSE lock[e]]

\* Fault: the row is read without FOR UPDATE.
LockFreeAlways(e) == TRUE

LockFree(e) == lock[e] = Nobody

\* A request gets the lock of its event; what it reads from here on is what the
\* previous holder committed.
BeginLocked(r, label, u, e) ==
    /\ LockFree(e)
    /\ lock' = [lock EXCEPT ![e] = r]
    /\ Begin(r, label, [NoArguments EXCEPT !.user = u, !.event = e,
                                           !.count = _joined_count(e)])
    /\ UNCHANGED tables

-----------------------------------------------------------------------------
(* The roster.                                                             *)

\* Fault: an event that the host fills alone stays open.
create_event_open(e, u, n, past) ==
    /\ event[e].status = "none"
    /\ event' = [event EXCEPT ![e] = [status |-> "open", host |-> u, capacity |-> n]]
    /\ row' = [row EXCEPT ![e][u].status = "joined"]
    /\ started' = IF past THEN started \cup {e} ELSE started
    /\ UNCHANGED <<lock, pc, req>>

\* create_event: the event and the host's place, in one transaction on rows that
\* nobody else can see.  starts_at may be past.
create_event(e, u, n, past) ==
    /\ event[e].status = "none"
    /\ event' = [event EXCEPT ![e] =
           [status |-> IF n <= 1 THEN "full" ELSE "open", host |-> u, capacity |-> n]]
    /\ row' = [row EXCEPT ![e][u].status = "joined"]
    /\ started' = IF past THEN started \cup {e} ELSE started
    /\ UNCHANGED <<lock, pc, req>>

BeginJoin(r, u, e) ==
    /\ event[e].status \notin {"none", "cancelled", "completed"}
    /\ u \notin Joined(e)
    /\ ~(_joined_count(e) >= event[e].capacity \/ event[e].status = "full")
    /\ BeginLocked(r, "join", u, e)

\* A new row, or the row of a user who had left: that one keeps its attendance.
CommitJoin(r) ==
    /\ pc[r] = "join"
    /\ LET e == req[r].event
       IN /\ row' = [row EXCEPT ![e][req[r].user].status = "joined"]
          /\ event' = [event EXCEPT ![e].status =
                 IF req[r].count + 1 >= event[e].capacity THEN "full" ELSE event[e].status]
    /\ Release(r) /\ End(r)
    /\ UNCHANGED started

_LEAVABLE_STATUSES == {"open", "full"}

BeginLeave(r, u, e) ==
    /\ event[e].status \in _LEAVABLE_STATUSES
    /\ u # event[e].host
    /\ u \in Joined(e)
    /\ BeginLocked(r, "leave", u, e)

\* The soft leave, and the count after it.
CommitLeave(r) ==
    /\ pc[r] = "leave"
    /\ LET e == req[r].event
           left == Cardinality(Joined(e) \ {req[r].user})
       IN /\ row' = [row EXCEPT ![e][req[r].user].status = "left"]
          /\ event' = [event EXCEPT ![e].status =
                 IF event[e].status = "full" /\ left < event[e].capacity
                 THEN "open" ELSE event[e].status]
    /\ Release(r) /\ End(r)
    /\ UNCHANGED started

\* cancel_event and complete_event, by the host of an event that is not over.
BeginCancel(r, u, e) ==
    /\ u = event[e].host
    /\ event[e].status \notin {"none", "cancelled", "completed"}
    /\ BeginLocked(r, "cancel", u, e)

BeginComplete(r, u, e) ==
    /\ u = event[e].host
    /\ event[e].status \notin {"none", "cancelled", "completed"}
    /\ e \in started
    /\ BeginLocked(r, "complete", u, e)

CommitClose(r, label, outcome) ==
    /\ pc[r] = label
    /\ event' = [event EXCEPT ![req[r].event].status = outcome]
    /\ Release(r) /\ End(r)
    /\ UNCHANGED <<started, row>>

CommitCancel(r) == CommitClose(r, "cancel", "cancelled")
CommitComplete(r) == CommitClose(r, "complete", "completed")

-----------------------------------------------------------------------------
(* Attendance.                                                             *)

\* Fault: the vocabulary has grown in one place only.
EVENT_ATTENDANCE_HOST_STATUSES_Late == EVENT_ATTENDANCE_STATUSES \cup {"late"}
\* Fault: a participant may report any outcome.
EVENT_ATTENDANCE_SELF_STATUSES_Any == EVENT_ATTENDANCE_STATUSES

EVENT_ATTENDANCE_HOST_STATUSES == EVENT_ATTENDANCE_STATUSES
EVENT_ATTENDANCE_SELF_STATUSES == {"attended", "excused"}

_ATTENDANCE_MUTABLE_EVENT_STATUSES == {"open", "full", "completed"}

\* Fault: an event that is full counts as one that has begun.
AttendanceOpenWhenFull(e) ==
    /\ event[e].status \in _ATTENDANCE_MUTABLE_EVENT_STATUSES
    /\ event[e].status \in {"full", "completed"} \/ e \in started

\* _ensure_attendance_event_mutable and _ensure_attendance_time_eligible
AttendanceOpen(e) ==
    /\ event[e].status \in _ATTENDANCE_MUTABLE_EVENT_STATUSES
    /\ event[e].status = "completed" \/ e \in started

\* host_update_attendance and self_report_attendance up to their write.  The ORM
\* leaves out a column that is assigned the value it loaded.
BeginAttendance(r, label, u, e, v, mark) ==
    /\ AttendanceOpen(e)
    /\ v \in Joined(e)
    /\ Begin(r, label, [user |-> u, event |-> e, count |-> 0, target |-> v,
           write |-> IF mark = row[e][v].attendance THEN "unchanged" ELSE mark])
    /\ UNCHANGED <<tables, lock>>

BeginMark(r, u, e, v, mark) ==
    u = event[e].host /\ BeginAttendance(r, "mark", u, e, v, mark)
BeginReport(r, u, e, mark) == BeginAttendance(r, "report", u, e, u, mark)

\* Fault: the report of a participant stamps the confirmation too.
WriteAttendanceConfirming(r, confirms) ==
    row' = [row EXCEPT ![req[r].event][req[r].target].attendance =
                           IF req[r].write = "unchanged" THEN @ ELSE req[r].write,
                       ![req[r].event][req[r].target].confirmed = TRUE]
\* The UPDATE, whatever has happened to the event or the row since.
WriteAttendance(r, confirms) ==
    LET e == req[r].event
        v == req[r].target
    IN row' = [row EXCEPT ![e][v] =
           [status |-> row[e][v].status,
            attendance |-> IF req[r].write = "unchanged" THEN row[e][v].attendance
                                                         ELSE req[r].write,
            confirmed |-> row[e][v].confirmed \/ confirms]]

CommitMark(r) ==
    /\ pc[r] = "mark"
    /\ WriteAttendance(r, TRUE)
    /\ End(r)
    /\ UNCHANGED <<event, started, lock>>

CommitReport(r) ==
    /\ pc[r] = "report"
    /\ WriteAttendance(r, FALSE)
    /\ End(r)
    /\ UNCHANGED <<event, started, lock>>

-----------------------------------------------------------------------------
\* The request dies before its commit.
Abandon(r) ==
    /\ pc[r] # "idle"
    /\ Release(r) /\ End(r)
    /\ UNCHANGED tables

\* The clock reaches starts_at.
Start(e) ==
    /\ event[e].status # "none"
    /\ started' = started \cup {e}
    /\ UNCHANGED <<event, row, lock, pc, req>>

Init ==
    /\ event = [e \in Event |-> NoEvent]
    /\ started = {}
    /\ row = [e \in Event |-> [u \in User |-> NoParticipant]]
    /\ lock = [e \in Event |-> Nobody]
    /\ pc = [r \in Request |-> "idle"]
    /\ req = [r \in Request |-> NoArguments]

Next ==
    \/ \E e \in Event, u \in User, n \in Capacity, past \in BOOLEAN :
           create_event(e, u, n, past)
    \/ \E r \in Request, u \in User, e \in Event :
           \/ BeginJoin(r, u, e) \/ BeginLeave(r, u, e)
           \/ BeginCancel(r, u, e) \/ BeginComplete(r, u, e)
    \/ \E r \in Request, u, v \in User, e \in Event :
           \E mark \in EVENT_ATTENDANCE_HOST_STATUSES : BeginMark(r, u, e, v, mark)
    \/ \E r \in Request, u \in User, e \in Event :
           \E mark \in EVENT_ATTENDANCE_SELF_STATUSES : BeginReport(r, u, e, mark)
    \/ \E r \in Request :
           \/ CommitJoin(r) \/ CommitLeave(r) \/ CommitCancel(r) \/ CommitComplete(r)
           \/ CommitMark(r) \/ CommitReport(r) \/ Abandon(r)
    \/ \E e \in Event : Start(e)

Spec == Init /\ [][Next]_vars

-----------------------------------------------------------------------------
(* The score: no table of its own, computed from the rows on every read.   *)

\* The events whose row counts for the player u with this outcome.
Credited(u, outcome) ==
    {e \in Event :
        /\ row[e][u].status = "joined" /\ event[e].status # "cancelled"
        /\ u # event[e].host
        /\ row[e][u].confirmed /\ row[e][u].attendance = outcome}

\* The events that earn their host u the bonus.
Hosted(u) ==
    {e \in Event :
        /\ u = event[e].host /\ event[e].status # "cancelled"
        /\ \E v \in User : e \in Credited(v, "attended")}

\* The score of compute_honor_summary, for a user no report was actioned against.
HonorScore(u) ==
    LET honor == 100 + 2 * Cardinality(Credited(u, "attended"))
                     - 20 * Cardinality(Credited(u, "no_show"))
    IN IF honor < 0 THEN 0 ELSE IF honor > 999 THEN 999 ELSE honor
GangScore(u) == 10 * Cardinality(Credited(u, "attended")) + 15 * Cardinality(Hosted(u))

-----------------------------------------------------------------------------
(* Properties.                                                             *)

\* Every variable has its type.
TypeOK ==
    /\ event \in [Event -> EventRow]
    /\ started \in SUBSET Event
    /\ row \in [Event -> [User -> ParticipantRow]]
    /\ lock \in [Event -> Request \cup {Nobody}]
    /\ pc \in [Request ->
           {"idle", "join", "leave", "cancel", "complete", "mark", "report"}]
    /\ req \in [Request -> Arguments]

\* The status tells whether there is room: an open event has a free place, a full
\* one has none, and no event ever has more participants than places, however
\* joins, leaves and the end of the event race.
FullTellsCapacity ==
    \A e \in Event :
        /\ _joined_count(e) <= event[e].capacity
        /\ event[e].status = "open" => _joined_count(e) < event[e].capacity
        /\ event[e].status = "full" => _joined_count(e) = event[e].capacity

\* Nobody has an outcome before the game has begun, and no event is completed
\* before it, also when an attendance update races the end of the event.
MarksAfterStart ==
    \A e \in Event : e \notin started =>
        /\ event[e].status # "completed"
        /\ \A u \in User : row[e][u].attendance = "pending" /\ ~row[e][u].confirmed

\* A no-show is the host's word: whatever the participant reported around it, a
\* row that says no_show carries the confirmation of the host.
NoShowIsHosts ==
    \A e \in Event, u \in User :
        row[e][u].attendance = "no_show" => row[e][u].confirmed

\* An outcome of an event has a game and a word of the host behind it.
OutcomesAreEarned ==
    /\ MarksAfterStart
    /\ NoShowIsHosts

\* Self-reports alone never move a score, neither the participant's nor the
\* host's bonus (services/rank.py:260), also when the report was loaded before
\* another one: before the host has spoken a report is inert.  After it, the
\* report replaces the outcome the host has confirmed, and the score follows.
ReportAloneIsInert ==
    [][\A r \in Request :
          CommitReport(r) /\ ~row[req[r].event][req[r].target].confirmed =>
             \A u \in User : HonorScore(u)' = HonorScore(u) /\ GangScore(u)' = GangScore(u)]_vars

\* The service implements the roster of EventRoster: its locked routes take
\* effect in one instant, and a roster is final once its event is over.
Roster == INSTANCE EventRoster WITH
    stage <- [e \in Event |-> IF event[e].status \in {"open", "full"}
                              THEN "active" ELSE event[e].status],
    host <- [e \in Event |-> event[e].host],
    places <- [e \in Event |-> event[e].capacity],
    roster <- [e \in Event |-> Joined(e)]
RosterSpec == Roster!Spec
=============================================================================

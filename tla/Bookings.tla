------------------------------ MODULE Bookings ------------------------------
(***************************************************************************)
(* Session bookings between two matched users (services/bookings.py), the  *)
(* honor and rank ledgers they write (services/rank.py) and the            *)
(* notifications they enqueue (services/notifications.py), as concurrent   *)
(* requests over one Postgres database at READ COMMITTED.                  *)
(*                                                                         *)
(* A request loads its row with a plain SELECT and checks it, and later    *)
(* writes it and commits.  Nothing locks the row in between and nothing is *)
(* checked again, so what was checked may be stale when it is written.     *)
(* The UPDATE, the ledger rows and the notifications are one transaction:  *)
(* nobody sees them before the commit and the UPDATE is unconditional, so  *)
(* they are one step.  A request that is refused (403, 404, 422) changes   *)
(* nothing and is not a step.                                              *)
(***************************************************************************)
EXTENDS Reputation, FiniteSets

CONSTANTS
    User,     \* accounts
    Match,    \* matches, all active at first
    Booking,  \* identities of the bookings that may be created
    Request,  \* slots for requests in flight at the same time
    Parties,  \* the two users of every match
    Nobody    \* SQL NULL, a missing row

ASSUME NobodyAssumption == Nobody \notin User \cup Match \cup Booking \cup Request
ASSUME PartiesAssumption ==
    /\ Parties \in [Match -> SUBSET User]
    /\ \A m \in Match : \E u, v \in User : u # v /\ Parties[m] = {u, v}

VARIABLES
    match,       \* matches.status
    booking,     \* the bookings rows
    soon,        \* the bookings that start within 24 hours
    honorEvents, \* honor_events: rows per booking, user and reason
    rankEvents,  \* rank_events: rows per booking and user
    outbox,      \* notification_events: rows per booking, recipient and type
    pc,          \* where each request stands
    req          \* its arguments and the status it has read

rows == <<match, booking, soon, honorEvents, rankEvents, outbox>>
vars == <<rows, pc, req>>

NotificationType ==
    {"proposal_received", "booking_confirmed", "booking_declined",
     "booking_cancelled", "reminder"}
BookingStatus ==
    {"none", "proposed", "confirmed", "declined", "cancelled", "completed", "no_show"}

BookingRow ==
    [status : BookingStatus, proposer : User \cup {Nobody},
     partner : User \cup {Nobody}, match : Match \cup {Nobody}]
NoBooking ==
    [status |-> "none", proposer |-> Nobody, partner |-> Nobody, match |-> Nobody]

Arguments ==
    [user : User \cup {Nobody}, booking : Booking \cup {Nobody},
     match : Match \cup {Nobody}, from : BookingStatus, to : BookingStatus]
NoArguments ==
    [user |-> Nobody, booking |-> Nobody, match |-> Nobody,
     from |-> "none", to |-> "none"]

Participants(b) == {booking[b].proposer, booking[b].partner}
Other(b, u) ==
    IF booking[b].proposer = u THEN booking[b].partner ELSE booking[b].proposer

Begin(r, label, args) ==
    /\ pc[r] = "idle"
    /\ pc' = [pc EXCEPT ![r] = label]
    /\ req' = [req EXCEPT ![r] = args]

End(r) ==
    /\ pc' = [pc EXCEPT ![r] = "idle"]
    /\ req' = [req EXCEPT ![r] = NoArguments]

-----------------------------------------------------------------------------
(* The ledgers and the outbox.                                             *)

\* Fault: the user who claims a no-show pays nothing.
HonorRowsFreeAccusation(b, u, from, to) ==
    {row \in User \X HonorReason :
        /\ from = "confirmed"
        /\ \/ to = "completed" /\ row[1] \in Participants(b)
              /\ row[2] = "session_completed"
           \/ to = "no_show" /\ row = <<Other(b, u), "no_show_against_user">>
           \/ to = "cancelled" /\ row = <<u, "late_cancellation">>}

\* Fault: every cancellation is charged, also that of a mere proposal.
HonorRowsAnyCancellation(b, u, from, to) ==
    {row \in User \X HonorReason :
        \/ from = "confirmed" /\ to = "completed" /\ row[1] \in Participants(b)
              /\ row[2] = "session_completed"
        \/ to = "no_show" /\ row = <<Other(b, u), "no_show_against_user">>
        \/ to = "no_show" /\ row = <<u, "no_show_marked_by_user">>
        \/ to = "cancelled" /\ row = <<u, "late_cancellation">>}

\* What record_booking_transition appends to honor_events for a transition by
\* u: pairs of a user and a reason.
HonorRows(b, u, from, to) ==
    {row \in User \X HonorReason :
        /\ from = "confirmed"
        /\ \/ to = "completed" /\ row[1] \in Participants(b)
              /\ row[2] = "session_completed"
           \/ to = "no_show" /\ row = <<Other(b, u), "no_show_against_user">>
           \/ to = "no_show" /\ row = <<u, "no_show_marked_by_user">>
           \/ to = "cancelled" /\ row = <<u, "late_cancellation">>}

\* Fault: only the proposer earns rank points.
RankRowsProposer(b, from, to) ==
    {w \in User : from = "confirmed" /\ to = "completed" /\ w = booking[b].proposer}

\* The users it appends a rank_events row for.
RankRows(b, from, to) ==
    {w \in User : from = "confirmed" /\ to = "completed" /\ w \in Participants(b)}

\* The type that goes to the other participant.
NotificationFor(to) ==
    CASE to = "confirmed" -> "booking_confirmed"
      [] to = "declined"  -> "booking_declined"
      [] to = "cancelled" -> "booking_cancelled"
      [] OTHER            -> "none"

\* Fault: only the other participant is reminded.
NotificationsOneReminder(b, u, to) ==
    {n \in User \X NotificationType :
        \/ n = <<Other(b, u), NotificationFor(to)>>
        \/ to = "confirmed" /\ b \notin soon /\ n = <<Other(b, u), "reminder">>}

\* What transition_booking enqueues.  A reminder is due 24 hours before the
\* start, and is left out when that moment has passed.
Notifications(b, u, to) ==
    {n \in User \X NotificationType :
        \/ n = <<Other(b, u), NotificationFor(to)>>
        \/ /\ to = "confirmed" /\ b \notin soon
           /\ n[1] \in Participants(b) /\ n[2] = "reminder"}

AppendHonor(b, new) ==
    honorEvents' = [c \in Booking |-> [w \in User |-> [k \in HonorReason |->
        honorEvents[c][w][k] + (IF c = b /\ <<w, k>> \in new THEN 1 ELSE 0)]]]
AppendRank(b, new) ==
    rankEvents' = [c \in Booking |-> [w \in User |->
        rankEvents[c][w] + (IF c = b /\ w \in new THEN 1 ELSE 0)]]
Enqueue(b, new) ==
    outbox' = [c \in Booking |-> [w \in User |-> [k \in NotificationType |->
        outbox[c][w][k] + (IF c = b /\ <<w, k>> \in new THEN 1 ELSE 0)]]]

-----------------------------------------------------------------------------
(* Requests.                                                               *)

\* create_booking up to the checks: the match is read, and is active.
BeginCreate(r, u, m) ==
    /\ u \in Parties[m]
    /\ match[m] = "active"
    /\ Begin(r, "create", [NoArguments EXCEPT !.user = u, !.match = m])
    /\ UNCHANGED rows

\* The INSERT, the notification to the partner and the commit.  The start may be
\* up to an hour past, so within 24 hours or not.
CommitCreate(r, b, isSoon) ==
    /\ pc[r] = "create"
    /\ booking[b].status = "none"
    /\ LET u == req[r].user
           v == CHOOSE w \in Parties[req[r].match] : w # u
       IN /\ booking' = [booking EXCEPT ![b] =
                 [status |-> "proposed", proposer |-> u, partner |-> v,
                  match |-> req[r].match]]
          /\ Enqueue(b, {<<v, "proposal_received">>})
    /\ soon' = IF isSoon THEN soon \cup {b} ELSE soon
    /\ End(r)
    /\ UNCHANGED <<match, honorEvents, rankEvents>>

\* Who may take a booking from one status to another.
_TRANSITIONS ==
    {<<"proposed", "confirmed", "partner">>, <<"proposed", "declined", "partner">>,
     <<"proposed", "cancelled", "proposer">>, <<"confirmed", "cancelled", "either">>,
     <<"confirmed", "completed", "either">>, <<"confirmed", "no_show", "either">>}

\* Fault: the check forgets which participant may confirm.
MayTransitionEither(b, to, u) ==
    \E who \in {"proposer", "partner", "either"} :
        <<booking[b].status, to, who>> \in _TRANSITIONS

MayTransition(b, to, u) ==
    \E who \in {"proposer", "partner", "either"} :
        /\ <<booking[b].status, to, who>> \in _TRANSITIONS
        /\ who = "proposer" => u = booking[b].proposer
        /\ who = "partner" => u = booking[b].partner

\* transition_booking up to _check_transition.
BeginTransition(r, u, b, to) ==
    /\ u \in Participants(b)
    /\ MayTransition(b, to, u)
    /\ Begin(r, "transition", [user |-> u, booking |-> b, match |-> Nobody,
                               from |-> booking[b].status, to |-> to])
    /\ UNCHANGED rows

\* Fault: the route writes its own name, no-show, for the status.
CommitTransitionMisspelt(r) ==
    /\ pc[r] = "transition"
    /\ LET b == req[r].booking
           u == req[r].user
           status == IF req[r].to = "no_show" THEN "no-show" ELSE req[r].to
       IN /\ booking' = [booking EXCEPT ![b].status = status]
          /\ AppendHonor(b, HonorRows(b, u, req[r].from, req[r].to))
          /\ AppendRank(b, RankRows(b, req[r].from, req[r].to))
          /\ Enqueue(b, Notifications(b, u, req[r].to))
    /\ End(r)
    /\ UNCHANGED <<match, soon>>

\* The rest of it: the new status, the ledger rows that go with the status it
\* read, the notifications, and the commit.
CommitTransition(r) ==
    /\ pc[r] = "transition"
    /\ LET b == req[r].booking
           u == req[r].user
       IN /\ booking' = [booking EXCEPT ![b].status = req[r].to]
          /\ AppendHonor(b, HonorRows(b, u, req[r].from, req[r].to))
          /\ AppendRank(b, RankRows(b, req[r].from, req[r].to))
          /\ Enqueue(b, Notifications(b, u, req[r].to))
    /\ End(r)
    /\ UNCHANGED <<match, soon>>

\* The request dies before its commit: the transaction is rolled back.
Abandon(r) ==
    /\ pc[r] # "idle"
    /\ End(r)
    /\ UNCHANGED rows

\* archive_match, by either user of the match.
ArchiveMatch(m) ==
    /\ match' = [match EXCEPT ![m] = "archived"]
    /\ UNCHANGED <<booking, soon, honorEvents, rankEvents, outbox, pc, req>>

\* The clock: the start of a booking comes within 24 hours.
DayBefore(b) ==
    /\ booking[b].status # "none"
    /\ soon' = soon \cup {b}
    /\ UNCHANGED <<match, booking, honorEvents, rankEvents, outbox, pc, req>>

-----------------------------------------------------------------------------
Init ==
    /\ match = [m \in Match |-> "active"]
    /\ booking = [b \in Booking |-> NoBooking]
    /\ soon = {}
    /\ honorEvents = [b \in Booking |-> [u \in User |-> [k \in HonorReason |-> 0]]]
    /\ rankEvents = [b \in Booking |-> [u \in User |-> 0]]
    /\ outbox = [b \in Booking |-> [u \in User |-> [k \in NotificationType |-> 0]]]
    /\ pc = [r \in Request |-> "idle"]
    /\ req = [r \in Request |-> NoArguments]

Next ==
    \/ \E r \in Request, u \in User, m \in Match : BeginCreate(r, u, m)
    \/ \E r \in Request, b \in Booking, s \in BOOLEAN : CommitCreate(r, b, s)
    \/ \E r \in Request, u \in User, b \in Booking, to \in BookingStatus :
           BeginTransition(r, u, b, to)
    \/ \E r \in Request : CommitTransition(r) \/ Abandon(r)
    \/ \E m \in Match : ArchiveMatch(m)
    \/ \E b \in Booking : DayBefore(b)

Spec == Init /\ [][Next]_vars

-----------------------------------------------------------------------------
(* Properties.                                                             *)

\* Every variable has its type.
TypeOK ==
    /\ match \in [Match -> {"active", "archived"}]
    /\ booking \in [Booking -> BookingRow]
    /\ soon \in SUBSET Booking
    /\ honorEvents \in [Booking -> [User -> [HonorReason -> Nat]]]
    /\ rankEvents \in [Booking -> [User -> Nat]]
    /\ outbox \in [Booking -> [User -> [NotificationType -> Nat]]]
    /\ pc \in [Request -> {"idle", "create", "transition"}]
    /\ req \in [Request -> Arguments]

HasReputation(b) ==
    \/ booking[b].status \in {"confirmed", "completed", "no_show"}
    \/ \E u \in User : rankEvents[b][u] > 0
    \/ \E u \in User, k \in HonorReason : honorEvents[b][u][k] > 0
    \/ \E u \in User : outbox[b][u]["reminder"] > 0

\* No reputation without consent.  A booking that is or was agreed - it is
\* confirmed, completed or a no-show, or it has written to a ledger or enqueued
\* a reminder - was confirmed by the partner, and the proposer has been told so,
\* however the requests on it overlapped.
ConsentBeforeReputation ==
    \A b \in Booking : HasReputation(b) =>
        \E u \in User : u = booking[b].proposer /\ outbox[b][u]["booking_confirmed"] > 0

\* A completed session counts for both.  Whatever overlaps, the two participants
\* of a booking have the same number of session_completed rows in both ledgers,
\* and nobody else has any.
CompletionShared ==
    \A b \in Booking, u, v \in User :
        /\ rankEvents[b][u] = honorEvents[b][u]["session_completed"]
        /\ Participants(b) = {u, v} => rankEvents[b][u] = rankEvents[b][v]
        /\ u \notin Participants(b) => rankEvents[b][u] = 0

\* A no-show claim is never free.  Every penalty of one participant for a
\* no-show is matched by the smaller penalty of the other one, who claimed it.
AccusationCosts ==
    \A b \in Booking, u, v \in User :
        Participants(b) = {u, v} /\ u # v =>
            honorEvents[b][u]["no_show_against_user"]
              = honorEvents[b][v]["no_show_marked_by_user"]

\* Both ledgers are balanced between the two who met, or did not: sessions are
\* counted for both, and no claim is free.
LedgersBalance ==
    /\ CompletionShared
    /\ AccusationCosts

\* Both participants of a confirmed booking that starts in more than a day have
\* their reminder enqueued, also when the confirmation raced another request.
RemindersScheduled ==
    \A b \in Booking : booking[b].status = "confirmed" /\ b \notin soon =>
        \A u \in Participants(b) : outbox[b][u]["reminder"] > 0

=============================================================================

--------------------------- MODULE BookingsProofs ---------------------------
(***************************************************************************)
(* Proofs about the two machines that MCMatching composes: Bookings, for   *)
(* every set of users, matches, bookings and concurrent requests; and      *)
(* Matching, for every set of accounts and sports and any number of taps   *)
(* in flight.                                                              *)
(***************************************************************************)
EXTENDS SerialBookings, Matching, FiniteSetTheorems, TLAPS

\* The participants of a booking never change, and are two users.
RowOK(b) ==
    \/ /\ booking[b] = NoBooking
       /\ \A u \in User : /\ rankEvents[b][u] = 0
                          /\ outbox[b][u]["reminder"] = 0
                          /\ \A k \in HonorReason : honorEvents[b][u][k] = 0
    \/ /\ booking[b].status # "none"
       /\ booking[b].proposer \in User
       /\ booking[b].partner \in User
       /\ booking[b].proposer # booking[b].partner

Agreed(b) ==
    \E u \in User : u = booking[b].proposer /\ outbox[b][u]["booking_confirmed"] > 0

\* What a request has read and checked stays true where it matters: its booking
\* exists, its user takes part, only the partner confirms, and what it saw as
\* confirmed had been confirmed.
RequestOK(r) ==
    /\ pc[r] = "create" =>
           req[r].match \in Match /\ req[r].user \in Parties[req[r].match]
    /\ pc[r] = "transition" =>
           LET b == req[r].booking
           IN /\ b \in Booking
              /\ booking[b].status # "none"
              /\ req[r].user \in Participants(b)
              /\ req[r].to # "none"
              /\ req[r].to = "confirmed" => req[r].user = booking[b].partner
              /\ req[r].to \in {"completed", "no_show"} => req[r].from = "confirmed"
              /\ req[r].from = "confirmed" => Agreed(b)

IInv ==
    /\ TypeOK
    /\ \A b \in Booking : RowOK(b)
    /\ \A r \in Request : RequestOK(r)
    /\ ConsentBeforeReputation
    /\ CompletionShared
    /\ AccusationCosts
    /\ RemindersScheduled

-----------------------------------------------------------------------------
(* What the helpers append.                                                *)

\* Membership in the rows a transition appends, written out.
LEMMA AppendedRows ==
    ASSUME NEW b \in Booking, NEW u \in User, NEW from, NEW to,
           NEW w \in User, NEW k \in HonorReason
    PROVE  <<w, k>> \in HonorRows(b, u, from, to) <=>
               /\ from = "confirmed"
               /\ \/ to = "completed" /\ w \in Participants(b) /\ k = "session_completed"
                  \/ to = "no_show" /\ w = Other(b, u) /\ k = "no_show_against_user"
                  \/ to = "no_show" /\ w = u /\ k = "no_show_marked_by_user"
                  \/ to = "cancelled" /\ w = u /\ k = "late_cancellation"
  BY DEF HonorRows

\* And in the notifications it enqueues.
LEMMA EnqueuedRows ==
    ASSUME NEW b \in Booking, NEW u \in User, NEW to,
           NEW w \in User, NEW k \in NotificationType
    PROVE  <<w, k>> \in Notifications(b, u, to) <=>
               \/ w = Other(b, u) /\ k = NotificationFor(to)
               \/ to = "confirmed" /\ b \notin soon /\ w \in Participants(b) /\ k = "reminder"
  BY DEF Notifications

\* A ledger grows by one row where a row is appended, and nowhere else.
LEMMA HonorAppended ==
    ASSUME TypeOK, NEW b, NEW new, AppendHonor(b, new),
           NEW c \in Booking, NEW w \in User, NEW k \in HonorReason
    PROVE  /\ honorEvents[c][w][k] \in Nat /\ honorEvents'[c][w][k] \in Nat
           /\ c = b /\ <<w, k>> \in new => honorEvents'[c][w][k] = honorEvents[c][w][k] + 1
           /\ ~(c = b /\ <<w, k>> \in new) => honorEvents'[c][w][k] = honorEvents[c][w][k]
  <1>1. honorEvents[c][w][k] \in Nat
    BY DEF TypeOK
  <1>2. honorEvents'[c][w][k] =
            honorEvents[c][w][k] + (IF c = b /\ <<w, k>> \in new THEN 1 ELSE 0)
    BY DEF AppendHonor
  <1>3. CASE c = b /\ <<w, k>> \in new
    BY <1>1, <1>2, <1>3
  <1>4. CASE ~(c = b /\ <<w, k>> \in new)
    BY <1>1, <1>2, <1>4
  <1> QED
    BY <1>1, <1>3, <1>4

\* The same for rank_events.
LEMMA RankAppended ==
    ASSUME TypeOK, NEW b, NEW new, AppendRank(b, new), NEW c \in Booking, NEW w \in User
    PROVE  /\ rankEvents[c][w] \in Nat /\ rankEvents'[c][w] \in Nat
           /\ c = b /\ w \in new => rankEvents'[c][w] = rankEvents[c][w] + 1
           /\ ~(c = b /\ w \in new) => rankEvents'[c][w] = rankEvents[c][w]
  <1>1. rankEvents[c][w] \in Nat
    BY DEF TypeOK
  <1>2. rankEvents'[c][w] = rankEvents[c][w] + (IF c = b /\ w \in new THEN 1 ELSE 0)
    BY DEF AppendRank
  <1>3. CASE c = b /\ w \in new
    BY <1>1, <1>2, <1>3
  <1>4. CASE ~(c = b /\ w \in new)
    BY <1>1, <1>2, <1>4
  <1> QED
    BY <1>1, <1>3, <1>4

\* The same for notification_events.
LEMMA NotificationsEnqueued ==
    ASSUME TypeOK, NEW b, NEW new, Enqueue(b, new),
           NEW c \in Booking, NEW w \in User, NEW k \in NotificationType
    PROVE  /\ outbox[c][w][k] \in Nat /\ outbox'[c][w][k] \in Nat
           /\ c = b /\ <<w, k>> \in new => outbox'[c][w][k] = outbox[c][w][k] + 1
           /\ ~(c = b /\ <<w, k>> \in new) => outbox'[c][w][k] = outbox[c][w][k]
  <1>1. outbox[c][w][k] \in Nat
    BY DEF TypeOK
  <1>2. outbox'[c][w][k] =
            outbox[c][w][k] + (IF c = b /\ <<w, k>> \in new THEN 1 ELSE 0)
    BY DEF Enqueue
  <1>3. CASE c = b /\ <<w, k>> \in new
    BY <1>1, <1>2, <1>3
  <1>4. CASE ~(c = b /\ <<w, k>> \in new)
    BY <1>1, <1>2, <1>4
  <1> QED
    BY <1>1, <1>3, <1>4

\* A request that ends or begins keeps the type of the request variables.
LEMMA RequestTypes ==
    ASSUME TypeOK, NEW r \in Request,
           \/ End(r)
           \/ \E args \in Arguments, label \in {"create", "transition"} : Begin(r, label, args)
    PROVE  pc' \in [Request -> {"idle", "create", "transition"}] /\ req' \in [Request -> Arguments]
  <1>1. NoArguments \in Arguments
    BY DEF NoArguments, Arguments, BookingStatus
  <1> QED
    BY <1>1 DEF TypeOK, End, Begin

-----------------------------------------------------------------------------
(* A step that changes no row.                                             *)

\* The invariants of the rows depend on the rows alone.
LEMMA RowFrame ==
    ASSUME IInv, UNCHANGED <<booking, soon, honorEvents, rankEvents, outbox>>
    PROVE  /\ \A b \in Booking : RowOK(b)' /\ (Agreed(b)' <=> Agreed(b))
           /\ ConsentBeforeReputation'
           /\ CompletionShared'
           /\ AccusationCosts'
           /\ RemindersScheduled'
  <1>1. \A b \in Booking : RowOK(b)' /\ (Agreed(b)' <=> Agreed(b))
    BY DEF IInv, RowOK, Agreed
  <1>2. ConsentBeforeReputation'
    BY DEF IInv, ConsentBeforeReputation, HasReputation
  <1>3. CompletionShared'
    BY DEF IInv, CompletionShared, Participants
  <1>4. AccusationCosts'
    BY DEF IInv, AccusationCosts, Participants
  <1>5. RemindersScheduled'
    BY DEF IInv, RemindersScheduled, Participants
  <1> QED
    BY <1>1, <1>2, <1>3, <1>4, <1>5

\* A request that has ended promises nothing, and the others promise what they did.
LEMMA EndFrame ==
    ASSUME IInv, NEW r \in Request, End(r),
           \A b \in Booking : /\ booking[b].status # "none" =>
                                     /\ booking'[b].status # "none"
                                     /\ booking'[b].proposer = booking[b].proposer
                                     /\ booking'[b].partner = booking[b].partner
                              /\ Agreed(b) => Agreed(b)'
    PROVE  \A s \in Request : RequestOK(s)'
  <1> TAKE s \in Request
  <1>1. CASE s = r
    BY <1>1 DEF End, RequestOK, IInv, TypeOK
  <1>2. CASE s # r
    <2>1. pc'[s] = pc[s] /\ req'[s] = req[s]
      BY <1>2 DEF End, IInv, TypeOK
    <2>2. RequestOK(s)
      BY DEF IInv
    <2> QED
      BY <2>1, <2>2 DEF RequestOK, Participants
  <1> QED
    BY <1>1, <1>2

-----------------------------------------------------------------------------
(* The steps that write rows.                                              *)

\* create_booking fills an unused identity; its ledgers are empty.
LEMMA CreateStep ==
    ASSUME IInv, NEW r \in Request, NEW b \in Booking, NEW s \in BOOLEAN,
           CommitCreate(r, b, s)
    PROVE  IInv'
  <1> SUFFICES ASSUME NEW u, u = req[r].user, NEW m, m = req[r].match,
                      NEW v, v = CHOOSE w \in Parties[m] : w # u
               PROVE  IInv'
    OBVIOUS
  <1>1. m \in Match /\ u \in Parties[m]
    BY DEF CommitCreate, IInv, RequestOK
  <1>2. u \in User /\ v \in User /\ u # v
    BY <1>1, PartiesAssumption
  <1>3. /\ booking' = [booking EXCEPT ![b] =
                [status |-> "proposed", proposer |-> u, partner |-> v, match |-> m]]
        /\ Enqueue(b, {<<v, "proposal_received">>})
        /\ soon' = IF s THEN soon \cup {b} ELSE soon
        /\ UNCHANGED <<match, honorEvents, rankEvents>>
        /\ End(r)
    BY DEF CommitCreate
  <1>4. booking[b] = NoBooking /\ booking[b].status = "none"
    BY DEF CommitCreate, IInv, RowOK
  <1>5. \A c \in Booking, w \in User, k \in NotificationType :
            /\ outbox'[c][w][k] \in Nat
            /\ k # "proposal_received" => outbox'[c][w][k] = outbox[c][w][k]
            /\ outbox[c][w][k] > 0 => outbox'[c][w][k] > 0
    BY <1>3 DEF Enqueue, IInv, TypeOK
  <1>6. \A w \in User : /\ rankEvents[b][w] = 0
                        /\ outbox[b][w]["reminder"] = 0
                        /\ \A k \in HonorReason : honorEvents[b][w][k] = 0
    BY <1>4 DEF IInv, RowOK, NoBooking
  <1>7. \A c \in Booking : c # b => booking'[c] = booking[c]
    BY <1>3 DEF IInv, TypeOK
  <1>8. booking'[b] = [status |-> "proposed", proposer |-> u, partner |-> v, match |-> m]
    BY <1>3 DEF IInv, TypeOK
  <1>9. "booking_confirmed" \in NotificationType /\ "reminder" \in NotificationType
    BY DEF NotificationType
  <1>10. TypeOK'
    <2>1. booking' \in [Booking -> BookingRow]
      BY <1>1, <1>2, <1>3 DEF IInv, TypeOK, BookingRow, BookingStatus
    <2>2. outbox' \in [Booking -> [User -> [NotificationType -> Nat]]]
      BY <1>3 DEF Enqueue, IInv, TypeOK
    <2> QED
      BY <2>1, <2>2, <1>3, RequestTypes DEF IInv, TypeOK
  <1>11. \A c \in Booking : RowOK(c)'
    BY <1>2, <1>3, <1>5, <1>7, <1>8, <1>9 DEF RowOK, IInv
  <1>12. \A c \in Booking : Agreed(c) => (c # b /\ Agreed(c)') \/ c = b
    BY <1>5, <1>7, <1>9 DEF Agreed
  <1>13. \A q \in Request : RequestOK(q)'
    <2> TAKE q \in Request
    <2>1. CASE q = r
      BY <2>1, <1>3 DEF End, RequestOK, IInv, TypeOK
    <2>2. CASE q # r
      <3>1. pc'[q] = pc[q] /\ req'[q] = req[q] /\ RequestOK(q)
        BY <2>2, <1>3 DEF End, IInv, TypeOK
      <3> QED
        BY <3>1, <1>4, <1>7, <1>12 DEF RequestOK, Participants
    <2> QED
      BY <2>1, <2>2
  <1>14. ConsentBeforeReputation'
    <2> SUFFICES ASSUME NEW c \in Booking, HasReputation(c)'
                 PROVE  Agreed(c)'
      BY DEF ConsentBeforeReputation, Agreed
    <2>1. c # b
      BY <1>3, <1>5, <1>6, <1>8, <1>9 DEF HasReputation
    <2>2. HasReputation(c)
      BY <2>1, <1>3, <1>5, <1>7, <1>9 DEF HasReputation
    <2> QED
      BY <2>1, <2>2, <1>12 DEF IInv, ConsentBeforeReputation, Agreed
  <1>15. CompletionShared'
    <2> SUFFICES ASSUME NEW c \in Booking, NEW w \in User, NEW x \in User
                 PROVE  /\ rankEvents[c][w] = honorEvents[c][w]["session_completed"]
                        /\ Participants(c)' = {w, x} => rankEvents[c][w] = rankEvents[c][x]
                        /\ w \notin Participants(c)' => rankEvents[c][w] = 0
      BY <1>3 DEF CompletionShared, Participants
    <2>1. CASE c = b
      BY <2>1, <1>6 DEF HonorReason
    <2>2. CASE c # b
      BY <2>2, <1>7 DEF IInv, CompletionShared, Participants
    <2> QED
      BY <2>1, <2>2
  <1>16. AccusationCosts'
    <2> SUFFICES ASSUME NEW c \in Booking, NEW w \in User, NEW x \in User,
                        Participants(c)' = {w, x}, w # x
                 PROVE  honorEvents[c][w]["no_show_against_user"]
                          = honorEvents[c][x]["no_show_marked_by_user"]
      BY <1>3 DEF AccusationCosts, Participants
    <2>1. CASE c = b
      BY <2>1, <1>6 DEF HonorReason
    <2>2. CASE c # b
      BY <2>2, <1>7 DEF IInv, AccusationCosts, Participants
    <2> QED
      BY <2>1, <2>2
  <1>17. RemindersScheduled'
    BY <1>3, <1>5, <1>7, <1>8, <1>9 DEF IInv, RemindersScheduled, Participants, RowOK, NoBooking
  <1> QED
    BY <1>10, <1>11, <1>13, <1>14, <1>15, <1>16, <1>17 DEF IInv

\* transition_booking writes the status, the ledgers and the outbox of one
\* booking.  The rows it adds are those of the status it read, which its booking
\* may have left since: what makes them sound is RequestOK.
LEMMA TransitionStep ==
    ASSUME IInv, NEW r \in Request, CommitTransition(r)
    PROVE  IInv'
  <1> SUFFICES ASSUME NEW b, b = req[r].booking, NEW u, u = req[r].user,
                      NEW from, from = req[r].from, NEW to, to = req[r].to
               PROVE  IInv'
    OBVIOUS
  <1>1. /\ b \in Booking /\ booking[b].status # "none" /\ u \in Participants(b)
        /\ to # "none" /\ to \in BookingStatus
        /\ to = "confirmed" => u = booking[b].partner
        /\ to \in {"completed", "no_show"} => from = "confirmed"
        /\ from = "confirmed" => Agreed(b)
    BY DEF CommitTransition, IInv, RequestOK, TypeOK, Arguments
  <1>2. /\ booking[b].proposer \in User /\ booking[b].partner \in User
        /\ booking[b].proposer # booking[b].partner
        /\ u \in User /\ Other(b, u) \in User /\ Other(b, u) # u
        /\ Participants(b) = {u, Other(b, u)}
    BY <1>1 DEF IInv, RowOK, NoBooking, Participants, Other
  <1>3. /\ booking' = [booking EXCEPT ![b].status = to]
        /\ AppendHonor(b, HonorRows(b, u, from, to))
        /\ AppendRank(b, RankRows(b, from, to))
        /\ Enqueue(b, Notifications(b, u, to))
        /\ UNCHANGED <<match, soon>>
        /\ End(r)
    BY DEF CommitTransition
  <1>4. \A c \in Booking :
            /\ c # b => booking'[c] = booking[c]
            /\ booking'[c].proposer = booking[c].proposer
            /\ booking'[c].partner = booking[c].partner
    BY <1>1, <1>3 DEF IInv, TypeOK, BookingRow
  <1>5. booking'[b].status = to
    BY <1>1, <1>3 DEF IInv, TypeOK, BookingRow
  <1>6. \A c \in Booking, w \in User, k \in HonorReason :
            /\ honorEvents[c][w][k] \in Nat /\ honorEvents'[c][w][k] \in Nat
            /\ c = b /\ <<w, k>> \in HonorRows(b, u, from, to) =>
                   honorEvents'[c][w][k] = honorEvents[c][w][k] + 1
            /\ ~(c = b /\ <<w, k>> \in HonorRows(b, u, from, to)) =>
                   honorEvents'[c][w][k] = honorEvents[c][w][k]
    <2> TAKE c \in Booking, w \in User, k \in HonorReason
    <2>1. TypeOK /\ AppendHonor(b, HonorRows(b, u, from, to))
      BY <1>3 DEF IInv
    <2> QED
      BY <2>1, HonorAppended
  <1>7. \A c \in Booking, w \in User :
            /\ rankEvents[c][w] \in Nat /\ rankEvents'[c][w] \in Nat
            /\ c = b /\ w \in RankRows(b, from, to) =>
                   rankEvents'[c][w] = rankEvents[c][w] + 1
            /\ ~(c = b /\ w \in RankRows(b, from, to)) =>
                   rankEvents'[c][w] = rankEvents[c][w]
    BY <1>3, RankAppended DEF IInv
  <1>8. \A c \in Booking, w \in User, k \in NotificationType :
            /\ outbox[c][w][k] \in Nat /\ outbox'[c][w][k] \in Nat
            /\ c = b /\ <<w, k>> \in Notifications(b, u, to) =>
                   outbox'[c][w][k] = outbox[c][w][k] + 1
            /\ ~(c = b /\ <<w, k>> \in Notifications(b, u, to)) =>
                   outbox'[c][w][k] = outbox[c][w][k]
    <2> TAKE c \in Booking, w \in User, k \in NotificationType
    <2>1. TypeOK /\ Enqueue(b, Notifications(b, u, to))
      BY <1>3 DEF IInv
    <2> QED
      BY <2>1, NotificationsEnqueued
  <1>9. TypeOK'
    <2>1. booking' \in [Booking -> BookingRow]
      <3>1. booking \in [Booking -> BookingRow]
        BY DEF IInv, TypeOK
      <3>2. [booking[b] EXCEPT !.status = to] \in BookingRow
        BY <3>1, <1>1 DEF BookingRow
      <3> QED
        BY <3>1, <3>2, <1>1, <1>3
    <2>2. honorEvents' \in [Booking -> [User -> [HonorReason -> Nat]]]
      BY <1>3 DEF AppendHonor, IInv, TypeOK
    <2>3. rankEvents' \in [Booking -> [User -> Nat]]
      BY <1>3 DEF AppendRank, IInv, TypeOK
    <2>4. outbox' \in [Booking -> [User -> [NotificationType -> Nat]]]
      BY <1>3 DEF Enqueue, IInv, TypeOK
    <2> QED
      BY <2>1, <2>2, <2>3, <2>4, <1>3, RequestTypes DEF IInv, TypeOK
  <1>10. \A c \in Booking : RowOK(c)'
    <2> TAKE c \in Booking
    <2>1. CASE c = b
      BY <2>1, <1>1, <1>2, <1>4, <1>5 DEF RowOK
    <2>2. CASE c # b
      <3>1. RowOK(c)
        BY DEF IInv
      <3>2. "reminder" \in NotificationType
        BY DEF NotificationType
      <3>3. \A w \in User : rankEvents'[c][w] = rankEvents[c][w]
        BY <2>2, <1>7
      <3>4. \A w \in User, k \in HonorReason : honorEvents'[c][w][k] = honorEvents[c][w][k]
        BY <2>2, <1>6
      <3>5. \A w \in User : outbox'[c][w]["reminder"] = outbox[c][w]["reminder"]
        BY <2>2, <3>2, <1>8
      <3> QED
        BY <2>2, <3>1, <3>3, <3>4, <3>5, <1>4 DEF RowOK
    <2> QED
      BY <2>1, <2>2
  <1>11. \A c \in Booking : Agreed(c) => Agreed(c)'
    <2> SUFFICES ASSUME NEW c \in Booking, NEW w \in User,
                        w = booking[c].proposer, outbox[c][w]["booking_confirmed"] > 0
                 PROVE  outbox'[c][w]["booking_confirmed"] > 0
      BY <1>4 DEF Agreed
    <2>1. "booking_confirmed" \in NotificationType
      BY DEF NotificationType
    <2>2. /\ outbox[c][w]["booking_confirmed"] \in Nat
          /\ \/ outbox'[c][w]["booking_confirmed"] = outbox[c][w]["booking_confirmed"]
             \/ outbox'[c][w]["booking_confirmed"] = outbox[c][w]["booking_confirmed"] + 1
      BY <2>1, <1>8
    <2> QED
      BY <2>2
  <1>12. \A q \in Request : RequestOK(q)'
    BY <1>1, <1>3, <1>4, <1>5, <1>11, EndFrame
  <1>13. ConsentBeforeReputation'
    <2> SUFFICES ASSUME NEW c \in Booking, HasReputation(c)'
                 PROVE  Agreed(c)'
      BY DEF ConsentBeforeReputation, Agreed
    <2>1. CASE HasReputation(c)
      BY <2>1, <1>11 DEF IInv, ConsentBeforeReputation, Agreed
    <2>2. CASE ~HasReputation(c)
      <3>1. c = b
        <4>1. "reminder" \in NotificationType
          BY DEF NotificationType
        <4>2. ASSUME c # b PROVE FALSE
          <5>1. booking'[c] = booking[c]
            BY <4>2, <1>4
          <5>2. \A w \in User : rankEvents'[c][w] = rankEvents[c][w]
            BY <4>2, <1>7
          <5>3. \A w \in User, k \in HonorReason : honorEvents'[c][w][k] = honorEvents[c][w][k]
            BY <4>2, <1>6
          <5>4. \A w \in User : outbox'[c][w]["reminder"] = outbox[c][w]["reminder"]
            BY <4>1, <4>2, <1>8
          <5> QED
            BY <2>2, <5>1, <5>2, <5>3, <5>4 DEF HasReputation
        <4> QED
          BY <4>2
      <3>2. CASE from = "confirmed"
        BY <3>1, <3>2, <1>1, <1>11
      <3>3. CASE to = "confirmed"
        <4>1. Other(b, u) = booking[b].proposer
          BY <3>3, <1>1, <1>2 DEF Other
        <4> SUFFICES ASSUME NEW w \in User, w = booking[b].proposer
                     PROVE  outbox'[b][w]["booking_confirmed"] > 0
          BY <3>1, <1>2, <1>4 DEF Agreed
        <4>2. "booking_confirmed" \in NotificationType
          BY DEF NotificationType
        <4>3. NotificationFor(to) = "booking_confirmed"
          BY <3>3 DEF NotificationFor
        <4>4. <<w, "booking_confirmed">> \in Notifications(b, u, to)
          BY <4>1, <4>2, <4>3, <1>1, <1>2, EnqueuedRows
        <4>5. /\ outbox[b][w]["booking_confirmed"] \in Nat
              /\ outbox'[b][w]["booking_confirmed"] = outbox[b][w]["booking_confirmed"] + 1
          BY <4>2, <4>4, <1>1, <1>8
        <4> QED
          BY <4>5
      <3>4. CASE from # "confirmed" /\ to # "confirmed"
        <4>1. \A w \in User, k \in HonorReason : honorEvents'[b][w][k] = honorEvents[b][w][k]
          <5> TAKE w \in User, k \in HonorReason
          <5>1. <<w, k>> \notin HonorRows(b, u, from, to)
            BY <3>4, <1>1, <1>2, AppendedRows
          <5> QED
            BY <5>1, <1>1, <1>6
        <4>2. \A w \in User : rankEvents'[b][w] = rankEvents[b][w]
          BY <3>4, <1>1, <1>7 DEF RankRows
        <4>3. \A w \in User : outbox'[b][w]["reminder"] = outbox[b][w]["reminder"]
          <5> TAKE w \in User
          <5>1. "reminder" \in NotificationType
            BY DEF NotificationType
          <5>2. NotificationFor(to) # "reminder"
            BY DEF NotificationFor
          <5>3. <<w, "reminder">> \notin Notifications(b, u, to)
            BY <3>4, <5>1, <5>2, <1>1, <1>2, EnqueuedRows
          <5> QED
            BY <5>1, <5>3, <1>1, <1>8
        <4>4. booking'[b].status \notin {"confirmed", "completed", "no_show"}
          BY <3>4, <1>1, <1>5
        <4> QED
          BY <2>2, <3>1, <4>1, <4>2, <4>3, <4>4 DEF HasReputation
      <3> QED
        BY <3>2, <3>3, <3>4
    <2> QED
      BY <2>1, <2>2
  <1>14. CompletionShared'
    <2> SUFFICES ASSUME NEW c \in Booking, NEW w \in User, NEW x \in User
                 PROVE  /\ rankEvents'[c][w] = honorEvents'[c][w]["session_completed"]
                        /\ Participants(c)' = {w, x} => rankEvents'[c][w] = rankEvents'[c][x]
                        /\ w \notin Participants(c)' => rankEvents'[c][w] = 0
      BY DEF CompletionShared, Participants
    <2>1. "session_completed" \in HonorReason
      BY DEF HonorReason
    <2>2. Participants(c)' = Participants(c)
      BY <1>4 DEF Participants
    <2>3. /\ rankEvents[c][w] = honorEvents[c][w]["session_completed"]
          /\ Participants(c) = {w, x} => rankEvents[c][w] = rankEvents[c][x]
          /\ w \notin Participants(c) => rankEvents[c][w] = 0
      BY DEF IInv, CompletionShared
    <2>4. CASE c # b
      BY <2>1, <2>2, <2>3, <2>4, <1>6, <1>7
    <2>5. CASE c = b
      <3>1. \A y \in User : <<y, "session_completed">> \in HonorRows(b, u, from, to)
                                <=> y \in RankRows(b, from, to)
        BY <2>1, <1>1, <1>2, AppendedRows DEF RankRows
      <3>2. \A y \in User : y \in RankRows(b, from, to)
                                => y \in Participants(b)
        BY DEF RankRows
      <3>3. \A y \in User : y \in RankRows(b, from, to) =>
                Participants(b) \cap User \subseteq RankRows(b, from, to)
        BY DEF RankRows
      <3>4. rankEvents'[c][w] = honorEvents'[c][w]["session_completed"]
        <4>1. /\ honorEvents[b][w]["session_completed"] \in Nat
              /\ w \in RankRows(b, from, to) =>
                     honorEvents'[b][w]["session_completed"]
                       = honorEvents[b][w]["session_completed"] + 1
              /\ w \notin RankRows(b, from, to) =>
                     honorEvents'[b][w]["session_completed"]
                       = honorEvents[b][w]["session_completed"]
          BY <2>1, <3>1, <1>1, <1>6
        <4>2. /\ w \in RankRows(b, from, to) => rankEvents'[b][w] = rankEvents[b][w] + 1
              /\ w \notin RankRows(b, from, to) => rankEvents'[b][w] = rankEvents[b][w]
          BY <1>1, <1>7
        <4> QED
          BY <4>1, <4>2, <2>3, <2>5
      <3>5. Participants(c) = {w, x} => rankEvents'[c][w] = rankEvents'[c][x]
        BY <2>3, <2>5, <3>2, <3>3, <1>7
      <3>6. w \notin Participants(c) => rankEvents'[c][w] = 0
        BY <2>3, <2>5, <3>2, <1>7
      <3> QED
        BY <2>2, <3>4, <3>5, <3>6
    <2> QED
      BY <2>4, <2>5
  <1>15. AccusationCosts'
    <2> SUFFICES ASSUME NEW c \in Booking, NEW w \in User, NEW x \in User,
                        Participants(c)' = {w, x}, w # x
                 PROVE  honorEvents'[c][w]["no_show_against_user"]
                          = honorEvents'[c][x]["no_show_marked_by_user"]
      BY DEF AccusationCosts, Participants
    <2>1. "no_show_against_user" \in HonorReason /\ "no_show_marked_by_user" \in HonorReason
      BY DEF HonorReason
    <2>2. Participants(c) = {w, x}
      BY <1>4 DEF Participants
    <2>3. honorEvents[c][w]["no_show_against_user"]
            = honorEvents[c][x]["no_show_marked_by_user"]
      BY <2>2 DEF IInv, AccusationCosts
    <2>4. CASE c # b
      BY <2>1, <2>3, <2>4, <1>6
    <2>5. CASE c = b
      <3>1. <<w, "no_show_against_user">> \in HonorRows(b, u, from, to)
              <=> <<x, "no_show_marked_by_user">> \in HonorRows(b, u, from, to)
        BY <2>1, <2>2, <2>5, <1>1, <1>2, AppendedRows
      <3>2. /\ <<w, "no_show_against_user">> \in HonorRows(b, u, from, to) =>
                  honorEvents'[b][w]["no_show_against_user"]
                    = honorEvents[b][w]["no_show_against_user"] + 1
            /\ <<w, "no_show_against_user">> \notin HonorRows(b, u, from, to) =>
                  honorEvents'[b][w]["no_show_against_user"]
                    = honorEvents[b][w]["no_show_against_user"]
        BY <2>1, <1>1, <1>6
      <3>3. /\ <<x, "no_show_marked_by_user">> \in HonorRows(b, u, from, to) =>
                  honorEvents'[b][x]["no_show_marked_by_user"]
                    = honorEvents[b][x]["no_show_marked_by_user"] + 1
            /\ <<x, "no_show_marked_by_user">> \notin HonorRows(b, u, from, to) =>
                  honorEvents'[b][x]["no_show_marked_by_user"]
                    = honorEvents[b][x]["no_show_marked_by_user"]
        BY <2>1, <1>1, <1>6
      <3> QED
        BY <2>3, <2>5, <3>1, <3>2, <3>3
    <2> QED
      BY <2>4, <2>5
  <1>16. RemindersScheduled'
    <2> SUFFICES ASSUME NEW c \in Booking, booking'[c].status = "confirmed", c \notin soon,
                        NEW w \in Participants(c)
                 PROVE  outbox'[c][w]["reminder"] > 0
      BY <1>3, <1>4 DEF RemindersScheduled, Participants
    <2>1. "reminder" \in NotificationType
      BY DEF NotificationType
    <2>2. CASE c # b
      <3>1. booking[c].status = "confirmed" /\ outbox[c][w]["reminder"] > 0
        BY <2>2, <1>4 DEF IInv, RemindersScheduled
      <3>2. w \in User
        BY <3>1 DEF IInv, RowOK, NoBooking, Participants
      <3>3. /\ outbox[c][w]["reminder"] \in Nat
            /\ outbox'[c][w]["reminder"] = outbox[c][w]["reminder"]
        BY <2>1, <2>2, <3>2, <1>8
      <3> QED
        BY <3>1, <3>3
    <2>3. CASE c = b
      <3>1. w \in User
        BY <2>3, <1>2
      <3>2. <<w, "reminder">> \in Notifications(b, u, to)
        BY <3>1, <2>1, <2>3, <1>1, <1>2, <1>5, EnqueuedRows
      <3>3. /\ outbox[b][w]["reminder"] \in Nat
            /\ outbox'[b][w]["reminder"] = outbox[b][w]["reminder"] + 1
        BY <2>1, <3>1, <3>2, <1>1, <1>8
      <3> QED
        BY <2>3, <3>3
    <2> QED
      BY <2>2, <2>3
  <1> QED
    BY <1>9, <1>10, <1>12, <1>13, <1>14, <1>15, <1>16 DEF IInv

-----------------------------------------------------------------------------
(* The steps that write no ledger, and the theorems.                       *)

\* A request that begins has just read what RequestOK says of its booking.
LEMMA BeginStep ==
    ASSUME IInv, NEW r \in Request, NEW u \in User,
           \/ \E m \in Match : BeginCreate(r, u, m)
           \/ \E b \in Booking, to \in BookingStatus : BeginTransition(r, u, b, to)
    PROVE  IInv'
  <1>1. UNCHANGED rows
    BY DEF BeginCreate, BeginTransition
  <1>2. /\ \A b \in Booking : RowOK(b)' /\ (Agreed(b)' <=> Agreed(b))
        /\ ConsentBeforeReputation' /\ CompletionShared' /\ AccusationCosts'
        /\ RemindersScheduled'
    BY <1>1, RowFrame DEF rows
  <1>3. \A s \in Request : s # r => RequestOK(s)'
    <2> TAKE s \in Request
    <2> HAVE s # r
    <2>1. pc'[s] = pc[s] /\ req'[s] = req[s] /\ RequestOK(s)
      BY DEF BeginCreate, BeginTransition, Begin, IInv, TypeOK
    <2> QED
      BY <2>1, <1>1, <1>2 DEF RequestOK, Participants, rows
  <1>4. TypeOK' /\ RequestOK(r)'
    <2>1. CASE \E m \in Match : BeginCreate(r, u, m)
      <3>1. PICK m \in Match : BeginCreate(r, u, m)
        BY <2>1
      <3>2. [NoArguments EXCEPT !.user = u, !.match = m] \in Arguments
        BY DEF NoArguments, Arguments, BookingStatus
      <3>3. TypeOK'
        BY <3>1, <3>2, <1>1 DEF BeginCreate, Begin, IInv, TypeOK, rows
      <3>4. pc'[r] = "create" /\ req'[r].user = u /\ req'[r].match = m
        BY <3>1 DEF BeginCreate, Begin, IInv, TypeOK, NoArguments
      <3> QED
        BY <3>1, <3>3, <3>4 DEF BeginCreate, RequestOK
    <2>2. CASE \E b \in Booking, to \in BookingStatus : BeginTransition(r, u, b, to)
      <3>1. PICK b \in Booking, to \in BookingStatus : BeginTransition(r, u, b, to)
        BY <2>2
      <3> DEFINE args == [user |-> u, booking |-> b, match |-> Nobody,
                          from |-> booking[b].status, to |-> to]
      <3>2. booking[b].status \in BookingStatus
        BY DEF IInv, TypeOK, BookingRow
      <3>3. args \in Arguments
        BY <3>2 DEF Arguments
      <3>4. TypeOK'
        BY <3>1, <3>3, <1>1 DEF BeginTransition, Begin, IInv, TypeOK, rows
      <3>5. pc'[r] = "transition" /\ req'[r] = args
        BY <3>1 DEF BeginTransition, Begin, IInv, TypeOK
      <3>6. /\ booking[b].status # "none" /\ u \in Participants(b) /\ to # "none"
            /\ to = "confirmed" => u = booking[b].partner
            /\ to \in {"completed", "no_show"} => booking[b].status = "confirmed"
        BY <3>1 DEF BeginTransition, MayTransition, _TRANSITIONS
      <3>7. booking[b].status = "confirmed" => Agreed(b)
        BY DEF IInv, ConsentBeforeReputation, HasReputation, Agreed
      <3> QED
        BY <3>4, <3>5, <3>6, <3>7, <1>1, <1>2 DEF RequestOK, Participants, rows
    <2> QED
      BY <2>1, <2>2
  <1> QED
    BY <1>2, <1>3, <1>4 DEF IInv

\* A rollback forgets a request.
LEMMA AbandonStep ==
    ASSUME IInv, NEW r \in Request, Abandon(r)
    PROVE  IInv'
  <1>1. End(r) /\ UNCHANGED rows
    BY DEF Abandon
  <1>2. TypeOK'
    BY <1>1, RequestTypes DEF IInv, TypeOK, rows
  <1>3. \A s \in Request : RequestOK(s)'
    BY <1>1, RowFrame, EndFrame DEF rows
  <1> QED
    BY <1>1, <1>2, <1>3, RowFrame DEF IInv, rows

\* Archiving a match touches no booking.
LEMMA ArchiveStep ==
    ASSUME IInv, NEW m \in Match, ArchiveMatch(m)
    PROVE  IInv'
  <1>1. UNCHANGED <<booking, soon, honorEvents, rankEvents, outbox, pc, req>>
    BY DEF ArchiveMatch
  <1>2. TypeOK'
    BY <1>1 DEF ArchiveMatch, IInv, TypeOK
  <1>3. \A r \in Request : RequestOK(r)'
    BY <1>1, RowFrame DEF IInv, RequestOK, Participants
  <1> QED
    BY <1>1, <1>2, <1>3, RowFrame DEF IInv

\* The clock only ends the time in which a reminder is owed.
LEMMA DayBeforeStep ==
    ASSUME IInv, NEW b \in Booking, DayBefore(b)
    PROVE  IInv'
  <1>1. UNCHANGED <<match, booking, honorEvents, rankEvents, outbox, pc, req>>
    BY DEF DayBefore
  <1>2. soon' = soon \cup {b}
    BY DEF DayBefore
  <1>3. TypeOK'
    BY <1>1, <1>2 DEF IInv, TypeOK
  <1>4. \A c \in Booking : RowOK(c)' /\ (Agreed(c)' <=> Agreed(c))
    BY <1>1 DEF IInv, RowOK, Agreed
  <1>5. \A r \in Request : RequestOK(r)'
    BY <1>1, <1>4 DEF IInv, RequestOK, Participants
  <1>6. ConsentBeforeReputation'
    BY <1>1 DEF IInv, ConsentBeforeReputation, HasReputation
  <1>7. CompletionShared' /\ AccusationCosts'
    <2>1. CompletionShared'
      BY <1>1 DEF IInv, CompletionShared, Participants
    <2>2. AccusationCosts'
      BY <1>1 DEF IInv, AccusationCosts, Participants
    <2> QED
      BY <2>1, <2>2
  <1>8. RemindersScheduled'
    BY <1>1, <1>2 DEF IInv, RemindersScheduled, Participants
  <1> QED
    BY <1>3, <1>4, <1>5, <1>6, <1>7, <1>8 DEF IInv

\* In the beginning there is nothing.
LEMMA InitStep ==
    ASSUME Init
    PROVE  IInv
  <1>1. TypeOK
    BY DEF Init, TypeOK, NoBooking, BookingRow, NoArguments, Arguments, BookingStatus
  <1>2. "reminder" \in NotificationType
    BY DEF NotificationType
  <1>3. \A b \in Booking : RowOK(b) /\ ~HasReputation(b)
    BY <1>2 DEF Init, RowOK, HasReputation, NoBooking
  <1>4. \A r \in Request : RequestOK(r)
    BY DEF Init, RequestOK
  <1>5. CompletionShared /\ AccusationCosts
    BY DEF Init, CompletionShared, AccusationCosts, HonorReason
  <1>6. RemindersScheduled
    BY DEF Init, RemindersScheduled, NoBooking
  <1> QED
    BY <1>1, <1>3, <1>4, <1>5, <1>6 DEF IInv, ConsentBeforeReputation

\* Every step keeps the inductive invariant.
LEMMA BookingStep == IInv /\ [Next]_vars => IInv'
  <1> SUFFICES ASSUME IInv, [Next]_vars
               PROVE  IInv'
    OBVIOUS
  <1>1. CASE \E r \in Request, u \in User, m \in Match : BeginCreate(r, u, m)
    BY <1>1, BeginStep
  <1>2. CASE \E r \in Request, b \in Booking, s \in BOOLEAN : CommitCreate(r, b, s)
    BY <1>2, CreateStep
  <1>3. CASE \E r \in Request, u \in User, b \in Booking, to \in BookingStatus :
                 BeginTransition(r, u, b, to)
    BY <1>3, BeginStep
  <1>4. CASE \E r \in Request : CommitTransition(r) \/ Abandon(r)
    BY <1>4, TransitionStep, AbandonStep
  <1>5. CASE \E m \in Match : ArchiveMatch(m)
    BY <1>5, ArchiveStep
  <1>6. CASE \E b \in Booking : DayBefore(b)
    BY <1>6, DayBeforeStep
  <1>7. CASE UNCHANGED vars
    <2>1. UNCHANGED <<match, booking, soon, honorEvents, rankEvents, outbox, pc, req>>
      BY <1>7 DEF vars, rows
    <2>2. TypeOK'
      BY <2>1 DEF IInv, TypeOK
    <2>3. \A r \in Request : RequestOK(r)'
      BY <2>1, RowFrame DEF IInv, RequestOK, Participants
    <2> QED
      BY <2>1, <2>2, <2>3, RowFrame DEF IInv
  <1> QED
    BY <1>1, <1>2, <1>3, <1>4, <1>5, <1>6, <1>7 DEF Next

\* So it always holds, however the requests overlap.
THEOREM Invariance == Spec => []IInv
  BY InitStep, BookingStep, PTL DEF Spec

\* Every variable keeps its type.
THEOREM TypeCorrectness == Spec => []TypeOK
  <1>1. IInv => TypeOK
    BY DEF IInv
  <1> QED
    BY <1>1, Invariance, PTL

\* Whatever overlaps, no booking reaches a ledger, a reminder or an agreed
\* status that its partner did not confirm and its proposer was not told of.
THEOREM Consent == Spec => []ConsentBeforeReputation
  <1>1. IInv => ConsentBeforeReputation
    BY DEF IInv
  <1> QED
    BY <1>1, Invariance, PTL

\* Completed sessions and no-show claims stay in balance between the two
\* participants, also where a race writes them more than once.
THEOREM LedgersBalanced == Spec => []LedgersBalance
  <1>1. IInv => LedgersBalance
    BY DEF IInv, LedgersBalance
  <1> QED
    BY <1>1, Invariance, PTL

\* Nobody misses the reminder of a booking that is confirmed in time.
THEOREM Reminders == Spec => []RemindersScheduled
  <1>1. IInv => RemindersScheduled
    BY DEF IInv
  <1> QED
    BY <1>1, Invariance, PTL

-----------------------------------------------------------------------------
(* The sums of the ledgers.                                                *)

\* SumFunction takes the values of a finite function one by one.  iter is what
\* it has after each set of arguments.
IsFold(iter, f, S) ==
    iter = [s \in SUBSET S |->
               IF s = {} THEN 0
               ELSE f[CHOOSE x \in s : TRUE] + iter[s \ {CHOOSE x \in s : TRUE}]]

\* The same, of the sets of at most n arguments.
FoldUpTo(n, g, f, S) ==
    /\ g \in [SUBSET S -> Int]
    /\ \A s \in SUBSET S : Cardinality(s) <= n =>
           g[s] = IF s = {} THEN 0
                  ELSE f[CHOOSE x \in s : TRUE] + g[s \ {CHOOSE x \in s : TRUE}]

\* What SumFunction is, without the operators it is an instance of.
LEMMA SumIsFold ==
    ASSUME NEW f
    PROVE  SumFunction(f) = (CHOOSE iter : IsFold(iter, f, DOMAIN f))[DOMAIN f]
  BY DEF SumFunction, SumFunctionOnSet, FoldFunctionOnSet, MapThenFoldSet, IsFold

\* A set of natural numbers that is not empty has a least one.
LEMMA Least ==
    ASSUME NEW T, T \subseteq Nat, T # {}
    PROVE  \E x \in T : \A y \in T : x <= y
  <1>1. IsWellFoundedOn(OpToRel(<, Nat), Nat)
    BY NatLessThanWellFounded
  <1>2. PICK x \in T : \A y \in T : ~ (<<y, x>> \in OpToRel(<, Nat))
    BY <1>1, WFMin
  <1>3. \A y \in T : ~(y < x)
    BY <1>2, Zenon DEF OpToRel
  <1>4. \A y \in T : y \in Nat
    OBVIOUS
  <1>5. ASSUME NEW y \in T
        PROVE  x <= y
    <2>1. y \in Nat /\ x \in Nat /\ ~(y < x)
      BY <1>3, <1>4
    <2> QED
      BY <2>1, SMT
  <1> QED
    BY <1>5

\* A set of naturals that holds 0 and, with a number, the next one up to N, holds
\* the numbers up to N.
LEMMA UpTo ==
    ASSUME NEW N \in Nat, NEW T, 0 \in T, \A n \in Nat : n \in T /\ n < N => n + 1 \in T
    PROVE  0 .. N \subseteq T
  <1> SUFFICES ASSUME (0 .. N) \ T # {}
               PROVE  FALSE
    OBVIOUS
  <1>0. (0 .. N) \ T \subseteq Nat
    OBVIOUS
  <1>1. PICK x \in (0 .. N) \ T : \A y \in (0 .. N) \ T : x <= y
    BY <1>0, Least
  <1>2. x # 0 /\ x - 1 \in Nat /\ x - 1 \in 0 .. N /\ x - 1 < N
    BY <1>1
  <1>3. x - 1 \in T
    BY <1>1, <1>2
  <1> QED
    BY <1>1, <1>2, <1>3

\* The argument that is taken from a set, and what is left of it.
LEMMA Taken ==
    ASSUME NEW S, IsFiniteSet(S), NEW s \in SUBSET S, s # {}
    PROVE  \E x \in s : /\ x = CHOOSE y \in s : TRUE
                        /\ s \ {x} \in SUBSET S
                        /\ Cardinality(s) \in Nat /\ Cardinality(s) # 0
                        /\ Cardinality(s \ {x}) = Cardinality(s) - 1
  <1> DEFINE x == CHOOSE y \in s : TRUE
  <1>1. x \in s
    OBVIOUS
  <1>2. IsFiniteSet(s)
    BY FS_Subset
  <1>3. Cardinality(s) \in Nat /\ Cardinality(s) # 0
    BY <1>2, FS_CardinalityType, FS_EmptySet
  <1>4. Cardinality(s \ {x}) = Cardinality(s) - 1
    BY <1>1, <1>2, FS_RemoveElement
  <1> QED
    BY <1>1, <1>3, <1>4

\* A fold of the sets of at most n arguments goes on to those of n + 1.
LEMMA FoldGoesOn ==
    ASSUME NEW S, IsFiniteSet(S), NEW f \in [S -> Int], NEW n \in Nat,
           NEW g, FoldUpTo(n, g, f, S)
    PROVE  \E h : FoldUpTo(n + 1, h, f, S)
  <1> DEFINE h == [s \in SUBSET S |->
                      IF Cardinality(s) <= n \/ s = {} THEN g[s]
                      ELSE f[CHOOSE x \in s : TRUE] + g[s \ {CHOOSE x \in s : TRUE}]]
  <1>1. h \in [SUBSET S -> Int]
    <2> SUFFICES ASSUME NEW s \in SUBSET S
                 PROVE  h[s] \in Int
      OBVIOUS
    <2>1. g[s] \in Int
      BY DEF FoldUpTo
    <2>2. CASE s # {}
      <3>1. PICK x \in s : x = (CHOOSE y \in s : TRUE) /\ s \ {x} \in SUBSET S
        BY <2>2, Taken
      <3>2. f[x] \in Int /\ g[s \ {x}] \in Int
        BY <3>1 DEF FoldUpTo
      <3> QED
        BY <2>1, <3>1, <3>2
    <2> QED
      BY <2>1, <2>2
  <1>2. ASSUME NEW s \in SUBSET S, Cardinality(s) <= n + 1
        PROVE  h[s] = IF s = {} THEN 0
                      ELSE f[CHOOSE x \in s : TRUE] + h[s \ {CHOOSE x \in s : TRUE}]
    <2>1. CASE s = {}
      <3>1. Cardinality(s) <= n /\ h[s] = g[s]
        BY <2>1, FS_EmptySet
      <3> QED
        BY <2>1, <3>1 DEF FoldUpTo
    <2>2. CASE s # {}
      <3>1. PICK x \in s : /\ x = (CHOOSE y \in s : TRUE)
                           /\ s \ {x} \in SUBSET S
                           /\ Cardinality(s) \in Nat /\ Cardinality(s) # 0
                           /\ Cardinality(s \ {x}) = Cardinality(s) - 1
        BY <2>2, Taken
      <3>2. Cardinality(s \ {x}) <= n
        BY <3>1, <1>2
      <3>3. h[s \ {x}] = g[s \ {x}]
        BY <3>1, <3>2
      <3>4. h[s] = f[x] + g[s \ {x}]
        <4>1. CASE Cardinality(s) <= n
          BY <2>2, <3>1, <4>1 DEF FoldUpTo
        <4>2. CASE ~(Cardinality(s) <= n)
          BY <2>2, <3>1, <4>2
        <4> QED
          BY <4>1, <4>2
      <3> HIDE DEF h
      <3> QED
        BY <2>2, <3>1, <3>3, <3>4
    <2> QED
      BY <2>1, <2>2
  <1> HIDE DEF h
  <1>3. FoldUpTo(n + 1, h, f, S)
    BY <1>1, <1>2 DEF FoldUpTo
  <1> QED
    BY <1>3

\* The fold of a finite function exists.
LEMMA FoldExists ==
    ASSUME NEW S, IsFiniteSet(S), NEW f \in [S -> Int]
    PROVE  \E iter : IsFold(iter, f, S) /\ iter \in [SUBSET S -> Int]
  <1> DEFINE T == {n \in Nat : \E g : FoldUpTo(n, g, f, S)}
             N == Cardinality(S)
  <1>1. N \in Nat
    BY FS_CardinalityType
  <1>2. 0 \in T
    <2> DEFINE g == [s \in SUBSET S |-> 0]
    <2>1. ASSUME NEW s \in SUBSET S, Cardinality(s) <= 0
          PROVE  s = {} /\ g[s] = 0
      <3>1. s = {}
        <4> SUFFICES ASSUME s # {}
                     PROVE  FALSE
          OBVIOUS
        <4>1. Cardinality(s) \in Nat /\ Cardinality(s) # 0
          BY Taken
        <4> QED
          BY <2>1, <4>1
      <3> QED
        BY <3>1
    <2> HIDE DEF g
    <2>2. g \in [SUBSET S -> Int]
      BY DEF g
    <2>3. FoldUpTo(0, g, f, S)
      BY <2>1, <2>2 DEF FoldUpTo
    <2> QED
      BY <2>3
  <1>3. \A n \in Nat : n \in T /\ n < N => n + 1 \in T
    BY FoldGoesOn
  <1> HIDE DEF T, N
  <1>4. 0 .. N \subseteq T
    BY <1>1, <1>2, <1>3, UpTo
  <1>5. N \in T
    BY <1>1, <1>4
  <1>6. PICK g : FoldUpTo(N, g, f, S)
    BY <1>5 DEF T
  <1>7. \A s \in SUBSET S : Cardinality(s) <= N
    BY FS_Subset DEF N
  <1>8. IsFold(g, f, S) /\ g \in [SUBSET S -> Int]
    BY <1>6, <1>7 DEF FoldUpTo, IsFold
  <1> QED
    BY <1>8

\* So SumFunction is the end of one.
LEMMA SumOf ==
    ASSUME NEW S, IsFiniteSet(S), NEW f \in [S -> Int]
    PROVE  \E iter : /\ iter = CHOOSE h : IsFold(h, f, S)
                     /\ IsFold(iter, f, S)
                     /\ SumFunction(f) = iter[S]
  BY FoldExists, SumIsFold

\* A fold has integer values, and two folds of functions that differ at one
\* argument differ by as much after every set that has that argument.
LEMMA FoldsMove ==
    ASSUME NEW S, IsFiniteSet(S), NEW f \in [S -> Int], NEW g \in [S -> Int],
           NEW x \in S, \A y \in S : y # x => g[y] = f[y],
           NEW i, IsFold(i, f, S), NEW j, IsFold(j, g, S)
    PROVE  \A s \in SUBSET S : /\ i[s] \in Int /\ j[s] \in Int
                               /\ j[s] = i[s] + (IF x \in s THEN g[x] - f[x] ELSE 0)
  <1> DEFINE Right(s) == /\ i[s] \in Int /\ j[s] \in Int
                         /\ j[s] = i[s] + (IF x \in s THEN g[x] - f[x] ELSE 0)
             T == {Cardinality(s) : s \in {t \in SUBSET S : ~Right(t)}}
  <1> SUFFICES ASSUME T # {}
               PROVE  FALSE
    OBVIOUS
  <1>1. T \subseteq Nat
    BY FS_Subset, FS_CardinalityType
  <1>2. PICK n \in T : \A m \in T : n <= m
    BY <1>1, Least
  <1>3. PICK s \in SUBSET S : ~Right(s) /\ Cardinality(s) = n
    BY <1>2
  <1>4. s # {}
    BY <1>3 DEF IsFold
  <1>5. PICK c \in s : /\ c = (CHOOSE y \in s : TRUE)
                       /\ s \ {c} \in SUBSET S
                       /\ Cardinality(s) \in Nat /\ Cardinality(s) # 0
                       /\ Cardinality(s \ {c}) = Cardinality(s) - 1
    BY <1>4, Taken
  <1>6. Right(s \ {c})
    BY <1>2, <1>3, <1>5
  <1>7. i[s] = f[c] + i[s \ {c}] /\ j[s] = g[c] + j[s \ {c}]
    <2>1. i[s] = f[c] + i[s \ {c}]
      BY <1>4, <1>5 DEF IsFold
    <2>2. j[s] = g[c] + j[s \ {c}]
      BY <1>4, <1>5 DEF IsFold
    <2> QED
      BY <2>1, <2>2
  <1>8. f[c] \in Int /\ g[c] \in Int /\ f[x] \in Int /\ g[x] \in Int
    BY <1>5
  <1>9. Right(s)
    <2>1. CASE c = x
      <3>1. x \in s /\ x \notin s \ {c}
        BY <2>1, <1>5
      <3>2. i[s \ {c}] \in Int /\ j[s \ {c}] = i[s \ {c}]
        BY <1>6, <3>1
      <3> QED
        BY <1>7, <1>8, <2>1, <3>1, <3>2
    <2>2. CASE c # x
      <3>1. g[c] = f[c] /\ (x \in s <=> x \in s \ {c})
        BY <2>2, <1>5
      <3> QED
        BY <1>6, <1>7, <1>8, <3>1
    <2> QED
      BY <2>1, <2>2
  <1> QED
    BY <1>3, <1>9

\* A sum is an integer.
LEMMA SumType ==
    ASSUME NEW S, IsFiniteSet(S), NEW f \in [S -> Int]
    PROVE  SumFunction(f) \in Int
  <1>1. PICK iter : IsFold(iter, f, S) /\ iter \in [SUBSET S -> Int]
    BY FoldExists
  <1>2. PICK i : IsFold(i, f, S) /\ SumFunction(f) = i[S]
    BY SumOf
  <1>3. CASE S = {}
    BY <1>2, <1>3 DEF IsFold
  <1>4. CASE S # {}
    <2>1. PICK x \in S : TRUE
      BY <1>4
    <2>2. i[S] \in Int
      BY <1>2, <2>1, FoldsMove
    <2> QED
      BY <2>2, <1>2
  <1> QED
    BY <1>3, <1>4

\* A sum moves by as much as the value of the one argument that is changed.
LEMMA SumMoves ==
    ASSUME NEW S, IsFiniteSet(S), NEW f \in [S -> Int], NEW g \in [S -> Int],
           NEW x \in S, \A y \in S : y # x => g[y] = f[y]
    PROVE  SumFunction(g) = SumFunction(f) + (g[x] - f[x])
  <1>1. PICK i : IsFold(i, f, S) /\ SumFunction(f) = i[S]
    BY SumOf
  <1>2. PICK j : IsFold(j, g, S) /\ SumFunction(g) = j[S]
    BY SumOf
  <1>3. j[S] = i[S] + (g[x] - f[x])
    <2>1. \A s \in SUBSET S : j[s] = i[s] + (IF x \in s THEN g[x] - f[x] ELSE 0)
      BY <1>1, <1>2, FoldsMove
    <2>2. S \in SUBSET S
      OBVIOUS
    <2> QED
      BY <2>1, <2>2
  <1> QED
    BY <1>1, <1>2, <1>3

\* The sum of nothing is nothing.
LEMMA SumZero ==
    ASSUME NEW S, IsFiniteSet(S)
    PROVE  SumFunction([x \in S |-> 0]) = 0
  <1> DEFINE f == [x \in S |-> 0]
             g == [s \in SUBSET S |-> 0]
  <1>1. PICK i : IsFold(i, f, S) /\ SumFunction(f) = i[S]
    BY SumOf
  <1> DEFINE T == {Cardinality(s) : s \in {t \in SUBSET S : i[t] # 0}}
  <1> SUFFICES ASSUME T # {}
               PROVE  FALSE
    BY <1>1
  <1>2. T \subseteq Nat
    BY FS_Subset, FS_CardinalityType
  <1>3. PICK n \in T : \A m \in T : n <= m
    BY <1>2, Least
  <1>4. PICK s \in SUBSET S : i[s] # 0 /\ Cardinality(s) = n
    BY <1>3
  <1>5. s # {}
    BY <1>1, <1>4 DEF IsFold
  <1>6. PICK c \in s : /\ c = (CHOOSE y \in s : TRUE)
                       /\ s \ {c} \in SUBSET S
                       /\ Cardinality(s) \in Nat /\ Cardinality(s) # 0
                       /\ Cardinality(s \ {c}) = Cardinality(s) - 1
    BY <1>5, Taken
  <1>7. i[s \ {c}] = 0
    BY <1>3, <1>4, <1>6
  <1>8. i[s] = f[c] + i[s \ {c}]
    BY <1>1, <1>5, <1>6 DEF IsFold
  <1> QED
    BY <1>4, <1>6, <1>7, <1>8

-----------------------------------------------------------------------------
(* Bookings whose transitions do not overlap implement SessionLedger.      *)

\* What a transition has read of its booking is still so, and it may do what it
\* is about to do.
Current(r) ==
    pc[r] = "transition" =>
        /\ req[r].from = booking[req[r].booking].status
        /\ \E who \in {"proposer", "partner", "either"} :
               <<req[r].from, req[r].to, who>> \in _TRANSITIONS

SerialIInv ==
    /\ IInv
    /\ Apart
    /\ \A r \in Request : Current(r)

\* A request keeps what it is about while another one begins or ends.
LEMMA OthersStay ==
    ASSUME TypeOK, NEW r \in Request, NEW s \in Request, s # r,
           End(r) \/ \E label, args : Begin(r, label, args)
    PROVE  pc'[s] = pc[s] /\ req'[s] = req[s]
  BY DEF TypeOK, End, Begin

\* A transition that writes its booking leaves the others with what they read,
\* because they are of other bookings.
LEMMA SerialStep == SerialIInv /\ [SerialNext]_vars => SerialIInv'
  <1> SUFFICES ASSUME SerialIInv, [SerialNext]_vars
               PROVE  SerialIInv'
    OBVIOUS
  <1>1. IInv /\ TypeOK /\ IInv'
    BY BookingStep DEF SerialIInv, SerialNext, IInv
  <1>2. Apart'
    <2>1. CASE UNCHANGED vars
      BY <2>1 DEF vars, SerialIInv, Apart
    <2> QED
      BY <2>1 DEF SerialNext
  <1>3. \A s \in Request : Current(s)'
    <2> TAKE s \in Request
    <2>0. Current(s)
      BY DEF SerialIInv
    <2>1. CASE \E r \in Request, u \in User, m \in Match : BeginCreate(r, u, m)
      <3>1. PICK r \in Request, u \in User, m \in Match : BeginCreate(r, u, m)
        BY <2>1
      <3>2. CASE s = r
        <4>1. pc'[r] = "create"
          BY <3>1, <1>1 DEF BeginCreate, Begin, TypeOK
        <4> QED
          BY <3>2, <4>1 DEF Current
      <3>3. CASE s # r
        <4>1. pc'[s] = pc[s] /\ req'[s] = req[s]
          BY <3>1, <3>3, <1>1, OthersStay DEF BeginCreate
        <4>2. booking' = booking
          BY <3>1 DEF BeginCreate, rows
        <4> QED
          BY <2>0, <4>1, <4>2 DEF Current
      <3> QED
        BY <3>2, <3>3
    <2>2. CASE \E r \in Request, b \in Booking, so \in BOOLEAN : CommitCreate(r, b, so)
      <3>1. PICK r \in Request, b \in Booking, so \in BOOLEAN : CommitCreate(r, b, so)
        BY <2>2
      <3>2. CASE s = r
        <4>1. pc'[r] = "idle"
          BY <3>1, <1>1 DEF CommitCreate, End, TypeOK
        <4> QED
          BY <3>2, <4>1 DEF Current
      <3>3. CASE s # r /\ pc[s] = "transition"
        <4>1. pc'[s] = pc[s] /\ req'[s] = req[s]
          BY <3>1, <3>3, <1>1, OthersStay DEF CommitCreate
        <4>2. req[s].booking \in Booking /\ booking[req[s].booking].status # "none"
          BY <1>1, <3>3 DEF IInv, RequestOK
        <4>3. req[s].booking # b
          BY <4>2, <3>1 DEF CommitCreate
        <4>4. booking'[req[s].booking] = booking[req[s].booking]
          BY <4>2, <4>3, <3>1, <1>1 DEF CommitCreate, TypeOK
        <4> QED
          BY <2>0, <4>1, <4>4 DEF Current
      <3>4. CASE s # r /\ pc[s] # "transition"
        <4>1. pc'[s] = pc[s]
          BY <3>1, <3>4, <1>1, OthersStay DEF CommitCreate
        <4> QED
          BY <3>4, <4>1 DEF Current
      <3> QED
        BY <3>2, <3>3, <3>4
    <2>3. CASE \E r \in Request, u \in User, b \in Booking, to \in BookingStatus :
                   BeginTransition(r, u, b, to)
      <3>1. PICK r \in Request, u \in User, b \in Booking, to \in BookingStatus :
                     BeginTransition(r, u, b, to)
        BY <2>3
      <3>2. booking' = booking
        BY <3>1 DEF BeginTransition, rows
      <3>3. CASE s = r
        <4>1. req'[r].booking = b /\ req'[r].from = booking[b].status /\ req'[r].to = to
          BY <3>1, <1>1 DEF BeginTransition, Begin, TypeOK
        <4>2. \E who \in {"proposer", "partner", "either"} :
                  <<booking[b].status, to, who>> \in _TRANSITIONS
          BY <3>1 DEF BeginTransition, MayTransition
        <4> QED
          BY <3>2, <3>3, <4>1, <4>2 DEF Current
      <3>4. CASE s # r
        <4>1. pc'[s] = pc[s] /\ req'[s] = req[s]
          BY <3>1, <3>4, <1>1, OthersStay DEF BeginTransition
        <4> QED
          BY <2>0, <3>2, <4>1 DEF Current
      <3> QED
        BY <3>3, <3>4
    <2>4. CASE \E r \in Request : CommitTransition(r)
      <3>1. PICK r \in Request : CommitTransition(r)
        BY <2>4
      <3>2. CASE s = r
        <4>1. pc'[r] = "idle"
          BY <3>1, <1>1 DEF CommitTransition, End, TypeOK
        <4> QED
          BY <3>2, <4>1 DEF Current
      <3>3. CASE s # r /\ pc[s] = "transition"
        <4>1. pc'[s] = pc[s] /\ req'[s] = req[s]
          BY <3>1, <3>3, <1>1, OthersStay DEF CommitTransition
        <4>2. req[s].booking # req[r].booking
          BY <3>1, <3>3 DEF SerialIInv, Apart, CommitTransition
        <4>3. req[s].booking \in Booking
          BY <1>1, <3>3 DEF IInv, RequestOK
        <4>4. booking'[req[s].booking] = booking[req[s].booking]
          BY <4>2, <4>3, <3>1, <1>1 DEF CommitTransition, TypeOK
        <4> QED
          BY <2>0, <4>1, <4>4 DEF Current
      <3>4. CASE s # r /\ pc[s] # "transition"
        <4>1. pc'[s] = pc[s]
          BY <3>1, <3>4, <1>1, OthersStay DEF CommitTransition
        <4> QED
          BY <3>4, <4>1 DEF Current
      <3> QED
        BY <3>2, <3>3, <3>4
    <2>5. CASE \E r \in Request : Abandon(r)
      <3>1. PICK r \in Request : Abandon(r)
        BY <2>5
      <3>2. booking' = booking
        BY <3>1 DEF Abandon, rows
      <3>3. CASE s = r
        <4>1. pc'[r] = "idle"
          BY <3>1, <1>1 DEF Abandon, End, TypeOK
        <4> QED
          BY <3>3, <4>1 DEF Current
      <3>4. CASE s # r
        <4>1. pc'[s] = pc[s] /\ req'[s] = req[s]
          BY <3>1, <3>4, <1>1, OthersStay DEF Abandon
        <4> QED
          BY <2>0, <3>2, <4>1 DEF Current
      <3> QED
        BY <3>3, <3>4
    <2>6. CASE UNCHANGED <<booking, pc, req>>
      BY <2>0, <2>6 DEF Current
    <2> QED
      BY <2>1, <2>2, <2>3, <2>4, <2>5, <2>6
         DEF SerialNext, Next, ArchiveMatch, DayBefore, vars, rows
  <1> QED
    BY <1>1, <1>2, <1>3 DEF SerialIInv

\* There are four reasons.
LEMMA ReasonsFinite == IsFiniteSet(HonorReason)
  <1>1. \A S, x : IsFiniteSet(S) => IsFiniteSet(S \cup {x})
    BY FS_AddElement
  <1>2. IsFiniteSet({"session_completed"})
    BY FS_Singleton
  <1>3. IsFiniteSet(({"session_completed"} \cup {"no_show_against_user"})
                        \cup {"no_show_marked_by_user"})
    BY <1>1, <1>2
  <1>4. IsFiniteSet((({"session_completed"} \cup {"no_show_against_user"})
                        \cup {"no_show_marked_by_user"}) \cup {"late_cancellation"})
    BY <1>1, <1>3
  <1>5. HonorReason = ((({"session_completed"} \cup {"no_show_against_user"})
                        \cup {"no_show_marked_by_user"}) \cup {"late_cancellation"})
    BY DEF HonorReason
  <1> QED
    BY <1>4, <1>5

\* What a booking is worth to a user, by reason and in total.
Worth(rws, b, u) == [k \in HonorReason |-> HonorDelta[k] * rws[b][u][k]]
Worths(rws, u) == [b \in Booking |-> SumFunction(Worth(rws, b, u))]

LedgerType(rws) == rws \in [Booking -> [User -> [HonorReason -> Nat]]]

\* They are integers, and their sum is the user's honor.
LEMMA WorthTypes ==
    ASSUME NEW rws, LedgerType(rws), NEW u \in User
    PROVE  /\ \A b \in Booking : Worth(rws, b, u) \in [HonorReason -> Int]
           /\ Worths(rws, u) \in [Booking -> Int]
           /\ HonorTotal(rws, u) = SumFunction(Worths(rws, u))
           /\ HonorTotal(rws, u) \in Int
  <1>1. \A b \in Booking : Worth(rws, b, u) \in [HonorReason -> Int]
    <2> SUFFICES ASSUME NEW b \in Booking, NEW k \in HonorReason
                 PROVE  HonorDelta[k] * rws[b][u][k] \in Int
      BY DEF Worth
    <2>1. rws[b][u][k] \in Int
      BY DEF LedgerType
    <2>2. HonorDelta[k] \in Int
      BY DEF HonorDelta, HonorReason
    <2> QED
      BY <2>1, <2>2
  <1>2. Worths(rws, u) \in [Booking -> Int]
    <2>1. \A b \in Booking : SumFunction(Worth(rws, b, u)) \in Int
      BY <1>1, ReasonsFinite, SumType
    <2> QED
      BY <2>1 DEF Worths
  <1>3. HonorTotal(rws, u) = SumFunction(Worths(rws, u))
    <2>1. DOMAIN rws = Booking
      BY DEF LedgerType
    <2> QED
      BY <2>1 DEF HonorTotal, Worths, Worth
  <1>4. SumFunction(Worths(rws, u)) \in Int
    BY <1>2, BookingAssumption, SumType
  <1> QED
    BY <1>1, <1>2, <1>3, <1>4

\* The rows of one booking for one reason move a user's honor by what they are worth.
LEMMA HonorMoves ==
    ASSUME NEW old, LedgerType(old), NEW new, LedgerType(new),
           NEW b \in Booking, NEW u \in User, NEW k \in HonorReason,
           \A c \in Booking, j \in HonorReason :
               ~(c = b /\ j = k) => new[c][u][j] = old[c][u][j]
    PROVE  HonorTotal(new, u) = HonorTotal(old, u)
               + (HonorDelta[k] * new[b][u][k] - HonorDelta[k] * old[b][u][k])
  <1>1. SumFunction(Worth(new, b, u)) = SumFunction(Worth(old, b, u))
            + (Worth(new, b, u)[k] - Worth(old, b, u)[k])
    <2>1. \A j \in HonorReason : j # k => Worth(new, b, u)[j] = Worth(old, b, u)[j]
      BY DEF Worth
    <2> QED
      BY <2>1, WorthTypes, ReasonsFinite, SumMoves
  <1>2. \A c \in Booking : c # b => Worths(new, u)[c] = Worths(old, u)[c]
    <2> SUFFICES ASSUME NEW c \in Booking, c # b
                 PROVE  Worth(new, c, u) = Worth(old, c, u)
      BY DEF Worths
    <2> QED
      BY DEF Worth
  <1>3. HonorTotal(new, u) = HonorTotal(old, u) + (Worths(new, u)[b] - Worths(old, u)[b])
    <2>1. /\ Worths(new, u) \in [Booking -> Int] /\ Worths(old, u) \in [Booking -> Int]
          /\ HonorTotal(new, u) = SumFunction(Worths(new, u))
          /\ HonorTotal(old, u) = SumFunction(Worths(old, u))
      BY WorthTypes
    <2>2. SumFunction(Worths(new, u)) =
              SumFunction(Worths(old, u)) + (Worths(new, u)[b] - Worths(old, u)[b])
      BY <1>2, <2>1, BookingAssumption, SumMoves
    <2> QED
      BY <2>1, <2>2
  <1>4. /\ Worths(new, u)[b] = SumFunction(Worth(new, b, u))
        /\ Worths(old, u)[b] = SumFunction(Worth(old, b, u))
    BY DEF Worths
  <1>5. /\ Worth(new, b, u)[k] = HonorDelta[k] * new[b][u][k]
        /\ Worth(old, b, u)[k] = HonorDelta[k] * old[b][u][k]
    BY DEF Worth
  <1>6. /\ HonorTotal(old, u) \in Int
        /\ SumFunction(Worth(old, b, u)) \in Int
        /\ Worth(new, b, u)[k] \in Int /\ Worth(old, b, u)[k] \in Int
    BY WorthTypes, ReasonsFinite, SumType
  <1>7. Worths(new, u)[b] - Worths(old, u)[b] = Worth(new, b, u)[k] - Worth(old, b, u)[k]
    BY <1>1, <1>4, <1>6
  <1> QED
    BY <1>3, <1>5, <1>7

\* Where no row is added, nothing moves.
LEMMA HonorStays ==
    ASSUME NEW old, LedgerType(old), NEW new, LedgerType(new), NEW u \in User,
           \A c \in Booking, j \in HonorReason : new[c][u][j] = old[c][u][j]
    PROVE  HonorTotal(new, u) = HonorTotal(old, u)
  <1>1. \A c \in Booking : Worth(new, c, u) = Worth(old, c, u)
    BY DEF Worth
  <1>2. Worths(new, u) = Worths(old, u)
    BY <1>1 DEF Worths
  <1> QED
    BY <1>2, WorthTypes

CountsType(rws) == rws \in [Booking -> [User -> Nat]]

\* A user's sessions are the sum of his rank rows.
LEMMA SessionsMove ==
    ASSUME NEW old, CountsType(old), NEW new, CountsType(new), NEW b \in Booking, NEW u \in User,
           \A c \in Booking : c # b => new[c][u] = old[c][u]
    PROVE  SessionsCompleted(new, u) = SessionsCompleted(old, u) + (new[b][u] - old[b][u])
  <1> DEFINE F == [c \in Booking |-> old[c][u]]
             G == [c \in Booking |-> new[c][u]]
  <1>1. F \in [Booking -> Int] /\ G \in [Booking -> Int]
    BY DEF CountsType
  <1>2. SessionsCompleted(old, u) = SumFunction(F) /\ SessionsCompleted(new, u) = SumFunction(G)
    BY DEF SessionsCompleted, CountsType
  <1>3. \A c \in Booking : c # b => G[c] = F[c]
    OBVIOUS
  <1>4. G[b] = new[b][u] /\ F[b] = old[b][u]
    OBVIOUS
  <1> HIDE DEF F, G
  <1>5. SumFunction(G) = SumFunction(F) + (G[b] - F[b])
    BY <1>1, <1>3, BookingAssumption, SumMoves
  <1> QED
    BY <1>2, <1>4, <1>5

\* And stay where no row is added.
LEMMA SessionsStay ==
    ASSUME NEW old, CountsType(old), NEW new, CountsType(new), NEW u \in User,
           \A c \in Booking : new[c][u] = old[c][u]
    PROVE  /\ SessionsCompleted(new, u) = SessionsCompleted(old, u)
           /\ SessionsCompleted(old, u) \in Int
  <1> DEFINE F == [c \in Booking |-> old[c][u]]
             G == [c \in Booking |-> new[c][u]]
  <1>1. F \in [Booking -> Int] /\ F = G
    BY DEF CountsType
  <1>2. SessionsCompleted(old, u) = SumFunction(F) /\ SessionsCompleted(new, u) = SumFunction(G)
    BY DEF SessionsCompleted, CountsType
  <1> HIDE DEF F, G
  <1> QED
    BY <1>1, <1>2, BookingAssumption, SumType

\* In the beginning every total is zero.
LEMMA LedgerBegins == Init => Ledger!Init
  <1> SUFFICES ASSUME Init
               PROVE  Ledger!Init
    OBVIOUS
  <1>1. [b \in Booking |-> booking[b].status] = [b \in Booking |-> "none"]
    BY DEF Init, NoBooking
  <1>2. \A u \in User : HonorTotal(honorEvents, u) = 0
    <2> TAKE u \in User
    <2>1. \A b \in Booking : Worth(honorEvents, b, u) = [k \in HonorReason |-> 0]
      <3> TAKE b \in Booking
      <3>1. \A k \in HonorReason : HonorDelta[k] * honorEvents[b][u][k] = 0
        BY DEF Init, HonorDelta, HonorReason
      <3> QED
        BY <3>1 DEF Worth
    <2>2. Worths(honorEvents, u) = [b \in Booking |-> 0]
      BY <2>1, ReasonsFinite, SumZero DEF Worths
    <2>3. LedgerType(honorEvents)
      BY DEF Init, LedgerType
    <2> QED
      BY <2>2, <2>3, WorthTypes, BookingAssumption, SumZero
  <1>3. \A u \in User : SessionsCompleted(rankEvents, u) = 0
    <2> TAKE u \in User
    <2>1. DOMAIN rankEvents = Booking /\ \A b \in Booking : rankEvents[b][u] = 0
      BY DEF Init
    <2>2. SessionsCompleted(rankEvents, u) = SumFunction([b \in Booking |-> 0])
      BY <2>1 DEF SessionsCompleted
    <2> QED
      BY <2>2, BookingAssumption, SumZero
  <1> QED
    BY <1>1, <1>2, <1>3 DEF Ledger!Init

\* A step that leaves the rows of the bookings and both ledgers alone.
LEMMA LedgerStutters ==
    ASSUME UNCHANGED <<booking, honorEvents, rankEvents>>
    PROVE  UNCHANGED Ledger!ledger
  BY DEF Ledger!ledger

\* create_booking opens a negotiation.
LEMMA LedgerCreates ==
    ASSUME IInv, NEW r \in Request, NEW b \in Booking, NEW s \in BOOLEAN,
           CommitCreate(r, b, s)
    PROVE  Ledger!Negotiate(b)
  <1>1. /\ booking[b].status = "none" /\ booking'[b].status = "proposed"
        /\ \A c \in Booking : c # b => booking'[c] = booking[c]
    BY DEF CommitCreate, IInv, TypeOK
  <1>2. UNCHANGED <<honorEvents, rankEvents>>
    BY DEF CommitCreate
  <1>3. [c \in Booking |-> booking'[c].status] =
            [[c \in Booking |-> booking[c].status] EXCEPT ![b] = "proposed"]
    BY <1>1
  <1> QED
    BY <1>1, <1>2, <1>3 DEF Ledger!Negotiate

\* A transition of a mere proposal continues it and costs nothing; one of a
\* confirmed booking decides its outcome, at the price of that outcome.
LEMMA LedgerDecides ==
    ASSUME SerialIInv, TypeOK', NEW r \in Request, CommitTransition(r)
    PROVE  \E b \in Booking :
               \/ Ledger!Negotiate(b)
               \/ \E u, v \in User : u # v /\ (Ledger!Play(b, u, v) \/ Ledger!Accuse(b, u, v))
               \/ \E u \in User : Ledger!CancelLate(b, u)
  <1> SUFFICES ASSUME NEW b, b = req[r].booking, NEW u, u = req[r].user,
                      NEW from, from = req[r].from, NEW to, to = req[r].to,
                      NEW v, v = Other(b, u)
               PROVE  \E c \in Booking :
                          \/ Ledger!Negotiate(c)
                          \/ \E w, x \in User :
                                 w # x /\ (Ledger!Play(c, w, x) \/ Ledger!Accuse(c, w, x))
                          \/ \E w \in User : Ledger!CancelLate(c, w)
    OBVIOUS
  <1> DEFINE stage == [c \in Booking |-> booking[c].status]
             honor == [w \in User |-> HonorTotal(honorEvents, w)]
             sessions == [w \in User |-> SessionsCompleted(rankEvents, w)]
             new == HonorRows(b, u, from, to)
  <1>1. /\ IInv /\ TypeOK
        /\ b \in Booking /\ u \in Participants(b)
        /\ from = booking[b].status
        /\ \E who \in {"proposer", "partner", "either"} : <<from, to, who>> \in _TRANSITIONS
    BY DEF SerialIInv, Current, CommitTransition, IInv, RequestOK
  <1>2. /\ u \in User /\ v \in User /\ v # u
        /\ Participants(b) = {u, v}
    BY <1>1 DEF IInv, RowOK, NoBooking, Participants, Other, _TRANSITIONS
  <1>3. /\ booking' = [booking EXCEPT ![b].status = to]
        /\ AppendHonor(b, new)
        /\ AppendRank(b, RankRows(b, from, to))
    BY DEF CommitTransition
  <1>4. stage' = [stage EXCEPT ![b] = to]
    <2>1. \A c \in Booking : c # b => booking'[c] = booking[c]
      BY <1>3, <1>1 DEF TypeOK
    <2>2. booking'[b].status = to
      BY <1>3, <1>1 DEF TypeOK, BookingRow
    <2> QED
      BY <1>1, <2>1, <2>2
  <1>5. /\ LedgerType(honorEvents) /\ LedgerType(honorEvents')
        /\ CountsType(rankEvents) /\ CountsType(rankEvents')
    BY <1>1 DEF TypeOK, LedgerType, CountsType
  <1>6. \A c \in Booking, w \in User, k \in HonorReason :
            /\ honorEvents[c][w][k] \in Nat /\ honorEvents'[c][w][k] \in Nat
            /\ c = b /\ <<w, k>> \in new => honorEvents'[c][w][k] = honorEvents[c][w][k] + 1
            /\ ~(c = b /\ <<w, k>> \in new) => honorEvents'[c][w][k] = honorEvents[c][w][k]
    <2> TAKE c \in Booking, w \in User, k \in HonorReason
    <2>1. TypeOK /\ AppendHonor(b, new)
      BY <1>1, <1>3
    <2> HIDE DEF new
    <2> QED
      BY <2>1, HonorAppended
  <1>7. \A c \in Booking, w \in User :
            /\ rankEvents[c][w] \in Nat /\ rankEvents'[c][w] \in Nat
            /\ c = b /\ w \in RankRows(b, from, to) => rankEvents'[c][w] = rankEvents[c][w] + 1
            /\ ~(c = b /\ w \in RankRows(b, from, to)) => rankEvents'[c][w] = rankEvents[c][w]
    BY <1>1, <1>3, RankAppended
  <1>8. \A w \in User : /\ HonorTotal(honorEvents, w) \in Int
                        /\ SessionsCompleted(rankEvents, w) \in Int
    BY <1>5, WorthTypes, SessionsStay
  \* A user with one new row, of one reason, and a user with none.
  <1>9. ASSUME NEW w \in User, NEW k \in HonorReason,
               \A j \in HonorReason : <<w, j>> \in new <=> j = k
        PROVE  HonorTotal(honorEvents', w) = HonorTotal(honorEvents, w) + HonorDelta[k]
    <2>1. \A c \in Booking, j \in HonorReason :
              ~(c = b /\ j = k) => honorEvents'[c][w][j] = honorEvents[c][w][j]
      BY <1>6, <1>9
    <2>2. HonorTotal(honorEvents', w) = HonorTotal(honorEvents, w)
              + (HonorDelta[k] * honorEvents'[b][w][k] - HonorDelta[k] * honorEvents[b][w][k])
      BY <1>1, <1>5, <2>1, HonorMoves
    <2>3. honorEvents'[b][w][k] = honorEvents[b][w][k] + 1 /\ honorEvents[b][w][k] \in Nat
      BY <1>1, <1>6, <1>9
    <2>4. HonorDelta[k] * honorEvents'[b][w][k] - HonorDelta[k] * honorEvents[b][w][k]
              = HonorDelta[k]
      BY <2>3 DEF HonorDelta, HonorReason
    <2> QED
      BY <2>2, <2>4
  <1>10. ASSUME NEW w \in User, \A j \in HonorReason : <<w, j>> \notin new
         PROVE  HonorTotal(honorEvents', w) = HonorTotal(honorEvents, w)
    <2>1. \A c \in Booking, j \in HonorReason : honorEvents'[c][w][j] = honorEvents[c][w][j]
      BY <1>6, <1>10
    <2> QED
      BY <1>5, <2>1, HonorStays
  <1>11. \A w \in User, j \in HonorReason :
             <<w, j>> \in new <=>
                 /\ from = "confirmed"
                 /\ \/ to = "completed" /\ w \in {u, v} /\ j = "session_completed"
                    \/ to = "no_show" /\ w = v /\ j = "no_show_against_user"
                    \/ to = "no_show" /\ w = u /\ j = "no_show_marked_by_user"
                    \/ to = "cancelled" /\ w = u /\ j = "late_cancellation"
    <2> TAKE w \in User, j \in HonorReason
    <2>1. <<w, j>> \in new <=>
              /\ from = "confirmed"
              /\ \/ to = "completed" /\ w \in Participants(b) /\ j = "session_completed"
                 \/ to = "no_show" /\ w = Other(b, u) /\ j = "no_show_against_user"
                 \/ to = "no_show" /\ w = u /\ j = "no_show_marked_by_user"
                 \/ to = "cancelled" /\ w = u /\ j = "late_cancellation"
      BY <1>1, <1>2, AppendedRows
    <2> QED
      BY <1>2, <2>1
  <1>12. \A w \in User : w \in RankRows(b, from, to) <=>
             from = "confirmed" /\ to = "completed" /\ w \in {u, v}
    BY <1>2 DEF RankRows
  <1> HIDE DEF new
  <1>13. ASSUME ~(from = "confirmed" /\ to = "completed")
         PROVE  sessions' = sessions
    <2>1. \A w \in User, c \in Booking : rankEvents'[c][w] = rankEvents[c][w]
      BY <1>7, <1>12, <1>13
    <2>2. \A w \in User : SessionsCompleted(rankEvents', w) = SessionsCompleted(rankEvents, w)
      BY <1>5, <2>1, SessionsStay
    <2> QED
      BY <2>2
  <1>14. "session_completed" \in HonorReason /\ HonorDelta["session_completed"] = 1
         /\ "no_show_against_user" \in HonorReason /\ HonorDelta["no_show_against_user"] = -5
         /\ "no_show_marked_by_user" \in HonorReason /\ HonorDelta["no_show_marked_by_user"] = -2
         /\ "late_cancellation" \in HonorReason /\ HonorDelta["late_cancellation"] = -1
    BY DEF HonorReason, HonorDelta
  <1>15. CASE from = "proposed"
    <2>1. to \in {"confirmed", "declined", "cancelled"}
      BY <1>1, <1>15 DEF _TRANSITIONS
    <2>2. honor' = honor
      BY <1>10, <1>11, <1>15
    <2>3. Ledger!Negotiate(b)
      BY <1>1, <1>4, <1>13, <1>15, <2>1, <2>2 DEF Ledger!Negotiate
    <2> QED
      BY <1>1, <2>3
  <1>16. CASE from = "confirmed" /\ to = "completed"
    <2>1. \A w \in {u, v} : HonorTotal(honorEvents', w) = HonorTotal(honorEvents, w) + 1
      BY <1>2, <1>9, <1>11, <1>14, <1>16
    <2>2. \A w \in User \ {u, v} : HonorTotal(honorEvents', w) = HonorTotal(honorEvents, w)
      BY <1>10, <1>11, <1>16
    <2>3. honor' = [honor EXCEPT ![u] = @ + 1, ![v] = @ + 1]
      BY <1>2, <2>1, <2>2
    <2>4. \A w \in {u, v} :
              SessionsCompleted(rankEvents', w) = SessionsCompleted(rankEvents, w) + 1
      <3> TAKE w \in {u, v}
      <3>1. /\ \A c \in Booking : c # b => rankEvents'[c][w] = rankEvents[c][w]
            /\ rankEvents'[b][w] = rankEvents[b][w] + 1
            /\ rankEvents[b][w] \in Nat
        BY <1>1, <1>2, <1>7, <1>12, <1>16
      <3>2. SessionsCompleted(rankEvents', w) =
                SessionsCompleted(rankEvents, w) + (rankEvents'[b][w] - rankEvents[b][w])
        BY <1>1, <1>2, <1>5, <3>1, SessionsMove
      <3> QED
        BY <3>1, <3>2
    <2>5. \A w \in User \ {u, v} :
              SessionsCompleted(rankEvents', w) = SessionsCompleted(rankEvents, w)
      <3> TAKE w \in User \ {u, v}
      <3>1. \A c \in Booking : rankEvents'[c][w] = rankEvents[c][w]
        BY <1>7, <1>12
      <3> QED
        BY <1>5, <3>1, SessionsStay
    <2>6. sessions' = [sessions EXCEPT ![u] = @ + 1, ![v] = @ + 1]
      BY <1>2, <2>4, <2>5
    <2>7. Ledger!Play(b, u, v)
      BY <1>1, <1>4, <1>16, <2>3, <2>6 DEF Ledger!Play
    <2> QED
      BY <1>1, <1>2, <2>7
  <1>17. CASE from = "confirmed" /\ to = "no_show"
    <2>1. HonorTotal(honorEvents', u) = HonorTotal(honorEvents, u) - 2
      <3>1. HonorTotal(honorEvents', u) = HonorTotal(honorEvents, u) + -2
        BY <1>2, <1>9, <1>11, <1>14, <1>17
      <3> QED
        BY <1>2, <1>8, <3>1
    <2>2. HonorTotal(honorEvents', v) = HonorTotal(honorEvents, v) - 5
      <3>1. HonorTotal(honorEvents', v) = HonorTotal(honorEvents, v) + -5
        BY <1>2, <1>9, <1>11, <1>14, <1>17
      <3> QED
        BY <1>2, <1>8, <3>1
    <2>3. \A w \in User \ {u, v} : HonorTotal(honorEvents', w) = HonorTotal(honorEvents, w)
      BY <1>10, <1>11, <1>17
    <2>4. honor' = [honor EXCEPT ![u] = @ - 2, ![v] = @ - 5]
      BY <1>2, <2>1, <2>2, <2>3
    <2>5. Ledger!Accuse(b, u, v)
      BY <1>1, <1>4, <1>13, <1>17, <2>4 DEF Ledger!Accuse
    <2> QED
      BY <1>1, <1>2, <2>5
  <1>18. CASE from = "confirmed" /\ to = "cancelled"
    <2>1. HonorTotal(honorEvents', u) = HonorTotal(honorEvents, u) - 1
      <3>1. HonorTotal(honorEvents', u) = HonorTotal(honorEvents, u) + -1
        BY <1>2, <1>9, <1>11, <1>14, <1>18
      <3> QED
        BY <1>2, <1>8, <3>1
    <2>2. \A w \in User \ {u} : HonorTotal(honorEvents', w) = HonorTotal(honorEvents, w)
      BY <1>10, <1>11, <1>18
    <2>3. honor' = [honor EXCEPT ![u] = @ - 1]
      BY <1>2, <2>1, <2>2
    <2>4. Ledger!CancelLate(b, u)
      BY <1>1, <1>4, <1>13, <1>18, <2>3 DEF Ledger!CancelLate
    <2> QED
      BY <1>1, <1>2, <2>4
  <1> QED
    BY <1>1, <1>15, <1>16, <1>17, <1>18 DEF _TRANSITIONS

\* Every step is a step of the ledger or none.
LEMMA LedgerSteps == SerialIInv /\ [SerialNext]_vars => [Ledger!Next]_(Ledger!ledger)
  <1> SUFFICES ASSUME SerialIInv, [SerialNext]_vars
               PROVE  [Ledger!Next]_(Ledger!ledger)
    OBVIOUS
  <1>1. IInv /\ TypeOK'
    BY SerialStep DEF SerialIInv, IInv
  <1>2. CASE UNCHANGED <<booking, honorEvents, rankEvents>>
    BY <1>2, LedgerStutters
  <1>3. CASE \E r \in Request, b \in Booking, s \in BOOLEAN : CommitCreate(r, b, s)
    BY <1>1, <1>3, LedgerCreates DEF Ledger!Next
  <1>4. CASE \E r \in Request : CommitTransition(r)
    BY <1>1, <1>4, LedgerDecides DEF Ledger!Next
  <1> QED
    BY <1>2, <1>3, <1>4
       DEF SerialNext, Next, BeginCreate, BeginTransition, Abandon, ArchiveMatch, DayBefore,
           vars, rows

\* Bookings whose transitions do not overlap implement SessionLedger, for any
\* finite set of bookings and any number of requests: every session is decided
\* once, and the honor and the session count that compute_summary folds from the
\* ledgers are exactly what the outcomes of a user's sessions add up to.
THEOREM LedgerImplemented == SerialSpec => LedgerRefined
  <1>1. Init => SerialIInv
    BY InitStep DEF SerialIInv, Apart, Current, Init
  <1> QED
    BY <1>1, SerialStep, LedgerBegins, LedgerSteps, PTL DEF SerialSpec, LedgerRefined, Ledger!Spec

-----------------------------------------------------------------------------
(* The matches.                                                            *)


LikesAreHistory == \A r \in Row : action[r] = "like" => r \in liked

\* What a tap has read stays true where it matters.  A like can be taken back
\* after it was found, so its having been committed is what remains; and what the
\* tap read of its own row and its own match holds while it is alone on the pair.
TapOK(t) ==
    LET r == tap[t].row
    IN /\ tap[t].stage \in {"flushed", "mutual", "new", "created"} => tap[t].action = "like"
       /\ tap[t].stage \in {"mutual", "new", "created"} => Opposite(r) \in liked
       /\ tap[t].stage = "created" => matches[Pair(r)] = "none"
       /\ (/\ tap[t].stage = "ready" /\ tap[t].action = "like"
           /\ action[Opposite(r)] = "like" /\ Pair(r) \notin raced)
              => matches[Pair(r)] # "none"
       /\ ~tap[t].crowded => tap[t].found = action[r]
       /\ ~tap[t].crowded /\ tap[t].stage = "new" => matches[Pair(r)] = "none"

\* Two taps on one pair know of each other, and at most one has made the match.
PairOK(t, u) ==
    (InFlight(t) /\ InFlight(u) /\ Pair(tap[t].row) = Pair(tap[u].row)) =>
        /\ tap[t].crowded
        /\ (tap[t].action = "like" /\ tap[u].action = "like" /\ tap[u].row = Opposite(tap[t].row))
               => Pair(tap[t].row) \in raced
        /\ ~(tap[t].stage = "created" /\ tap[u].stage = "created")

\* The inductive invariant.
MatchingIInv ==
    /\ MatchingTypeOK
    /\ LikesAreHistory
    /\ MatchNeedsLikes
    /\ MutualMeet
    /\ \A t \in Tap : InFlight(t) => TapOK(t)
    /\ \A t, u \in Tap : t # u => PairOK(t, u)

-----------------------------------------------------------------------------
(* Keys.                                                                   *)

\* A pair has two directions, and they are each other's opposites.
LEMMA Directions ==
    /\ \A r \in Row : /\ Opposite(r) \in Row /\ Opposite(r) # r
                      /\ Opposite(Opposite(r)) = r
                      /\ Pair(Opposite(r)) = Pair(r)
                      /\ Pair(r) \in Key
    /\ \A r, q \in Row : Pair(r) = Pair(q) => q = r \/ q = Opposite(r)
<1>1. ASSUME NEW r \in Row
      PROVE  /\ Opposite(r) \in Row /\ Opposite(r) # r
             /\ Opposite(Opposite(r)) = r
             /\ Pair(Opposite(r)) = Pair(r)
             /\ Pair(r) \in Key
  <2>1. PICK a \in Account, b \in Account, s \in Sport : r = <<a, b, s>> /\ a # b
    BY <1>1 DEF Row
  <2>2. Opposite(r) = <<b, a, s>> /\ Opposite(r) \in Row
    BY <2>1 DEF Opposite, Row
  <2>3. Opposite(r) # r /\ Opposite(Opposite(r)) = r
    BY <2>1, <2>2 DEF Opposite
  <2>4. Pair(Opposite(r)) = Pair(r)
    BY <2>1, <2>2 DEF Pair
  <2> QED
    BY <1>1, <2>2, <2>3, <2>4 DEF Key
<1>2. ASSUME NEW r \in Row, NEW q \in Row, Pair(r) = Pair(q)
      PROVE  q = r \/ q = Opposite(r)
  <2>1. PICK a \in Account, b \in Account, s \in Sport : r = <<a, b, s>> /\ a # b
    BY <1>2 DEF Row
  <2>2. PICK c \in Account, d \in Account, z \in Sport : q = <<c, d, z>> /\ c # d
    BY <1>2 DEF Row
  <2>3. {a, b} = {c, d} /\ s = z
    BY <1>2, <2>1, <2>2 DEF Pair
  <2>4. (a = c /\ b = d) \/ (a = d /\ b = c)
    BY <2>1, <2>2, <2>3
  <2> QED
    BY <2>1, <2>2, <2>3, <2>4 DEF Opposite
<1> QED
  BY <1>1, <1>2

\* A tap in flight has its fields.
LEMMA TapTyped ==
    ASSUME MatchingTypeOK, NEW t \in Tap, InFlight(t)
    PROVE  /\ tap[t] \in TapRecord
           /\ tap[t].stage \in Stage /\ tap[t].row \in Row /\ tap[t].action \in Action
           /\ tap[t].found \in Action \cup {"none"} /\ tap[t].crowded \in BOOLEAN
<1>1. tap[t] \in TapRecord
  BY DEF MatchingTypeOK, InFlight, NoTap
<1> QED
  BY <1>1 DEF TapRecord

\* A tap whose stage is not "idle" is in flight.
LEMMA IdleIsNoTap ==
    ASSUME MatchingTypeOK, NEW t \in Tap, ~InFlight(t)
    PROVE  tap[t] = NoTap
  BY DEF MatchingTypeOK, InFlight, TapRecord, Stage, NoTap

-----------------------------------------------------------------------------
(* Steps of one tap that change no table.                                  *)

\* A tap may go on to any stage for which it has what TapOK asks of it.
LEMMA AdvanceStep ==
    ASSUME MatchingIInv, NEW t \in Tap, InFlight(t), NEW stage \in Stage, Advance(t, stage),
           UNCHANGED <<action, matches, liked, raced>>,
           stage \in {"flushed", "mutual", "new", "created"} => tap[t].action = "like",
           stage \in {"mutual", "new", "created"} => Opposite(tap[t].row) \in liked,
           stage \in {"new", "created"} => matches[Pair(tap[t].row)] = "none",
           (stage = "ready" /\ tap[t].action = "like" /\ action[Opposite(tap[t].row)] = "like"
                /\ Pair(tap[t].row) \notin raced) => matches[Pair(tap[t].row)] # "none",
           stage = "created" => PairIsFree(t)
    PROVE  MatchingIInv'
<1> USE DEF MatchingIInv
<1>1. /\ tap[t] \in TapRecord
      /\ tap[t].stage \in Stage /\ tap[t].row \in Row /\ tap[t].action \in Action
      /\ tap[t].found \in Action \cup {"none"} /\ tap[t].crowded \in BOOLEAN
  BY TapTyped
<1>2. tap'[t] = [tap[t] EXCEPT !.stage = stage]
  BY DEF Advance, MatchingTypeOK
<1>3. /\ tap'[t].stage = stage /\ tap'[t].row = tap[t].row /\ tap'[t].action = tap[t].action
      /\ tap'[t].found = tap[t].found /\ tap'[t].crowded = tap[t].crowded
      /\ tap'[t] \in TapRecord
  BY <1>1, <1>2 DEF TapRecord
<1>4. \A u \in Tap : u # t => tap'[u] = tap[u]
  BY DEF Advance, MatchingTypeOK
<1>5. MatchingTypeOK'
  BY <1>3, <1>4 DEF MatchingTypeOK, Advance
<1>6. (LikesAreHistory /\ MatchNeedsLikes /\ MutualMeet)'
  BY DEF LikesAreHistory, MatchNeedsLikes, MutualMeet
<1>7. ASSUME NEW u \in Tap, InFlight(u)'
      PROVE  TapOK(u)'
  <2>1. CASE u = t
    BY <1>3, <2>1 DEF TapOK, InFlight
  <2>2. CASE u # t
    BY <1>4, <1>7, <2>2 DEF TapOK, InFlight
  <2> QED
    BY <2>1, <2>2
<1>8. ASSUME NEW u \in Tap, NEW v \in Tap, u # v
      PROVE  PairOK(u, v)'
  <2>1. CASE u = t
    BY <1>3, <1>4, <1>8, <2>1 DEF PairOK, InFlight, PairIsFree
  <2>2. CASE v = t
    BY <1>3, <1>4, <1>8, <2>2 DEF PairOK, InFlight, PairIsFree
  <2>3. CASE u # t /\ v # t
    BY <1>4, <1>8, <2>3 DEF PairOK, InFlight
  <2> QED
    BY <2>1, <2>2, <2>3
<1> QED
  BY <1>5, <1>6, <1>7, <1>8

\* Flush, LookBack, LookUp and InsertMatch are such steps.
LEMMA ServeSteps ==
    ASSUME MatchingIInv, NEW t \in Tap, Flush(t) \/ LookBack(t) \/ LookUp(t) \/ InsertMatch(t)
    PROVE  MatchingIInv'
<1>1. InFlight(t)
  BY DEF Flush, LookBack, LookUp, InsertMatch, InFlight
<1>2. tap[t].row \in Row /\ Opposite(tap[t].row) \in Row /\ tap[t].stage \in Stage
  BY <1>1, TapTyped, Directions DEF MatchingIInv
<1>3. TapOK(t)
  BY <1>1 DEF MatchingIInv
<1>4. CASE Flush(t)
  <2> DEFINE stage == IF tap[t].action = "like" THEN "flushed" ELSE "ready"
  <2>1. Advance(t, stage) /\ UNCHANGED <<action, matches, liked, raced>>
    BY <1>4 DEF Flush
  <2>2. \/ stage = "flushed" /\ tap[t].action = "like"
        \/ stage = "ready" /\ tap[t].action # "like"
    OBVIOUS
  <2>3. stage \in Stage
    BY <2>2 DEF Stage
  <2> QED
    BY <1>1, <2>1, <2>2, <2>3, AdvanceStep
<1>5. CASE LookBack(t)
  <2> DEFINE stage == IF action[Opposite(tap[t].row)] = "like" THEN "mutual" ELSE "ready"
  <2>1. Advance(t, stage) /\ UNCHANGED <<action, matches, liked, raced>> /\ stage \in Stage
    BY <1>5 DEF LookBack, Stage
  <2>2. tap[t].action = "like"
    BY <1>3, <1>5 DEF LookBack, TapOK
  <2>3. \/ stage = "mutual" /\ Opposite(tap[t].row) \in liked
        \/ stage = "ready" /\ action[Opposite(tap[t].row)] # "like"
    BY <1>2 DEF MatchingIInv, LikesAreHistory
  <2> QED
    BY <1>1, <2>1, <2>2, <2>3, AdvanceStep
<1>6. CASE LookUp(t)
  <2> DEFINE stage == IF matches[Pair(tap[t].row)] = "none" THEN "new" ELSE "ready"
  <2>1. Advance(t, stage) /\ UNCHANGED <<action, matches, liked, raced>> /\ stage \in Stage
    BY <1>6 DEF LookUp, Stage
  <2>2. tap[t].action = "like" /\ Opposite(tap[t].row) \in liked
    BY <1>3, <1>6 DEF LookUp, TapOK
  <2>3. \/ stage = "new" /\ matches[Pair(tap[t].row)] = "none"
        \/ stage = "ready" /\ matches[Pair(tap[t].row)] # "none"
    OBVIOUS
  <2> QED
    BY <1>1, <2>1, <2>2, <2>3, AdvanceStep
<1>7. CASE InsertMatch(t)
  <2>1. tap[t].action = "like" /\ Opposite(tap[t].row) \in liked
    BY <1>3, <1>7 DEF InsertMatch, TapOK
  <2>2. /\ Advance(t, "created") /\ UNCHANGED <<action, matches, liked, raced>>
        /\ PairIsFree(t) /\ matches[Pair(tap[t].row)] = "none" /\ "created" \in Stage
    BY <1>7 DEF InsertMatch, PairIsTaken, Stage
  <2> QED
    BY <1>1, <2>1, <2>2, AdvanceStep
<1> QED
  BY <1>4, <1>5, <1>6, <1>7

\* A tap that is rolled back leaves nothing behind.
LEMMA RollbackStep ==
    ASSUME MatchingIInv, NEW t \in Tap, tap' = [tap EXCEPT ![t] = NoTap],
           UNCHANGED <<action, matches, liked, raced>>
    PROVE  MatchingIInv'
<1>1. ~InFlight(t)' /\ \A u \in Tap : u # t => tap'[u] = tap[u]
  BY DEF MatchingIInv, MatchingTypeOK, InFlight, NoTap
<1>2. MatchingTypeOK'
  BY DEF MatchingIInv, MatchingTypeOK
<1>3. (LikesAreHistory /\ MatchNeedsLikes /\ MutualMeet)'
  BY DEF MatchingIInv, LikesAreHistory, MatchNeedsLikes, MutualMeet
<1>4. ASSUME NEW u \in Tap, InFlight(u)'
      PROVE  TapOK(u)'
  BY <1>1, <1>4 DEF MatchingIInv, TapOK, InFlight
<1>5. ASSUME NEW u \in Tap, NEW v \in Tap, u # v
      PROVE  PairOK(u, v)'
  BY <1>1, <1>5 DEF MatchingIInv, PairOK, InFlight
<1> QED
  BY <1>2, <1>3, <1>4, <1>5 DEF MatchingIInv


-----------------------------------------------------------------------------
(* The other steps.                                                        *)

\* A tap that begins finds the others on its pair, and is found by them.
LEMMA TapBeginStep ==
    ASSUME MatchingIInv, NEW t \in Tap, NEW r \in Row, NEW x \in Action, BeginTap(t, r, x)
    PROVE  MatchingIInv'
<1> DEFINE others == {u \in Tap : InFlight(u) /\ Pair(tap[u].row) = Pair(r)}
           new == [stage |-> "read", row |-> r, action |-> x, found |-> action[r],
                   crowded |-> others # {}]
           met == x = "like" /\ \E u \in others : tap[u].row = Opposite(r)
                                                  /\ tap[u].action = "like"
<1>1. /\ ~InFlight(t)
      /\ tap' = [u \in Tap |->
             IF u = t THEN new
             ELSE IF u \in others THEN [tap[u] EXCEPT !.crowded = TRUE] ELSE tap[u]]
      /\ raced' = IF met THEN raced \cup {Pair(r)} ELSE raced
      /\ UNCHANGED <<action, matches, liked>>
  BY DEF BeginTap
<1>2. new \in TapRecord
  BY DEF TapRecord, Stage, MatchingIInv, MatchingTypeOK
<1>3. tap'[t] = new /\ InFlight(t)'
  BY <1>1 DEF InFlight
<1>4. ASSUME NEW u \in Tap, u # t
      PROVE  /\ InFlight(u)' <=> InFlight(u)
             /\ ~InFlight(u) => tap'[u] = tap[u]
             /\ InFlight(u) =>
                    /\ tap'[u] \in TapRecord
                    /\ tap'[u].stage = tap[u].stage /\ tap'[u].row = tap[u].row
                    /\ tap'[u].action = tap[u].action /\ tap'[u].found = tap[u].found
                    /\ tap'[u].crowded = (tap[u].crowded \/ Pair(tap[u].row) = Pair(r))
  <2>1. CASE ~InFlight(u)
    <3>1. u \notin others
      BY <2>1
    <3> QED
      BY <1>1, <1>4, <2>1, <3>1 DEF InFlight
  <2>2. CASE InFlight(u)
    <3>1. tap[u] \in TapRecord
      BY <2>2, TapTyped DEF MatchingIInv
    <3>2. CASE u \in others
      <4>1. tap'[u] = [tap[u] EXCEPT !.crowded = TRUE]
        BY <1>1, <1>4, <3>2
      <4> QED
        BY <2>2, <3>1, <3>2, <4>1 DEF TapRecord, InFlight
    <3>3. CASE u \notin others
      <4>1. tap'[u] = tap[u] /\ Pair(tap[u].row) # Pair(r)
        BY <1>1, <1>4, <2>2, <3>3
      <4> QED
        BY <2>2, <3>1, <4>1 DEF TapRecord, InFlight
    <3> QED
      BY <3>2, <3>3
  <2> QED
    BY <2>1, <2>2
<1>5. MatchingTypeOK'
  <2>1. \A u \in Tap : tap'[u] \in TapRecord \cup {NoTap}
    BY <1>2, <1>3, <1>4, IdleIsNoTap DEF MatchingIInv
  <2>2. tap' \in [Tap -> TapRecord \cup {NoTap}]
    BY <1>1, <2>1
  <2>3. raced' \subseteq Key
    BY <1>1, Directions DEF MatchingIInv, MatchingTypeOK
  <2> QED
    BY <1>1, <2>2, <2>3 DEF MatchingIInv, MatchingTypeOK
<1>6. (LikesAreHistory /\ MatchNeedsLikes /\ MutualMeet)'
  BY <1>1 DEF MatchingIInv, LikesAreHistory, MatchNeedsLikes, MutualMeet
<1>7. ASSUME NEW u \in Tap, InFlight(u)'
      PROVE  TapOK(u)'
  <2>1. CASE u = t
    BY <1>1, <1>3, <2>1 DEF TapOK
  <2>2. CASE u # t
    <3>1. InFlight(u) /\ TapOK(u)
      BY <1>4, <1>7, <2>2 DEF MatchingIInv
    <3> QED
      BY <1>1, <1>4, <2>2, <3>1 DEF TapOK
  <2> QED
    BY <2>1, <2>2
<1>8. ASSUME NEW u \in Tap, NEW v \in Tap, u # v, InFlight(u)', InFlight(v)',
             Pair(tap'[u].row) = Pair(tap'[v].row)
      PROVE  /\ tap'[u].crowded
             /\ (tap'[u].action = "like" /\ tap'[v].action = "like"
                     /\ tap'[v].row = Opposite(tap'[u].row)) => Pair(tap'[u].row) \in raced'
             /\ ~(tap'[u].stage = "created" /\ tap'[v].stage = "created")
  <2>1. CASE u = t
    <3>1. v \in others
      <4>1. InFlight(v) /\ tap'[v].row = tap[v].row
        BY <1>4, <1>8, <2>1
      <4>2. tap'[u].row = r
        BY <1>3, <2>1
      <4> QED
        BY <1>8, <4>1, <4>2
    <3>2. tap'[u].crowded /\ tap'[u].stage # "created"
      <4>1. others # {}
        BY <3>1
      <4> HIDE DEF others
      <4>2. (others # {}) = TRUE
        BY <4>1
      <4>3. tap'[t] = [stage |-> "read", row |-> r, action |-> x, found |-> action[r],
                       crowded |-> TRUE]
        BY <1>3, <4>2, Zenon
      <4> QED
        BY <2>1, <4>3
    <3>3. tap'[v].action = tap[v].action /\ tap'[v].row = tap[v].row
      BY <1>4, <1>8, <2>1, <3>1
    <3> QED
      BY <1>1, <1>3, <2>1, <3>1, <3>2, <3>3
  <2>2. CASE v = t
    <3>1. u \in others
      <4>1. InFlight(u) /\ tap'[u].row = tap[u].row
        BY <1>4, <1>8, <2>2
      <4>2. tap'[v].row = r
        BY <1>3, <2>2
      <4> QED
        BY <1>8, <4>1, <4>2
    <3>2. tap'[u].crowded /\ tap'[v].stage # "created"
      <4>1. InFlight(u) /\ Pair(tap[u].row) = Pair(r)
        BY <3>1
      <4>2. tap'[v].stage = "read"
        BY <1>3, <2>2
      <4> QED
        BY <1>4, <1>8, <2>2, <4>1, <4>2
    <3>3. tap'[u].action = tap[u].action /\ tap'[u].row = tap[u].row /\ tap[u].row \in Row
      BY <1>4, <1>8, <2>2, <3>1, TapTyped DEF MatchingIInv
    <3>4. tap'[v].row = Opposite(tap'[u].row) => tap[u].row = Opposite(r)
      BY <1>3, <2>2, <3>3, Directions
    <3> QED
      BY <1>1, <1>3, <2>2, <3>1, <3>2, <3>3, <3>4
  <2>3. CASE u # t /\ v # t
    <3>1. PairOK(u, v)
      BY <1>8 DEF MatchingIInv
    <3>2. InFlight(u) /\ InFlight(v)
      BY <1>4, <1>8, <2>3
    <3>3. /\ tap'[u].row = tap[u].row /\ tap'[v].row = tap[v].row
          /\ tap'[u].action = tap[u].action /\ tap'[v].action = tap[v].action
          /\ tap'[u].stage = tap[u].stage /\ tap'[v].stage = tap[v].stage
          /\ tap[u].crowded => tap'[u].crowded
      BY <1>4, <1>8, <2>3, <3>2
    <3>4. raced \subseteq raced'
      BY <1>1
    <3> QED
      BY <1>8, <3>1, <3>2, <3>3, <3>4 DEF PairOK
  <2> QED
    BY <2>1, <2>2, <2>3
<1> QED
  BY <1>5, <1>6, <1>7, <1>8 DEF MatchingIInv, PairOK

\* The commit of a tap: what it publishes is what its pair was promised.
LEMMA CommitStep ==
    ASSUME MatchingIInv, NEW t \in Tap, Commit(t)
    PROVE  MatchingIInv'
<1> DEFINE r == tap[t].row
<1>1. InFlight(t)
  BY DEF Commit, InFlight
<1>2. /\ r \in Row /\ tap[t].action \in Action /\ tap[t].stage \in {"ready", "created"}
      /\ Pair(r) \in Key /\ Opposite(r) \in Row /\ Opposite(r) # r
      /\ Pair(Opposite(r)) = Pair(r) /\ Opposite(Opposite(r)) = r
  BY <1>1, TapTyped, Directions DEF MatchingIInv, Commit
<1>3. TapOK(t)
  BY <1>1 DEF MatchingIInv
<1>4. /\ ~InFlight(t)' /\ \A u \in Tap : u # t => tap'[u] = tap[u]
      /\ raced' = raced
  BY DEF Commit, MatchingIInv, MatchingTypeOK, InFlight, NoTap
<1>5. \A q \in Row : action'[q] = IF q = r /\ Writes(t) THEN tap[t].action ELSE action[q]
  BY <1>2 DEF Commit, MatchingIInv, MatchingTypeOK
<1>6. \A k \in Key : matches'[k] = IF k = Pair(r) /\ tap[t].stage = "created" THEN "active"
                                   ELSE matches[k]
  BY <1>2 DEF Commit, MatchingIInv, MatchingTypeOK
<1>7. liked' = IF tap[t].action = "like" THEN liked \cup {r} ELSE liked
  BY DEF Commit
<1>8. MatchingTypeOK'
  <2>1. action' \in [Row -> Action \cup {"none"}]
    BY <1>2 DEF Commit, MatchingIInv, MatchingTypeOK
  <2>2. matches' \in [Key -> {"none", "active", "archived"}]
    BY <1>2 DEF Commit, MatchingIInv, MatchingTypeOK
  <2>3. tap' \in [Tap -> TapRecord \cup {NoTap}]
    BY DEF Commit, MatchingIInv, MatchingTypeOK
  <2>4. liked' \subseteq Row
    BY <1>2, <1>7 DEF MatchingIInv, MatchingTypeOK
  <2> QED
    BY <1>4, <2>1, <2>2, <2>3, <2>4 DEF MatchingIInv, MatchingTypeOK
<1>9. LikesAreHistory'
  BY <1>5, <1>7 DEF MatchingIInv, LikesAreHistory
<1>10. MatchNeedsLikes'
  <2> SUFFICES ASSUME NEW q \in Row, matches'[Pair(q)] # "none"
               PROVE  q \in liked'
    BY DEF MatchNeedsLikes
  <2>1. CASE matches[Pair(q)] # "none"
    BY <1>7, <2>1 DEF MatchingIInv, MatchNeedsLikes
  <2>2. CASE matches[Pair(q)] = "none"
    <3>1. Pair(q) = Pair(r) /\ tap[t].stage = "created"
      BY <1>6, <2>2, Directions
    <3>2. q = r \/ q = Opposite(r)
      BY <1>2, <3>1, Directions
    <3>3. tap[t].action = "like" /\ Opposite(r) \in liked
      BY <1>3, <3>1 DEF TapOK
    <3> QED
      BY <1>7, <3>2, <3>3
  <2> QED
    BY <2>1, <2>2
<1>11. MutualMeet'
  <2> SUFFICES ASSUME NEW q \in Row, action'[q] = "like", action'[Opposite(q)] = "like",
                      Pair(q) \notin raced'
               PROVE  matches'[Pair(q)] # "none"
    BY DEF MutualMeet
  <2>1. Opposite(q) \in Row /\ Pair(q) \in Key
    BY Directions
  <2>2. CASE action[q] = "like" /\ action[Opposite(q)] = "like"
    BY <1>4, <1>6, <2>1, <2>2 DEF MatchingIInv, MutualMeet
  <2>3. CASE ~(action[q] = "like" /\ action[Opposite(q)] = "like")
    <3>1. (q = r \/ Opposite(q) = r) /\ Writes(t) /\ tap[t].action = "like"
      BY <1>5, <2>1, <2>3
    <3>2. Pair(q) = Pair(r)
      BY <3>1, Directions
    <3>3. action'[Opposite(r)] = "like" /\ action[Opposite(r)] = "like"
      BY <1>2, <1>5, <3>1, Directions
    <3>4. tap[t].stage = "ready" => matches[Pair(r)] # "none"
      BY <1>3, <1>4, <3>1, <3>2, <3>3 DEF TapOK
    <3> QED
      BY <1>2, <1>6, <3>2, <3>4
  <2> QED
    BY <2>2, <2>3
<1>12. ASSUME NEW u \in Tap, InFlight(u)'
       PROVE  TapOK(u)'
  <2>1. u # t /\ tap'[u] = tap[u] /\ InFlight(u)
    BY <1>4, <1>12 DEF InFlight
  <2>2. /\ TapOK(u) /\ PairOK(u, t)
        /\ tap[u].row \in Row /\ Opposite(tap[u].row) \in Row /\ Pair(tap[u].row) \in Key
        /\ Pair(Opposite(tap[u].row)) = Pair(tap[u].row)
    BY <2>1, TapTyped, Directions DEF MatchingIInv
  <2>3. CASE Pair(tap[u].row) # Pair(r)
    <3>1. /\ action'[tap[u].row] = action[tap[u].row]
          /\ action'[Opposite(tap[u].row)] = action[Opposite(tap[u].row)]
          /\ matches'[Pair(tap[u].row)] = matches[Pair(tap[u].row)]
      BY <1>5, <1>6, <2>2, <2>3
    <3> QED
      BY <1>4, <1>7, <2>1, <2>2, <3>1 DEF TapOK
  <2>4. CASE Pair(tap[u].row) = Pair(r)
    <3>1. /\ tap[u].crowded
          /\ (tap[u].action = "like" /\ tap[t].action = "like"
                 /\ r = Opposite(tap[u].row)) => Pair(tap[u].row) \in raced
          /\ ~(tap[u].stage = "created" /\ tap[t].stage = "created")
      BY <1>1, <2>1, <2>2, <2>4 DEF PairOK
    <3>2. tap[u].stage = "created" => matches'[Pair(tap[u].row)] = "none"
      BY <1>6, <2>2, <3>1 DEF TapOK
    <3>3. (/\ tap[u].stage = "ready" /\ tap[u].action = "like"
           /\ action'[Opposite(tap[u].row)] = "like" /\ Pair(tap[u].row) \notin raced)
              => matches'[Pair(tap[u].row)] # "none"
      <4>1. CASE action[Opposite(tap[u].row)] = "like"
        BY <1>6, <2>2, <4>1 DEF TapOK
      <4>2. CASE action[Opposite(tap[u].row)] # "like"
        BY <1>5, <2>2, <3>1, <4>2
      <4> QED
        BY <4>1, <4>2
    <3>4. /\ tap[u].stage \in {"flushed", "mutual", "new", "created"} => tap[u].action = "like"
          /\ tap[u].stage \in {"mutual", "new", "created"} => Opposite(tap[u].row) \in liked'
      BY <1>7, <2>2 DEF TapOK
    <3> QED
      BY <1>4, <2>1, <3>1, <3>2, <3>3, <3>4 DEF TapOK
  <2> QED
    BY <2>3, <2>4
<1>13. ASSUME NEW u \in Tap, NEW v \in Tap, u # v
       PROVE  PairOK(u, v)'
  BY <1>4, <1>13 DEF MatchingIInv, PairOK, InFlight
<1> QED
  BY <1>8, <1>9, <1>10, <1>11, <1>12, <1>13 DEF MatchingIInv

\* Archiving changes the status of a match that exists, and so of none that a tap
\* has found missing.
LEMMA MatchArchiveStep ==
    ASSUME MatchingIInv, NEW k \in Key, Archive(k)
    PROVE  MatchingIInv'
<1>1. /\ UNCHANGED <<action, tap, liked, raced>>
      /\ \A j \in Key : matches[j] = "none" <=> matches'[j] = "none"
  BY DEF Archive, MatchingIInv, MatchingTypeOK
<1>2. MatchingTypeOK'
  BY DEF Archive, MatchingIInv, MatchingTypeOK
<1>3. (LikesAreHistory /\ MatchNeedsLikes /\ MutualMeet)'
  BY <1>1, Directions DEF MatchingIInv, LikesAreHistory, MatchNeedsLikes, MutualMeet
<1>4. ASSUME NEW u \in Tap, InFlight(u)'
      PROVE  TapOK(u)'
  <2>1. InFlight(u) /\ TapOK(u)
    BY <1>1, <1>4 DEF MatchingIInv, InFlight
  <2>2. Pair(tap[u].row) \in Key
    BY <2>1, TapTyped, Directions DEF MatchingIInv
  <2> QED
    BY <1>1, <2>1, <2>2 DEF TapOK
<1>5. ASSUME NEW u \in Tap, NEW v \in Tap, u # v
      PROVE  PairOK(u, v)'
  BY <1>1, <1>5 DEF MatchingIInv, PairOK, InFlight
<1> QED
  BY <1>2, <1>3, <1>4, <1>5 DEF MatchingIInv

\* In the beginning there is neither a like nor a tap.
LEMMA MatchingInitStep == MatchingInit => MatchingIInv
<1> SUFFICES ASSUME MatchingInit PROVE MatchingIInv
  OBVIOUS
<1>1. \A t \in Tap : ~InFlight(t)
  BY DEF MatchingInit, InFlight, NoTap
<1>2. MatchingTypeOK
  BY DEF MatchingInit, MatchingTypeOK
<1>3. LikesAreHistory /\ MatchNeedsLikes /\ MutualMeet
  BY Directions DEF MatchingInit, LikesAreHistory, MatchNeedsLikes, MutualMeet
<1> QED
  BY <1>1, <1>2, <1>3 DEF MatchingIInv, PairOK

\* Every step keeps the invariant.
LEMMA NextStep == MatchingIInv /\ [MatchingNext]_matchingVars => MatchingIInv'
<1> SUFFICES ASSUME MatchingIInv, [MatchingNext]_matchingVars PROVE MatchingIInv'
  OBVIOUS
<1>1. CASE \E t \in Tap, r \in Row, x \in Action : BeginTap(t, r, x)
  BY <1>1, TapBeginStep
<1>2. ASSUME NEW t \in Tap, Serve(t)
      PROVE  MatchingIInv'
  <2>1. CASE Flush(t) \/ LookBack(t) \/ LookUp(t) \/ InsertMatch(t)
    BY <2>1, ServeSteps
  <2>2. CASE Commit(t)
    BY <2>2, CommitStep
  <2>3. CASE Collide(t)
    BY <2>3, RollbackStep DEF Collide
  <2> QED
    BY <1>2, <2>1, <2>2, <2>3 DEF Serve
<1>3. ASSUME NEW t \in Tap, LoseTap(t)
      PROVE  MatchingIInv'
  BY <1>3, RollbackStep DEF LoseTap
<1>4. CASE \E k \in Key : Archive(k)
  BY <1>4, MatchArchiveStep
<1>5. CASE UNCHANGED matchingVars
  BY <1>5 DEF matchingVars, MatchingIInv, MatchingTypeOK, LikesAreHistory, MatchNeedsLikes,
              MutualMeet, TapOK, PairOK, InFlight
<1> QED
  BY <1>1, <1>2, <1>3, <1>4, <1>5 DEF MatchingNext

-----------------------------------------------------------------------------
(* Theorems.                                                               *)

\* The strengthening holds in every reachable state.
THEOREM MatchingInvariance == MatchingSpec => []MatchingIInv
BY MatchingInitStep, NextStep, PTL DEF MatchingSpec

\* The rows and the taps keep their types.
THEOREM MatchingTypes == MatchingSpec => []MatchingTypeOK
<1>1. MatchingIInv => MatchingTypeOK
  BY DEF MatchingIInv
<1> QED
  BY <1>1, MatchingInvariance, PTL

\* Mutual likes have a match unless they raced (record_action).
THEOREM Meeting == MatchingSpec => []MutualMeet
<1>1. MatchingIInv => MutualMeet
  BY DEF MatchingIInv
<1> QED
  BY <1>1, MatchingInvariance, PTL

\* Nobody is matched against his likes (record_action).
THEOREM PairConsent == MatchingSpec => []MatchNeedsLikes
<1>1. MatchingIInv => MatchNeedsLikes
  BY DEF MatchingIInv
<1> QED
  BY <1>1, MatchingInvariance, PTL

\* A match stands for two likes and two likes for a match.
THEOREM Mutuality == MatchingSpec => []MatchesAreMutual
BY Meeting, PairConsent, PTL DEF MatchesAreMutual

\* A match is announced once (the unique constraint of matches).
THEOREM Announcement == MatchingSpec => ToldOnce
<1> DEFINE Told == \A t \in Tap : tap[t].stage = "created" /\ Commit(t)
                                      => matches[Pair(tap[t].row)] = "none"
<1>1. MatchingIInv => Told
  <2> SUFFICES ASSUME MatchingIInv, NEW t \in Tap, tap[t].stage = "created"
               PROVE  matches[Pair(tap[t].row)] = "none"
    OBVIOUS
  <2> QED
    BY DEF MatchingIInv, TapOK, InFlight
<1>2. MatchingIInv => [Told]_matchingVars
  BY <1>1
<1> HIDE DEF Told
<1>3. MatchingSpec => [][Told]_matchingVars
  BY <1>2, MatchingInvariance, PTL DEF MatchingSpec
<1> QED
  BY <1>3 DEF Told, ToldOnce

\* A tap that is alone on its pair never meets a constraint.
THEOREM Answers == MatchingSpec => AloneIsAnswered
<1> DEFINE Answered == \A t \in Tap : Collide(t) => tap[t].crowded
<1>1. MatchingIInv => Answered
  <2> SUFFICES ASSUME MatchingIInv, NEW t \in Tap, Collide(t), ~tap[t].crowded
               PROVE  FALSE
    BY DEF MatchingIInv, MatchingTypeOK, TapRecord, Collide
  <2>1. InFlight(t)
    BY DEF Collide, InFlight
  <2>2. TapOK(t)
    BY <2>1 DEF MatchingIInv
  <2> QED
    BY <2>2 DEF TapOK, Collide, RowIsTaken, PairIsTaken
<1>2. MatchingIInv => [Answered]_matchingVars
  BY <1>1
<1> HIDE DEF Answered
<1>3. MatchingSpec => [][Answered]_matchingVars
  BY <1>2, MatchingInvariance, PTL DEF MatchingSpec
<1> QED
  BY <1>3 DEF Answered, AloneIsAnswered

\* A tap is told of a match once, and of an error only in a race.
THEOREM TapsAnswered == MatchingSpec => TapsAreAnswered
BY Announcement, Answers, PTL DEF TapsAreAnswered
=============================================================================

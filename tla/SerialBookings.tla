--------------------------- MODULE SerialBookings ---------------------------
(***************************************************************************)
(* Bookings without the overlap of two transitions of one booking: what    *)
(* they promise then is SessionLedger, which knows no requests.            *)
(***************************************************************************)
EXTENDS Bookings

\* The ledgers are summed over finitely many bookings.
ASSUME BookingAssumption == IsFiniteSet(Booking)

\* Two transitions in flight are of different bookings.
Apart ==
    \A r, s \in Request : r # s /\ pc[r] = "transition" /\ pc[s] = "transition"
        => req[r].booking # req[s].booking

SerialNext == Next /\ Apart'

SerialSpec == Init /\ [][SerialNext]_vars

\* The promise, with the totals that compute_summary folds from the ledgers:
\* without overlap on a booking every score is the sum of single outcomes.
Ledger == INSTANCE SessionLedger WITH
    stage <- [b \in Booking |-> booking[b].status],
    honor <- [u \in User |-> HonorTotal(honorEvents, u)],
    sessions <- [u \in User |-> SessionsCompleted(rankEvents, u)]
LedgerRefined == Ledger!Spec
=============================================================================

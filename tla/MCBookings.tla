----------------------------- MODULE MCBookings -----------------------------
(***************************************************************************)
(* Instances of Bookings and SerialBookings for TLC.                       *)
(***************************************************************************)
EXTENDS SerialBookings, TLC

CONSTANTS u1, u2, u3, m1, m2

\* u1 is matched with u2 and, where there is a second match, with u3.
Pairs == (m1 :> {u1, u2}) @@ (m2 :> {u1, u3})
MCParties == [m \in Match |-> Pairs[m]]

-----------------------------------------------------------------------------
\* A user's sessions_completed is the number of completed bookings he took part
\* in: "one rank event per completed session" (services/rank.py).
SessionsCounted ==
    \A u \in User : SessionsCompleted(rankEvents, u) =
        Cardinality({b \in Booking : /\ booking[b].status = "completed"
                                     /\ u \in Participants(b)})
=============================================================================

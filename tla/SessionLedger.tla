--------------------------- MODULE SessionLedger ----------------------------
(***************************************************************************)
(* What bookings promise to their participants: every session has one      *)
(* outcome, decided once, and a user's honor and session count are exactly *)
(* what the outcomes of his sessions add up to.  There are no requests     *)
(* here, and each decision is one step.                                    *)
(***************************************************************************)
EXTENDS Integers

CONSTANTS User, Booking

VARIABLES
    stage,    \* the status of every booking
    honor,    \* the sum of every user's honor deltas
    sessions  \* the sessions every user has completed

ledger == <<stage, honor, sessions>>

Init ==
    /\ stage = [b \in Booking |-> "none"]
    /\ honor = [u \in User |-> 0]
    /\ sessions = [u \in User |-> 0]

\* An agreement is proposed, accepted, refused or withdrawn for free.
Negotiate(b) ==
    /\ \/ stage[b] = "none" /\ stage' = [stage EXCEPT ![b] = "proposed"]
       \/ /\ stage[b] = "proposed"
          /\ \E s \in {"confirmed", "declined", "cancelled"} :
                 stage' = [stage EXCEPT ![b] = s]
    /\ UNCHANGED <<honor, sessions>>

\* Both play: one point of honor and one session each.
Play(b, u, v) ==
    /\ stage[b] = "confirmed"
    /\ stage' = [stage EXCEPT ![b] = "completed"]
    /\ honor' = [honor EXCEPT ![u] = @ + 1, ![v] = @ + 1]
    /\ sessions' = [sessions EXCEPT ![u] = @ + 1, ![v] = @ + 1]

\* u claims that v did not come.
Accuse(b, u, v) ==
    /\ stage[b] = "confirmed"
    /\ stage' = [stage EXCEPT ![b] = "no_show"]
    /\ honor' = [honor EXCEPT ![u] = @ - 2, ![v] = @ - 5]
    /\ UNCHANGED sessions

\* u cancels what was agreed.
CancelLate(b, u) ==
    /\ stage[b] = "confirmed"
    /\ stage' = [stage EXCEPT ![b] = "cancelled"]
    /\ honor' = [honor EXCEPT ![u] = @ - 1]
    /\ UNCHANGED sessions

Next ==
    \E b \in Booking :
        \/ Negotiate(b)
        \/ \E u, v \in User : u # v /\ (Play(b, u, v) \/ Accuse(b, u, v))
        \/ \E u \in User : CancelLate(b, u)

Spec == Init /\ [][Next]_ledger
=============================================================================

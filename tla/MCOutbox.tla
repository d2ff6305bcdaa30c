------------------------------ MODULE MCOutbox ------------------------------
(***************************************************************************)
(* The two ends of the outbox for TLC: the requests on bookings that write *)
(* it, and the cycles that deliver it.  They share only its rows, which    *)
(* each module has for itself, so that a behaviour is of one or the other. *)
(***************************************************************************)
EXTENDS MCBookings, Notifications

OutboxInit == Init /\ DeliveryInit

OutboxNext ==
    \/ DeliveryInit /\ Next /\ UNCHANGED deliveryVars
    \/ Init /\ DeliveryNext /\ UNCHANGED vars

\* Fair as FairDeliverySpec; the requests may stop.
OutboxSpec == OutboxInit /\ [][OutboxNext]_<<vars, deliveryVars>> /\ DeliveryFairness
=============================================================================

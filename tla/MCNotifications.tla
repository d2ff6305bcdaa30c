--------------------------- MODULE MCNotifications --------------------------
(***************************************************************************)
(* Instances of Notifications for TLC.                                     *)
(***************************************************************************)
EXTENDS Notifications

\* Two workers over an outbox that no longer changes: users act before the first
\* cycle and not after it.
Untouched ==
    /\ \A w \in Worker : stage[w] = "idle"
    /\ \A e \in Event : pushes[e] = 0 /\ ~event[e].sent /\ event[e].failed = "no"

\* Rows stay: the other instance deletes events and unregisters tokens.
Kept ==
    /\ \A e \in Event : event'[e].row # "deleted"
    /\ \A t \in Token : owner[t] # Nothing => owner'[t] # Nothing

QuietSpec ==
    /\ DeliveryInit /\ [][DeliveryNext /\ (Users => Untouched /\ Kept)]_deliveryVars
    /\ DeliveryFairness
=============================================================================

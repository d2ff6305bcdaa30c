---------------------------- MODULE EventRoster -----------------------------
(***************************************************************************)
(* What group events promise: a roster with a fixed number of places, in   *)
(* which the host always has one, that others enter and leave while the    *)
(* event is active and that is final once the event is over.  Each change  *)
(* is one step; there are no requests and no locks here.                   *)
(***************************************************************************)
EXTENDS Integers, FiniteSets

CONSTANTS User, Event, Capacity

VARIABLES
    stage,  \* none, active, cancelled or completed
    host,   \* who opened each event
    places, \* how many may take part
    roster  \* who takes part

board == <<stage, host, places, roster>>

Init == stage = [e \in Event |-> "none"] /\ roster = [e \in Event |-> {}]

Open(e, u, n) ==
    /\ stage[e] = "none"
    /\ stage' = [stage EXCEPT ![e] = "active"]
    /\ host' = [host EXCEPT ![e] = u]
    /\ places' = [places EXCEPT ![e] = n]
    /\ roster' = [roster EXCEPT ![e] = {u}]

Enter(e, u) ==
    /\ stage[e] = "active" /\ u \notin roster[e]
    /\ Cardinality(roster[e]) < places[e]
    /\ roster' = [roster EXCEPT ![e] = roster[e] \cup {u}]
    /\ UNCHANGED <<stage, host, places>>

Quit(e, u) ==
    /\ stage[e] = "active" /\ u \in roster[e] /\ u # host[e]
    /\ roster' = [roster EXCEPT ![e] = roster[e] \ {u}]
    /\ UNCHANGED <<stage, host, places>>

Close(e, outcome) ==
    /\ stage[e] = "active"
    /\ stage' = [stage EXCEPT ![e] = outcome]
    /\ UNCHANGED <<host, places, roster>>

Next ==
    \E e \in Event :
        \/ \E u \in User, n \in Capacity : Open(e, u, n)
        \/ \E u \in User : Enter(e, u) \/ Quit(e, u)
        \/ \E outcome \in {"cancelled", "completed"} : Close(e, outcome)

Spec == Init /\ [][Next]_board
=============================================================================

------------------------------ MODULE MCDetails ------------------------------
(***************************************************************************)
(* The screens of one thing, and the conversation: a behaviour opens one   *)
(* of them.  In a conversation either messages are exchanged or proposals  *)
(* are decided on; the two do not touch each other's state.                *)
(***************************************************************************)
EXTENDS Details, Chat

CONSTANT k

Talks == booked' = NoCards /\ chat' = "front" /\ ~blocking'
Plans == history' = <<>> /\ ~draft' /\ sending' = None /\ socket' \in {"opening", "closed"}

DetailsInit == DetailInit /\ ChatInit

DetailsNext ==
    \/ chat = None /\ DetailNext /\ UNCHANGED chatVars
    \/ page = None /\ ChatNext /\ (Talks \/ Plans) /\ UNCHANGED detailVars

DetailsSpec ==
    /\ DetailsInit /\ [][DetailsNext]_<<detailVars, chatVars>>
    /\ DetailFairness /\ ChatFairness

\* Every variable of the detail screens and of the conversation keeps its type.
DetailsTypeOK == DetailTypeOK /\ ChatTypeOK

\* Nothing that a screen or the conversation waits for keeps it waiting.
NothingHangs == BusyEnds /\ ChatSettles
=============================================================================

------------------------------- MODULE MCFeeds -------------------------------
(***************************************************************************)
(* The lists, the badges and the forms of the app: a behaviour opens one   *)
(* of them.                                                                *)
(***************************************************************************)
EXTENDS Feeds, Reputations, Forms

CONSTANTS p, q, gym, golf, c1, c2

\* A list is opened on gym and has p there.  Discovery, where acts are per sport, may
\* have p under golf too; the other screens that settle rows may have a second one.
Drawn ==
    screen = None /\ screen' # None =>
        /\ chip' = gym /\ p \in listed'[gym]
        /\ screen' # "Discovery" => listed'[golf] = listed'[gym]
        /\ screen' \notin {"Events", "Blocked"} => \A c \in Chip : q \notin listed'[c]

FeedsInit == FeedInit /\ ReputationInit /\ FormInit

FeedsNext ==
    \/ /\ shown = None /\ form = None
       /\ FeedNext /\ Drawn /\ UNCHANGED <<reputationVars, formVars>>
    \/ /\ screen = None /\ form = None
       /\ ReputationNext /\ UNCHANGED <<feedVars, formVars>>
    \/ /\ screen = None /\ shown = None
       /\ FormNext /\ UNCHANGED <<feedVars, reputationVars>>

FeedsSpec ==
    /\ FeedsInit /\ [][FeedsNext]_<<feedVars, reputationVars, formVars>>
    /\ FeedFairness /\ ReputationFairness /\ FormFairness

\* Every variable of the lists, the badges and the forms keeps its type.
FeedsTypeOK == FeedTypeOK /\ ReputationTypeOK /\ FormTypeOK

\* No spinner of a list, a badge or a form stays.
NothingHangs == SpinnersStop /\ BadgeSettles /\ FormSettles
=============================================================================

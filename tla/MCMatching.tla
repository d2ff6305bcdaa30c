----------------------------- MODULE MCMatching -----------------------------
(***************************************************************************)
(* The partner side of the API: a behaviour is of the taps that match a    *)
(* pair, or of the bookings of pairs that are matched.                     *)
(***************************************************************************)
EXTENDS MCBookings, Matching

MCInit == Init /\ MatchingInit

MCNext ==
    \/ MatchingInit /\ SerialNext /\ UNCHANGED matchingVars
    \/ Init /\ MatchingNext /\ UNCHANGED vars

MCSpec == MCInit /\ [][MCNext]_<<vars, matchingVars>> /\ MatchingFairness
=============================================================================

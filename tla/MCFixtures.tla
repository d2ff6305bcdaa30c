----------------------------- MODULE MCFixtures -----------------------------
(***************************************************************************)
(* Challenges from the empty database with the pairings drawn up front, so *)
(* that TLC can check liveness, which excludes symmetry: c1 is between     *)
(* Alice and Bob, and c2 is a second meeting of the two or a meeting of    *)
(* two others on the same ladder.                                          *)
(***************************************************************************)
EXTENDS Challenges, TLC

CONSTANTS alice, bob, carol, dave, c1, c2

Fixtures == (c1 :> {<<alice, bob>>})
         @@ (c2 :> {<<alice, bob>>, <<bob, carol>>, <<carol, dave>>})

\* Action constraint: challenges are created as drawn.  Nothing is assumed about
\* the steps of requests, and fairness concerns those alone.
Drawn ==
    \A k \in Challenge : challenge'[k].status # "none" =>
        <<challenge'[k].challenger, challenge'[k].opponent>> \in Fixtures[k]
=============================================================================

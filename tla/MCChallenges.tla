---------------------------- MODULE MCChallenges ----------------------------
(* Challenges on small instances: users, challenges and request slots are   *)
(* interchangeable model values.                                            *)
EXTENDS Challenges, TLC

CONSTANT Played  \* a challenge whose result is already on the ladder

Symmetry ==
    Permutations(Challenge \ {Played}) \cup Permutations(User) \cup Permutations(Request)

\* The ladder in mid-season: the result of Played has been applied, so its two
\* players have rank profiles and the winner holds the title, and the other
\* challenges have been accepted.  Init reaches this state by CreateChallenge,
\* accept and submit requests that do not overlap.
SeasonInit ==
    /\ \E w, x \in User, l \in Ladder :
       /\ w # x
       /\ \E pair \in [Challenge -> {p \in User \X User : p[1] # p[2]}] :
             /\ pair[Played] = <<w, x>>
             /\ challenge = [c \in Challenge |->
                   [status |-> IF c = Played THEN "verified" ELSE "accepted",
                    challenger |-> pair[c][1], opponent |-> pair[c][2], ladder |-> l]]
       /\ submission = [c \in Challenge |-> [u \in User |->
             IF c = Played /\ u \in {w, x} THEN w ELSE Nobody]]
       /\ profile = [m \in Ladder |-> [u \in User |->
             CASE m = l /\ u = w -> WinnerRow(BaselineProfile, BaselineProfile)
               [] m = l /\ u = x -> LoserRow(BaselineProfile, BaselineProfile)
               [] OTHER -> BaselineProfile]]
       /\ profileRow = {<<l, w>>, <<l, x>>}
       /\ holder = [m \in Ladder |-> IF m = l THEN w ELSE Nobody]
       /\ history = [m \in Ladder |->
             IF m = l THEN <<[previous |-> Nobody, new |-> w, source |-> Played]>> ELSE <<>>]
       /\ applied = [c \in Challenge |-> IF c = Played THEN 1 ELSE 0]
    /\ rowLock = [c \in Challenge |-> Nobody]
    /\ profileLock = [m \in Ladder |-> [u \in User |-> Nobody]]
    /\ pc = [r \in Request |-> "idle"]
    /\ req = [r \in Request |-> NoArguments]
    /\ seen = [r \in Request |-> NothingLoaded]

SeasonSpec == SeasonInit /\ [][Next]_vars
=============================================================================

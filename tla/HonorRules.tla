----------------------------- MODULE HonorRules -----------------------------
(***************************************************************************)
(* The arithmetic of services/honor_system.py: what one recorded result    *)
(* does to the two rank profiles it touches.  A rank profile is the row of *)
(* one user in one (sport, area); the pair (sport, area) is a "ladder".    *)
(*                                                                         *)
(* The ORM writes back only the columns whose value differs from the one   *)
(* it loaded, so a column the handler assigned its old value keeps what    *)
(* another transaction put there meanwhile.  WinnerRow and LoserRow        *)
(* therefore take two rows: the committed row and the one the transaction  *)
(* loaded.                                                                 *)
(***************************************************************************)
EXTENDS Integers

CONSTANTS DefaultRating, WinDelta, LossDelta, RatingFloor

\* The economy of models/honor_system.py: tunable, but a win never lowers a
\* rating, a loss never raises one, and nobody starts below the floor.
ASSUME EconomyAssumption ==
    /\ DefaultRating \in Nat /\ WinDelta \in Nat \ {0}
    /\ LossDelta \in Nat /\ RatingFloor \in Nat
    /\ RatingFloor <= DefaultRating

\* The aggregate columns of a rank profile; the CHECK constraints of the
\* table are the lower bounds.
RankProfile == [rating : Nat, wins : Nat, losses : Nat, streak : Nat]

\* The row get_or_create_rank_profile inserts, and the read-only default
\* get_my_rank_profile returns when there is no row.
BaselineProfile ==
    [rating |-> DefaultRating, wins |-> 0, losses |-> 0, streak |-> 0]

\* Fault: the floor is forgotten.
RatingAfterLossUnclamped(rating) == rating - LossDelta

\* max(RATING_FLOOR, loser.rating - RATING_LOSS_DELTA)
RatingAfterLoss(rating) ==
    IF rating - LossDelta < RatingFloor THEN RatingFloor ELSE rating - LossDelta

\* A column is written only when the handler changed the value it loaded.
Written(committed, loaded, assigned) ==
    IF assigned = loaded THEN committed ELSE assigned

\* Fault: a win that is not counted.
WinnerRowUncounted(committed, loaded) ==
    [rating |-> Written(committed.rating, loaded.rating, loaded.rating + WinDelta),
     wins   |-> committed.wins,
     losses |-> committed.losses,
     streak |-> Written(committed.streak, loaded.streak, loaded.streak + 1)]

\* The winner's row once the transaction that loaded "loaded" has written it.
WinnerRow(committed, loaded) ==
    [rating |-> Written(committed.rating, loaded.rating, loaded.rating + WinDelta),
     wins   |-> Written(committed.wins, loaded.wins, loaded.wins + 1),
     losses |-> committed.losses,
     streak |-> Written(committed.streak, loaded.streak, loaded.streak + 1)]

\* The loser's row once the transaction that loaded "loaded" has written it.
LoserRow(committed, loaded) ==
    [rating |-> Written(committed.rating, loaded.rating, RatingAfterLoss(loaded.rating)),
     wins   |-> committed.wins,
     losses |-> Written(committed.losses, loaded.losses, loaded.losses + 1),
     streak |-> Written(committed.streak, loaded.streak, 0)]
=============================================================================

----------------------------- MODULE Reputation -----------------------------
(***************************************************************************)
(* The policy of services/rank.py: what each outcome of a booking costs or *)
(* earns, and how the read side folds the two append-only ledgers.         *)
(*                                                                         *)
(* A ledger is read as its contents: how many rows it holds for a booking, *)
(* a user and a reason.  A booking has one sport, so the fold per sport is *)
(* the fold over the bookings of that sport.  The score is the fold plus a *)
(* baseline, clamped, and the tier is a band of the points: neither tells  *)
(* more than the fold, and they are left out.                              *)
(***************************************************************************)
EXTENDS Integers, Functions

HonorReason ==
    {"session_completed", "no_show_against_user", "no_show_marked_by_user",
     "late_cancellation"}

HonorDelta ==
    [session_completed |-> 1, no_show_against_user |-> -5,
     no_show_marked_by_user |-> -2, late_cancellation |-> -1]

\* The sum of the honor deltas of one user, rows[b][u][k] rows of each kind.
HonorTotal(rows, u) ==
    SumFunction([b \in DOMAIN rows |->
        SumFunction([k \in HonorReason |-> HonorDelta[k] * rows[b][u][k]])])

\* sessions_completed of compute_summary is the number of rank rows; every rank
\* row carries the same positive delta.
SessionsCompleted(rows, u) == SumFunction([b \in DOMAIN rows |-> rows[b][u]])
=============================================================================

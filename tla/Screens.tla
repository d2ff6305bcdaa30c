-------------------------------- MODULE Screens ------------------------------
(***************************************************************************)
(* What the modules of the screens share.                                  *)
(***************************************************************************)

CONSTANT None \* null, and no screen
=============================================================================

--------------------------- MODULE MCSupervision ---------------------------
(***************************************************************************)
(* Supervision with the times of the code, in units of two seconds: they   *)
(* fit together as the proofs assume.                                      *)
(***************************************************************************)
EXTENDS Supervision

ASSUME TimesFit == Timing
=============================================================================

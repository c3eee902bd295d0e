--------------------------- MODULE MCComputation ---------------------------
(* TLC instance of Computation: two values, two reasons. *)
EXTENDS Computation
=============================================================================

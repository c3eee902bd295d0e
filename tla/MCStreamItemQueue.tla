-------------------------- MODULE MCStreamItemQueue --------------------------
(* TLC instance of StreamItemQueue. *)
EXTENDS StreamItemQueue
=============================================================================

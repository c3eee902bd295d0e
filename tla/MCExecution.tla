------------------------------ MODULE MCExecution ------------------------------
(***************************************************************************)
(* A response tree for TLC:                                                *)
(*   root { a { b! c [ d! e! ] } f! }                                      *)
(* a has a deferred fragment; the resolver of b may trigger the signal;    *)
(* the list c may be given as an asynchronous iterable.                    *)
(***************************************************************************)
EXTENDS Execution, TLC

MCParent == (1 :> 0) @@ (2 :> 1) @@ (3 :> 1) @@ (4 :> 3) @@ (5 :> 3) @@ (6 :> 0)
================================================================================

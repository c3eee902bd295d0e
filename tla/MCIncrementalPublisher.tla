----------------------- MODULE MCIncrementalPublisher -----------------------
(* Work graphs for TLC, see MCWorkQueue. *)
EXTENDS IncrementalPublisher, TLC

CONSTANTS P, Q, C,         \* groups
          t1, t2, t3, t4,  \* tasks
          s1               \* a stream

SharedParent    == (P :> NoGroup) @@ (Q :> NoGroup) @@ (C :> Q)
OverlapGroupsOf == (t2 :> {C}) @@ (t3 :> {P, C}) @@ (t4 :> {P, Q})
SharedLength    == (P :> 0) @@ (Q :> 1) @@ (C :> 2)

\* One fragment with three tasks.
SingleParent    == P :> NoGroup
SingleGroupsOf  == (t1 :> {P}) @@ (t2 :> {P}) @@ (t3 :> {P})
SingleLength    == P :> 0
=============================================================================

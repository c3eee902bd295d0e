---------------------------- MODULE MCWorkQueue ----------------------------
(***************************************************************************)
(* Work graphs for TLC: small forests of groups with the ways in which     *)
(* execution groups can share them.                                        *)
(***************************************************************************)
EXTENDS WorkQueue, TLC

CONSTANTS P, Q, C, D,      \* groups
          t1, t2, t3, t4,  \* tasks
          s1, s2           \* streams

\* Two fragments side by side, the second with a nested one:
\*   ... @defer(P) { a x }  ... @defer(Q) { b x ... @defer(C) { a } }
\* t3 is shared by a fragment and one nested in its sibling, t4 by the siblings.
SharedParent   == (P :> NoGroup) @@ (Q :> NoGroup) @@ (C :> Q)
SharedGroupsOf == (t1 :> {P}) @@ (t2 :> {Q}) @@ (t3 :> {P, C}) @@ (t4 :> {P, Q})

\* Two fragments nested in a third one, with a shared task:
\*   ... @defer(P) { a ... @defer(C) { b x } ... @defer(D) { c x } }
ForkParent   == (P :> NoGroup) @@ (C :> P) @@ (D :> P)
ForkGroupsOf == (t1 :> {P}) @@ (t2 :> {C}) @@ (t3 :> {D}) @@ (t4 :> {C, D})
=============================================================================

------------------------------ MODULE Deferral ------------------------------
(***************************************************************************)
(* How the fields of an operation are distributed over deferred groups,    *)
(* whatever the document, the types and the resolvers are: each object     *)
(* that is completed adds its fields, each with the executor it is handed  *)
(* to and the delivery groups that are known there.                        *)
(*                                                                         *)
(* What collect_fields.py finds in an object is left open, but for one     *)
(* thing: a selection is collected with the defer usage of the field or    *)
(* fragment that it is in, or with a new one that has it as its parent.    *)
(* The module Requests is shown to implement this specification; and from  *)
(* it follows the shape of the work that WorkQueue assumes.                *)
(***************************************************************************)
EXTENDS SequencesExt

CONSTANT Defers  \* the @defer that are met in objects

\* A defer usage is the sequence of the @defer that it is nested in, outermost first.
\* None in the code:
NoUsage == <<>>

VARIABLE planned  \* the fields that have been handed to an executor so far, each with
                  \*   object, key : its place in the response
                  \*   met    : the defer usages of its field details
                  \*   usages : the defer_usage_set of its executor
                  \*   map    : its delivery_group_map; a DeliveryGroup is given by its
                  \*            usage and by the object in which it was made

\* get_filtered_defer_usage_set()
Outermost(met) ==
  IF NoUsage \in met THEN {} ELSE {u \in met : \A w \in met : ~ IsStrictPrefix(w, u)}

NoMap == [u \in {} |-> <<>>]

\* get_new_delivery_group_map() for an object that is completed with the usages met
IsExtended(map, old, met, object) ==
  LET new == DOMAIN map \ DOMAIN old
  IN /\ new \subseteq Seq(Defers) \ {NoUsage}
     /\ \A u \in new : Front(u) \in met \cup new
     /\ map = [u \in DOMAIN old \cup new |-> IF u \in new THEN object ELSE old[u]]

\* The fields of one object, one for each response key (build_execution_plan()): all get the
\* same map, and each the executor for its outermost usages.
New == planned' \ planned
Plan(object, old, met) ==
  /\ planned \subseteq planned'
  /\ \A c \in planned : c.object # object
  /\ \A c \in New :
        /\ c.object = object
        /\ IsExtended(c.map, old, met, object)
        /\ c.met # {} /\ c.met \subseteq met \cup (DOMAIN c.map \ DOMAIN old)
        /\ c.usages = Outermost(c.met)
  /\ \A c, d \in New : c.map = d.map /\ (c.key = d.key => c = d)

\* execute_collected_root_fields()
PlanRoot == Plan(<<>>, NoMap, {NoUsage})

\* execute_collected_subfields() for an object that is the value of a field, or in it
IsIn(object, f) == IsPrefix(Append(f.object, f.key), object)
PlanObject(f, object) == IsIn(object, f) /\ Plan(object, f.map, f.met)

\* The same for an item that is streamed: handle_stream() has left the usages behind, and
\* complete_stream_item() the map.
PlanItem(f, object) == IsIn(object, f) /\ Plan(object, NoMap, {NoUsage})

\* The next request.
Restart == planned' = {}

Next ==
  \/ PlanRoot
  \/ \E f \in planned, c \in New : PlanObject(f, c.object) \/ PlanItem(f, c.object)
  \/ Restart

Spec == planned = {} /\ [][Next]_planned

-----------------------------------------------------------------------------
(* The work: delivery groups with their parents, and the groups of the     *)
(* execution group that a field is in.                                     *)

DeliveryGroup(u, map) == [usage |-> u, object |-> map[u]]
DeliveryGroups == UNION {{DeliveryGroup(u, c.map) : u \in DOMAIN c.map} : c \in planned}
GroupsOf(c) == {DeliveryGroup(u, c.map) : u \in c.usages}

\* DeliveryGroup.parent
IsParent(p, g) ==
  \E c \in planned : /\ g.usage \in DOMAIN c.map /\ g.object = c.map[g.usage]
                     /\ Front(g.usage) # NoUsage
                     /\ p = DeliveryGroup(Front(g.usage), c.map)

\* The proper ancestors of a group, as in WorkQueue.
Ancestors(g) ==
  {a \in DeliveryGroups : \A S \in SUBSET DeliveryGroups :
      (\A h \in S \cup {g} : \A p \in DeliveryGroups : IsParent(p, h) => p \in S) => a \in S}

\* The groups of an execution group, and what is nested in them.
Scope(f) == {g \in DeliveryGroups : g \in GroupsOf(f) \/ GroupsOf(f) \cap Ancestors(g) # {}}

-----------------------------------------------------------------------------
(* Properties.                                                             *)

\* Every @defer that a field is met with has got a delivery group before it is looked up
\* (delivery_group_map[defer_usage] in incremental_executor.py).
UsagesHaveGroups ==
  \A c \in planned : c.usages \subseteq c.met /\ c.met \subseteq DOMAIN c.map \cup {NoUsage}

\* The delivery groups form a forest: a group has at most one parent, which is a group, and
\* none is its own ancestor (ForestAssumption of WorkQueue).
GroupsFormForest ==
  \A g \in DeliveryGroups :
     /\ \A p, q : IsParent(p, g) /\ IsParent(q, g) => p = q
     /\ Front(g.usage) # NoUsage => \E p \in DeliveryGroups : IsParent(p, g)
     /\ g \notin Ancestors(g)

\* The groups of an execution group are not nested in each other (AntichainAssumption of
\* WorkQueue; get_filtered_defer_usage_set()).
TasksAreAntichains ==
  \A c \in planned : \A g, h \in GroupsOf(c) : g \notin Ancestors(h)

\* A field comes with the initial result (or with the item) if it is selected outside of all
\* @defer; otherwise it is in an execution group, and comes no later than any of the groups
\* whose @defer select it.
NothingComesLate ==
  \A c \in planned :
     /\ (c.usages = {}) = (NoUsage \in c.met)
     /\ NoUsage \notin c.met =>
           \A u \in c.met : LET g == DeliveryGroup(u, c.map)
                            IN g \in GroupsOf(c) \/ GroupsOf(c) \cap Ancestors(g) # {}

\* What an execution group plans lies within its groups, and nothing of it is left for the
\* initial result: a new execution group has groups, and these, like all the delivery groups
\* that are made, are among its own or nested in them (TaskWork of WorkQueue).
WorkIsNested(f) ==
  \A c \in New :
     /\ c.usages # f.usages => c.usages # {}
     /\ f.usages # {} => /\ GroupsOf(c) \subseteq Scope(f)'
                         /\ \A u \in DOMAIN c.map \ DOMAIN f.map :
                               DeliveryGroup(u, c.map) \in Scope(f)'
WorkStaysNested ==
  [][\A f \in planned, c \in New : PlanObject(f, c.object) => WorkIsNested(f)]_planned
=============================================================================

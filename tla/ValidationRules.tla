-------------------------- MODULE ValidationRules --------------------------
(***************************************************************************)
(* The rules of src/graphql/validation/rules for executable documents.     *)
(* Every rule is an operator on a Context of Documents that tells whether  *)
(* the rule reports an error; what the error says is left out.             *)
(***************************************************************************)
EXTENDS Collecting, OverlappingFields

\* Two elements of a sequence with the same value of a key.
Repeats(seq, key(_)) == \E i, j \in DOMAIN seq : i < j /\ key(seq[i]) = key(seq[j])
Names(seq) == {e.name : e \in Range(seq)}
NameOf(e) == e.name

-----------------------------------------------------------------------------
(* Definitions and operations.                                             *)

ExecutableDefinitions(C) ==
    \E d \in DOMAIN C.doc : C.doc[d].kind \notin {"operation", "fragment"}

KnownOperationTypes(C) ==
    \E d \in Operations(C.doc) : RootType(C.schema, C.doc[d].op) = ""

UniqueOperationNames(C) ==
    Repeats(SelectSeq(C.doc, LAMBDA def : def.kind = "operation" /\ def.name # ""), NameOf)

LoneAnonymousOperation(C) ==
    /\ Cardinality(Operations(C.doc)) > 1
    /\ \E d \in Operations(C.doc) : C.doc[d].name = ""

\* The fields of a subscription are collected without variables.
SubscriptionFields(C, d) ==
    CollectFields(CollectContext(C.schema, C.doc, NoVariables,
                                 RootType(C.schema, "subscription"), <<>>, TRUE), d)
Subscriptions(C) ==
    {d \in Operations(C.doc) : C.doc[d].op = "subscription"
                               /\ RootType(C.schema, "subscription") # ""}
SelectsMore(found) ==
    \/ found.forbidden
    \/ Cardinality(ResponseKeys(found.fields)) > 1
    \/ \E key \in ResponseKeys(found.fields) :
          Head(Group(found.fields, key)).node.name \in {"__typename", "__schema", "__type"}
SingleFieldSubscriptions(C) == \E d \in Subscriptions(C) : SelectsMore(SubscriptionFields(C, d))

\* A @defer whose arguments are not valid makes the collection raise, and with
\* it validate().
SubscriptionRaises(C) == \E d \in Subscriptions(C) : ~SubscriptionFields(C, d).ok

-----------------------------------------------------------------------------
(* Types and fields.                                                       *)

KnownTypeNames(C) ==
    \E v \in C.visits :
        \/ v.node.on # "" /\ v.node.on \notin DOMAIN C.schema.types
        \/ \E d \in Range(v.node.vars) : NamedOf(d.type) \notin DOMAIN C.schema.types

FragmentsOnCompositeTypes(C) ==
    \E v \in VisitsOf(C, "inline") \cup VisitsOf(C, "fragment") :
        v.node.on \in DOMAIN C.schema.types /\ ~IsCompositeType(C.schema, v.node.on)

VariablesAreInputTypes(C) ==
    \E v \in C.visits : \E d \in Range(v.node.vars) :
        LET type == TypeFromAst(C.schema, d.type)
        IN type # NoType /\ ~IsInputType(C.schema, type)

ScalarLeafs(C) ==
    \E v \in VisitsOf(C, "field") :
        /\ v.type # NoType
        /\ IsLeafType(C.schema, NamedOf(v.type)) # (v.node.sel = <<>>)

FieldsOnCorrectType(C) ==
    \E v \in VisitsOf(C, "field") : v.parent # "" /\ v.field = NoField

-----------------------------------------------------------------------------
(* Fragments.                                                              *)

UniqueFragmentNames(C) ==
    Repeats(SelectSeq(C.doc, LAMBDA def : def.kind = "fragment"), NameOf)

KnownFragmentNames(C) ==
    \E v \in VisitsOf(C, "spread") : v.node.name \notin FragmentNames(C.doc)

NoUnusedFragments(C) ==
    FragmentNames(C.doc) \ UNION {ReferencedFragments(C.doc, d) : d \in Operations(C.doc)} # {}

FragmentType(C, name) ==
    IF name \in FragmentNames(C.doc)
    THEN CompositeName(C.schema, <<C.doc[GetFragment(C.doc, name)].on>>) ELSE ""

PossibleFragmentSpreads(C) ==
    \/ \E v \in VisitsOf(C, "inline") :
          LET on == CompositeName(C.schema, v.type)
          IN on # "" /\ v.parent # "" /\ ~DoTypesOverlap(C.schema, on, v.parent)
    \/ \E v \in VisitsOf(C, "spread") :
          LET on == FragmentType(C, v.node.name)
          IN on # "" /\ v.parent # "" /\ ~DoTypesOverlap(C.schema, on, v.parent)

\* detect_cycle_recursive(): a depth first search that visits every fragment
\* once; "spreadPath" are the fragments on the way.
RECURSIVE DetectCycle(_, _, _, _)
DetectSpreads(doc, spreads, spreadPath, acc) ==
    FoldSet(LAMBDA name, found :
                CASE name \in spreadPath -> [found EXCEPT !.cycle = TRUE]
                  [] name \notin spreadPath /\ name \in FragmentNames(doc) ->
                        DetectCycle(doc, name, spreadPath, found)
                  [] OTHER -> found,
            acc, spreads)
DetectCycle(doc, name, spreadPath, acc) ==
    IF name \in acc.visited THEN acc
    ELSE DetectSpreads(doc, SpreadNames(doc[GetFragment(doc, name)].sel),
                       spreadPath \cup {name}, [acc EXCEPT !.visited = @ \cup {name}])
NoFragmentCycles(C) ==
    FoldSet(LAMBDA d, acc : DetectCycle(C.doc, C.doc[d].name, {}, acc),
            [visited |-> {}, cycle |-> FALSE], Fragments(C.doc)).cycle

-----------------------------------------------------------------------------
(* Variables.                                                              *)

UniqueVariableNames(C) == \E d \in Operations(C.doc) : Repeats(C.doc[d].vars, NameOf)

NoUndefinedVariables(C) ==
    \E d \in Operations(C.doc) : \E u \in RecursiveUsages(C, d) :
        u.own = <<>> /\ u.use.name \notin Names(C.doc[d].vars)

NoUnusedVariables(C) ==
    \/ \E d \in Fragments(C.doc) :
          ~(Names(C.doc[d].vars) \subseteq {u.use.name : u \in VariableUsages(C, d)})
    \/ \E d \in Operations(C.doc) :
          ~(Names(C.doc[d].vars)
              \subseteq {u.use.name : u \in {w \in RecursiveUsages(C, d) : w.own = <<>>}})

\* Mutant: a nullable variable may stand where no null is allowed.
AllowedNullable(S, varType, varDefault, type, default) ==
    IsTypeSubTypeOf(S, NullableType(varType), NullableType(type))

AllowedVariableUsage(S, varType, varDefault, type, default) ==
    IF IsNonNull(type) /\ ~IsNonNull(varType)
    THEN /\ varDefault \notin {Undefined, Null} \/ default # Undefined
         /\ IsTypeSubTypeOf(S, varType, OfType(type))
    ELSE IsTypeSubTypeOf(S, varType, type)

\* The type of the position must itself be an input object, not a list of one
\* or a non-null one.
NullableInOneOf(S, varType, parent) ==
    /\ Len(parent) = 1 /\ GetType(S, NamedOf(parent)).oneOf
    /\ ~IsNonNull(varType)

VariablesInAllowedPosition(C) ==
    \E d \in Operations(C.doc) : \E u \in RecursiveUsages(C, d) :
        LET defs == IF u.own # <<>> THEN u.own
                    ELSE SelectSeq(C.doc[d].vars, LAMBDA v : v.name = u.use.name)
            type == TypeFromAst(C.schema, Last(defs).type)
        IN /\ defs # <<>> /\ u.use.type # NoType /\ type # NoType
           /\ \/ ~AllowedVariableUsage(C.schema, type, Last(defs).default,
                                       u.use.type, u.use.default)
              \/ NullableInOneOf(C.schema, type, u.use.parent)

-----------------------------------------------------------------------------
(* Directives.                                                             *)

KnownDirectives(C) ==
    \E a \in Applied(C) : a.location \notin GetDirective(C.schema, a.dir.name).locations

UniqueDirectivesPerLocation(C) ==
    \E a \in Annotated(C) :
        Repeats(SelectSeq(a.dirs, LAMBDA d : /\ d.name \in DOMAIN C.schema.directives
                                             /\ ~C.schema.directives[d.name].repeatable), NameOf)

\* forbid_defer_stream(): a fragment counts as visited when it has been left,
\* so that a cycle of fragments is an endless recursion.  It is stopped by the
\* limit of errors when every round reports one, or else by the interpreter:
\* "end" tells which.  "entered" has what was found before each fragment.
RECURSIVE ForbidDeferStream(_, _, _, _)
Forbid(node, name, acc) ==
    IF HasDirective(node, {name}) THEN [acc EXCEPT !.errors = @ + 1] ELSE acc
ForbidSelection(doc, node, entered, acc) ==
    CASE acc.end # "none" -> acc
      [] node.kind = "field" -> Forbid(node, "stream", acc)
      [] node.kind = "inline" ->
            ForbidDeferStream(doc, node.sel, entered, Forbid(node, "defer", acc))
      [] node.kind = "spread" /\ node.name \in acc.visited -> acc
      [] node.name \in DOMAIN entered /\ entered[node.name].visited = acc.visited ->
            LET found == Forbid(node, "defer", acc)
            IN [found EXCEPT !.end = IF found.errors > entered[node.name].errors
                                     THEN "aborted" ELSE "overflow"]
      [] node.kind = "spread" /\ node.name \notin FragmentNames(doc) ->
            [acc EXCEPT !.visited = @ \cup {node.name}]
      [] OTHER ->
            LET found == Forbid(node, "defer", acc)
                inner == ForbidDeferStream(doc, doc[GetFragment(doc, node.name)].sel,
                                           (node.name :> found) @@ entered, found)
            IN [inner EXCEPT !.visited = @ \cup {node.name}]
ForbidDeferStream(doc, sel, entered, acc) ==
    FoldLeft(LAMBDA found, node : ForbidSelection(doc, node, entered, found), acc, sel)

RootDeferStreams(C) ==
    {ForbidDeferStream(C.doc, C.doc[d].sel, <<>>,
                       [visited |-> {}, errors |-> 0, end |-> "none"]) :
        d \in {e \in Operations(C.doc) : /\ C.doc[e].op # "query"
                                         /\ RootType(C.schema, C.doc[e].op) # ""}}
DeferStreamDirectiveOnRootField(C) == \E found \in RootDeferStreams(C) : found.errors > 0

\* validate() raises a RecursionError
Overflows(C) == \E found \in RootDeferStreams(C) : found.end = "overflow"

IfArgument(dir) == SelectSeq(dir.args, LAMBDA a : a.name = "if")
IfArgumentCanBeFalse(dir) ==
    /\ IfArgument(dir) # <<>>
    /\ LET value == Head(IfArgument(dir)).value
       IN value.k = "var" \/ value = Scalar("boolean", "false")
\* The first directive of that name counts; "unless" is the value that keeps
\* the selection, and a @skip without an argument is not trusted.
CanBeSkippedVia(node, name, unless) ==
    LET found == SelectSeq(node.dirs, LAMBDA d : d.name = name)
    IN /\ found # <<>>
       /\ IF IfArgument(Head(found)) = <<>> THEN name = "skip"
          ELSE Head(IfArgument(Head(found))).value # Scalar("boolean", unless)
CanBeSkipped(node) ==
    CanBeSkippedVia(node, "skip", "false") \/ CanBeSkippedVia(node, "include", "true")

\* forbid_unconditional_defer_stream(): the selections of a subscription that
\* cannot be skipped, in the fragments that are visited
RECURSIVE Unskippable(_, _, _)
Unskippable(doc, sel, visited) ==
    LET kept == {node \in Range(sel) : ~CanBeSkipped(node)}
        names == {node.name : node \in {n \in kept : n.kind = "spread"}} \ visited
        below == UNION {Unskippable(doc, node.sel, visited) : node \in kept}
    IN kept \cup below
       \cup UNION {Unskippable(doc, doc[GetFragment(doc, n)].sel, visited \cup names) :
                      n \in names \cap FragmentNames(doc)}

DeferStreamDirectiveOnValidOperations(C) ==
    \E d \in Operations(C.doc) :
        /\ C.doc[d].op = "subscription"
        /\ \E node \in Unskippable(C.doc, C.doc[d].sel, {}) : \E dir \in Range(node.dirs) :
              dir.name \in {"defer", "stream"} /\ ~IfArgumentCanBeFalse(dir)

\* A label is a string that is used once; the first of that name counts.
LabelOf(dir) == SelectSeq(dir.args, LAMBDA a : a.name = "label")
Labels(C) ==
    {[path |-> a.visit.path, index |-> a.index, value |-> Head(LabelOf(a.dir)).value] :
        a \in {b \in Applied(C) : b.dir.name \in {"defer", "stream"} /\ LabelOf(b.dir) # <<>>}}
DeferStreamDirectiveLabel(C) ==
    \/ \E l \in Labels(C) : l.value # Null /\ l.value.k # "string"
    \/ \E l, m \in Labels(C) : l # m /\ l.value.k = "string" /\ l.value = m.value

StreamsOffLists(C) ==
    {a \in Applied(C) :
        LET type == a.visit.field.type
        IN /\ a.dir.name = "stream" /\ a.visit.parent # "" /\ type # NoType
           /\ ~(IsList(type) \/ (IsWrapping(type) /\ IsList(OfType(type))))}
StreamDirectiveOnListField(C) == StreamsOffLists(C) # {}

\* The name of the field is looked up in the fields of the parent type, which
\* a union does not have ("__typename @stream"): validate() raises.
StreamRaises(C) == \E a \in StreamsOffLists(C) : Kind(C.schema, a.visit.parent) = "union"

-----------------------------------------------------------------------------
(* Arguments and values.                                                   *)

KnownArgumentNames(C) ==
    \E l \in ArgumentLists(C) :
        l.isKnown /\ ~(Names(l.args) \subseteq DOMAIN l.defs)

UniqueArgumentNames(C) ==
    \E l \in ArgumentLists(C) : l.of # "spread" /\ Repeats(l.args, NameOf)

ProvidedRequiredArguments(C) ==
    \E l \in ArgumentLists(C) :
        /\ l.isKnown
        /\ \E n \in DOMAIN l.defs \ Names(l.args) : IsRequired(l.defs[n])

\* The values of a document with the types expected for them.
TypedValues(C) ==
    UNION {{[value |-> a.value, type |-> InputPosition(C.schema, l, a.name).type] :
               a \in Range(l.args)} : l \in ArgumentLists(C)}
    \cup UNION {{[value |-> d.default, type |-> TypeFromAst(C.schema, d.type)] :
                    d \in {e \in Range(v.node.vars) : e.default # Undefined}} : v \in C.visits}

ValuesOfCorrectType(C) ==
    \E p \in TypedValues(C) :
        /\ p.value.k # "var" /\ IsInputType(C.schema, p.type)
        /\ ~ValidInputLiteral(C.schema, p.value, p.type, NoEnv, TRUE)

RECURSIVE RepeatsFields(_)
RepeatsFields(v) ==
    \/ v.k = "list" /\ \E i \in Range(v.items) : RepeatsFields(i)
    \/ /\ v.k = "object"
       /\ Repeats(v.entries, NameOf) \/ \E e \in Range(v.entries) : RepeatsFields(e.value)
UniqueInputFieldNames(C) == \E p \in TypedValues(C) : RepeatsFields(p.value)

MaxListDepth == 3
IntrospectionLists == {"fields", "interfaces", "possibleTypes", "inputFields"}

\* _check_depth() of a node below "depth" lists, in the fragments "entered"
RECURSIVE CheckDepth(_, _, _, _)
CheckDepth(doc, node, depth, entered) ==
    LET inner == IF node.kind = "field" /\ node.name \in IntrospectionLists
                 THEN depth + 1 ELSE depth
    IN IF node.kind = "spread"
       THEN /\ node.name \in FragmentNames(doc) \ entered
            /\ CheckDepth(doc, doc[GetFragment(doc, node.name)], depth, entered \cup {node.name})
       ELSE \/ inner >= MaxListDepth
            \/ \E child \in Range(node.sel) : CheckDepth(doc, child, inner, entered)
MaxIntrospectionDepth(C) ==
    \E v \in VisitsOf(C, "field") :
        v.node.name \in {"__schema", "__type"} /\ CheckDepth(C.doc, v.node, 0, {})

-----------------------------------------------------------------------------
(* validate() with the specified rules.                                    *)

\* Whether the selections can be merged does not matter for the rules below.
StructuralErrors(C) ==
    \/ ExecutableDefinitions(C) \/ KnownOperationTypes(C) \/ UniqueOperationNames(C)
    \/ LoneAnonymousOperation(C) \/ SingleFieldSubscriptions(C) \/ KnownTypeNames(C)
    \/ FragmentsOnCompositeTypes(C) \/ VariablesAreInputTypes(C) \/ ScalarLeafs(C)
    \/ FieldsOnCorrectType(C) \/ UniqueFragmentNames(C) \/ KnownFragmentNames(C)
    \/ NoUnusedFragments(C) \/ PossibleFragmentSpreads(C) \/ NoFragmentCycles(C)

ValueErrors(C) ==
    \/ UniqueVariableNames(C) \/ NoUndefinedVariables(C) \/ NoUnusedVariables(C)
    \/ KnownDirectives(C) \/ UniqueDirectivesPerLocation(C)
    \/ DeferStreamDirectiveOnRootField(C) \/ DeferStreamDirectiveOnValidOperations(C)
    \/ DeferStreamDirectiveLabel(C) \/ StreamDirectiveOnListField(C)
    \/ KnownArgumentNames(C) \/ UniqueArgumentNames(C) \/ ValuesOfCorrectType(C)
    \/ ProvidedRequiredArguments(C) \/ VariablesInAllowedPosition(C)
    \/ UniqueInputFieldNames(C) \/ MaxIntrospectionDepth(C)
=============================================================================

---------------------------- MODULE Collecting ----------------------------
(***************************************************************************)
(* The collection of the fields to execute (execution/collect_fields.py)   *)
(* and their distribution over deferred groups (build_execution_plan.py).  *)
(*                                                                         *)
(* A defer usage is the sequence of the @defer that it is nested in,       *)
(* outermost first, each with the object whose fields it was collected     *)
(* with, and <<>> where the code has None: two usages are the same object  *)
(* when these sequences are equal.                                         *)
(***************************************************************************)
EXTENDS InputValues

NoUsage == <<>>
FieldDetails(node, path, usage, scope) ==
    [node |-> node, path |-> path, usage |-> usage, scope |-> scope]

\* What collect_fields() works with (with the path of the object), and what it
\* has collected so far: the fields in their order, the new usages, the fragments visited so far (TRUE
\* when deferred), forbidden directives, and whether no error was raised.
CollectContext(S, doc, variables, type, object, forbid) ==
    [schema |-> S, doc |-> doc, variables |-> variables, type |-> type, object |-> object,
     forbid |-> forbid]
NothingCollected ==
    [fields |-> <<>>, usages |-> <<>>, visited |-> [x \in {} |-> FALSE],
     forbidden |-> FALSE, ok |-> TRUE]

HasDirective(node, names) == \E d \in Range(node.dirs) : d.name \in names

\* What a directive of a node says: "absent", "true" or "false" for its "if",
\* or "error".
ConditionOf(values) ==
    CASE values = <<>> -> "absent"
      [] values # <<>> /\ ~values[1].ok -> "error"
      [] OTHER -> IF values[1].coerced["if"] = Scalar("boolean", "true") THEN "true" ELSE "false"
Condition(X, node, scope, name) ==
    ConditionOf(DirectiveValues(X.schema, name, node.dirs, Env(X.variables, scope)))

\* should_include_node(): @skip comes before @include.  "forbid" where the
\* validation of the subscriptions reports the directives.
Verdict(skip, include) ==
    IF skip \in {"absent", "false"} /\ include \in {"absent", "true"} THEN "include"
    ELSE IF skip = "error" \/ (skip # "true" /\ include = "error") THEN "raise"
    ELSE "exclude"
ShouldIncludeNode(X, node, scope) ==
    IF X.forbid
    THEN IF HasDirective(node, {"skip", "include"}) THEN "forbid" ELSE "include"
    ELSE Verdict(Condition(X, node, scope, "skip"), Condition(X, node, scope, "include"))

DoesFragmentConditionMatch(S, on, type) ==
    \/ on \in {"", type}
    \/ IsAbstractType(S, on) /\ IsSubType(S, on, type)

\* A spread that is not deferred is skipped when it has been visited without
\* @defer, a deferred one when it has been visited at all.
SkipsSpread(acc, name, isDeferred) ==
    /\ name \in DOMAIN acc.visited
    /\ ~acc.visited[name] \/ isDeferred

\* get_defer_usage(), with "defer" the condition of @defer
Usage(X, defer, usage, path) ==
    IF defer = "true" THEN Append(usage, <<X.object, path>>) ELSE usage
AddUsage(X, acc, defer, usage, path) ==
    IF defer = "true" THEN [acc EXCEPT !.usages = Append(@, Usage(X, defer, usage, path))]
    ELSE acc

\* The variables of a fragment for one of its spreads; the validation of the
\* subscriptions collects without them.
SpreadScope(X, node, scope) ==
    FragmentVariableValues(X.schema,
        IF X.forbid THEN NoFields ELSE SignatureOf(X.doc, node.name), node.args,
        Env(X.variables, scope))

RECURSIVE CollectSelections(_, _, _, _, _, _)
CollectField(node, path, usage, scope, acc) ==
    [acc EXCEPT !.fields = Append(@, FieldDetails(node, path, usage, scope))]

CollectInline(X, node, path, usage, scope, acc, defer) ==
    IF ~DoesFragmentConditionMatch(X.schema, node.on, X.type) THEN acc
    ELSE IF defer = "error" THEN [acc EXCEPT !.ok = FALSE]
    ELSE CollectSelections(X, node.sel, path, Usage(X, defer, usage, path), scope,
                           AddUsage(X, acc, defer, usage, path))

CollectFragment(X, d, usage, values, acc) ==
    CollectSelections(X, X.doc[d].sel, <<d>>, usage,
        [sources |-> values.sources, coerced |-> values.coerced], [acc EXCEPT !.ok = values.ok])

CollectSpread(X, node, path, usage, scope, acc, defer) ==
    LET d == GetFragment(X.doc, node.name)
    IN IF \/ node.name \notin FragmentNames(X.doc)
          \/ ~DoesFragmentConditionMatch(X.schema, X.doc[d].on, X.type) THEN acc
       ELSE IF defer = "error" THEN [acc EXCEPT !.ok = FALSE]
       ELSE IF SkipsSpread(acc, node.name, defer = "true") THEN acc
       ELSE CollectFragment(X, d, Usage(X, defer, usage, path), SpreadScope(X, node, scope),
                [AddUsage(X, acc, defer, usage, path) EXCEPT
                    !.visited = (node.name :> (defer = "true")) @@ @])

CollectNode(X, node, path, usage, scope, acc, verdict, defer) ==
    CASE verdict = "raise" -> [acc EXCEPT !.ok = FALSE]
      [] verdict = "forbid" -> [acc EXCEPT !.forbidden = TRUE]
      [] verdict = "exclude" -> acc
      [] verdict = "include" /\ node.kind = "field" -> CollectField(node, path, usage, scope, acc)
      [] verdict = "include" /\ node.kind = "inline" ->
            CollectInline(X, node, path, usage, scope, acc, defer)
      [] verdict = "include" /\ node.kind = "spread" ->
            CollectSpread(X, node, path, usage, scope, acc, defer)

\* collect_fields_impl(): an error ends it
CollectSelections(X, sel, path, usage, scope, acc) ==
    FoldLeft(LAMBDA done, i :
                IF ~done.ok THEN done
                ELSE CollectNode(X, sel[i], Append(path, i), usage, scope, done,
                                 ShouldIncludeNode(X, sel[i], scope),
                                 Condition(X, sel[i], scope, "defer")),
             acc, [i \in DOMAIN sel |-> i])

CollectFields(X, d) ==
    CollectSelections(X, X.doc[d].sel, <<d>>, NoUsage, NoVariables, NothingCollected)

CollectSubfields(X, details, collected) ==
    FoldLeft(LAMBDA acc, f : CollectSelections(X, f.node.sel, f.path, f.usage, f.scope, acc),
             collected, details)

-----------------------------------------------------------------------------
(* Grouped field sets and execution plans.                                 *)

ResponseKeys(fields) == {ResponseName(f.node) : f \in Range(fields)}
Group(fields, key) == SelectSeq(fields, LAMBDA f : ResponseName(f.node) = key)

\* Mutant: usages that are nested in another one are kept.
AllDeferUsages(details) ==
    LET usages == {f.usage : f \in Range(details)}
    IN IF NoUsage \in usages THEN {} ELSE usages

\* get_filtered_defer_usage_set(): no usage when one field is not deferred,
\* and no usage that is nested in another one
FilteredDeferUsages(details) ==
    LET usages == {f.usage : f \in Range(details)}
    IN IF NoUsage \in usages THEN {}
       ELSE {u \in usages : \A w \in usages : ~IsStrictPrefix(w, u)}

\* Mutant: a field is delivered with each of its usages.
PlannedWithEach(fields, usages) ==
    {key \in ResponseKeys(fields) :
        \E f \in Range(Group(fields, key)) :
            IF usages = {} THEN f.usage = NoUsage ELSE f.usage \in usages}

\* build_execution_plan(): the keys by the usages they are delivered with
PlannedKeys(fields, usages) ==
    {key \in ResponseKeys(fields) : FilteredDeferUsages(Group(fields, key)) = usages}
NewUsageSets(fields, parent) ==
    {FilteredDeferUsages(Group(fields, key)) : key \in ResponseKeys(fields)} \ {parent}
=============================================================================

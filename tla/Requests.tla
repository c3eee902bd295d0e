------------------------------ MODULE Requests ------------------------------
(***************************************************************************)
(* What becomes of a request: graphql() checks the schema, validates the   *)
(* document, coerces the variables and executes the operation, with its    *)
(* deferred groups and streamed items.  The schema may then be replaced by *)
(* another version, and the same request is made again.                    *)
(*                                                                         *)
(* Resolvers never fail here, and no null spreads to a parent: Execution   *)
(* is the model of that.  A list has one item.                             *)
(***************************************************************************)
EXTENDS ValidationRules, SchemaValidation, SchemaChanges

CONSTANTS
    SchemaOf,   \* the schemas of the service, by version
    Scenarios,  \* what the service is asked: version, next version (or <<>>),
                \* document with or without locations, operation name (or ""),
                \* and the values of the variables
    MemoryIsReused  \* whether the id() of an object may be that of an earlier one

\* What fails here can be null.
ASSUME NullableAssumption ==
    \A version \in DOMAIN SchemaOf : \A type \in Range(SchemaOf[version].types) :
        type.kind \in {"object", "interface"} =>
            \A f \in Range(type.fields) :
                DOMAIN f.args # {} => ~IsNonNull(f.type)

VARIABLES
    scenario, version,
    phase,      \* how far the request has come
    answer,     \* what it has been answered
    variables,  \* the variable values of the operation
    fields,     \* the fields to execute next, the first one first
    groups,     \* the execution groups that wait
    streams,    \* the streams whose item waits
    executed,   \* the positions that have been executed
    failed,     \* the fields that have failed
    runtime,    \* the runtime types of the objects, by their paths
    memo,       \* the memoized subfields of the root fields, before and after
                \* these fields have been freed
    earlier     \* the answers under an earlier version

request == <<scenario, version, phase, answer, earlier>>
work == <<variables, fields, groups, streams, executed, failed, runtime, memo>>
vars == <<request, work>>

Schema == SchemaOf[version]
Doc == scenario.doc
TheContext == Context(Schema, Doc)

\* A position in the response: where it is, its type, the usages of its
\* executor and the usages in the delivery group map.  A late one has been
\* collected when the root fields had been freed.
Position(path, type, usages, map, streamed) ==
    [path |-> path, type |-> type, usages |-> usages, map |-> map, streamed |-> streamed,
     late |-> FALSE]

NoMemo == [kept |-> {}, freed |-> {}]

Init ==
    /\ scenario \in Scenarios
    /\ version = scenario.version
    /\ phase = "received" /\ answer = "none" /\ earlier = <<>>
    /\ variables = NoVariables /\ runtime = NoFields /\ memo = NoMemo
    /\ fields = <<>> /\ groups = {} /\ streams = {} /\ executed = {} /\ failed = {}

Reply(kind) == phase' = "answered" /\ answer' = kind /\ UNCHANGED <<scenario, version, earlier>>
Proceed(next) == phase' = next /\ UNCHANGED <<scenario, version, answer, earlier>>

-----------------------------------------------------------------------------
(* Before the execution.                                                   *)

CheckSchema ==
    /\ phase = "received"
    /\ IF ValidateSchema(Schema) THEN Reply("bad schema") ELSE Proceed("checked")
    /\ UNCHANGED work

\* validate(): the rules are asked for their errors in one visit
Raises(C) == Overflows(C) \/ StreamRaises(C) \/ SubscriptionRaises(C)
HasErrors(C) ==
    StructuralErrors(C) \/ ValueErrors(C) \/ OverlappingFieldsCanBeMerged(C, scenario.located)

\* Mutant: the operation is executed although errors have been found.
ValidateUnheeded ==
    /\ phase = "checked"
    /\ phase' = "valid"
    /\ answer' = IF HasErrors(TheContext) THEN "invalid" ELSE answer
    /\ UNCHANGED <<scenario, version, earlier, work>>

Validate ==
    /\ phase = "checked"
    /\ \E C \in {TheContext} :
          IF Raises(C) THEN Reply("raised")
          ELSE IF HasErrors(C) THEN Reply("invalid") ELSE Proceed("valid")
    /\ UNCHANGED work

\* Executor.build()
Selected == {d \in Operations(Doc) : scenario.operation \in {"", Doc[d].name}}
OperationIndex == CHOOSE d \in Selected : \A e \in Selected : e <= d
TheOperation == Doc[OperationIndex]
BadSignatures ==
    \E d \in Fragments(Doc) : \E v \in Range(Doc[d].vars) :
        ~IsInputType(Schema, TypeFromAst(Schema, v.type))

Build ==
    /\ phase = "valid"
    /\ \E values \in {IF Selected = {} THEN NoVariables @@ [ok |-> FALSE]
                      ELSE VariableValues(Schema, TheOperation.vars, scenario.inputs)} :
          IF \/ scenario.operation = "" /\ Cardinality(Operations(Doc)) > 1
             \/ BadSignatures \/ ~values.ok
          THEN Reply("refused") /\ UNCHANGED variables
          ELSE /\ variables' = [sources |-> values.sources, coerced |-> values.coerced]
               /\ Proceed("built")
    /\ UNCHANGED <<fields, groups, streams, executed, failed, runtime, memo>>

-----------------------------------------------------------------------------
(* The execution of collected fields.                                      *)

Collector(type, path) == CollectContext(Schema, Doc, variables, type, path, FALSE)

KeysInOrder(details) ==
    FoldLeft(LAMBDA keys, f : IF ResponseName(f.node) \in Range(keys) THEN keys
                              ELSE Append(keys, ResponseName(f.node)), <<>>, details)

\* execute_fields() at a position, for the keys of a grouped field set
FieldsAt(pos, details, keys) ==
    LET ordered == SelectSeq(KeysInOrder(details), LAMBDA key : key \in keys)
    IN [i \in DOMAIN ordered |->
           [pos EXCEPT !.path = Append(@, ordered[i])]
           @@ [details |-> Group(details, ordered[i])]]

\* Mutant: the map of a nested object starts anew.
NewMapOwn(map, found) == Range(found.usages)

\* get_new_delivery_group_map() and delivery_group_from_defer_usage(): a usage
\* without a group is a KeyError.
NewMap(map, found) == map \cup Range(found.usages)
HasGroups(map, found) ==
    /\ \A i \in DOMAIN found.usages :
          LET parent == Front(found.usages[i])
          IN parent \in {NoUsage} \cup map \cup {found.usages[j] : j \in 1..(i - 1)}
    /\ \A f \in Range(found.fields) : f.usage \in {NoUsage} \cup NewMap(map, found)

\* execute_collected_subfields(): without usages there is no plan
Plan(pos, found) ==
    LET at == [pos EXCEPT !.map = NewMap(@, found)]
        keys == IF at.map = {} THEN ResponseKeys(found.fields)
                ELSE PlannedKeys(found.fields, at.usages)
        deferred == IF at.map = {} THEN {} ELSE NewUsageSets(found.fields, at.usages)
    IN [fields |-> FieldsAt(at, found.fields, keys),
        groups |-> {[under |-> pos.usages, usages |-> usages,
                     fields |-> FieldsAt([at EXCEPT !.usages = usages], found.fields,
                                         PlannedKeys(found.fields, usages))] :
                       usages \in deferred}]

\* A subscription does not support @defer.
Refuses(found) == ~found.ok \/ (found.usages # <<>> /\ TheOperation.op = "subscription")

\* execute_operation()
ExecuteRoot ==
    /\ phase = "built"
    /\ LET type == RootType(Schema, TheOperation.op)
           root == Position(<<>>, type, {}, {}, FALSE)
       IN \E found \in {CollectFields(Collector(type, <<>>), OperationIndex)} :
             CASE Refuses(found) ->
                     Reply("failed") /\ UNCHANGED <<fields, groups>>
               [] ~Refuses(found) /\ ~HasGroups({}, found) ->
                     Reply("key error") /\ UNCHANGED <<fields, groups>>
               [] OTHER ->
                     /\ Proceed("executing")
                     /\ fields' = Plan(root, found).fields
                     /\ groups' = Plan(root, found).groups
    /\ UNCHANGED <<variables, streams, executed, failed, runtime, memo>>

\* The arguments of a field, evaluated in the scope of one of its nodes.
ArgumentsOf(def, detail) ==
    GetArgumentValues(Schema, def.args, detail.node.args, Env(variables, detail.scope))

\* get_stream_usage(): only the directive of the first node counts, and the
\* variables of its fragment are not known to it.  The one item of the list is
\* streamed, or no item when the initial count includes it.
StreamOf(values) ==
    CASE values = <<>> -> "none"
      [] values # <<>> /\ ~values[1].ok -> "error"
      [] OTHER -> IF values[1].coerced["if"] = Scalar("boolean", "false") THEN "none"
                  ELSE IF values[1].coerced["initialCount"] = Scalar("int", "0") THEN "item"
                  ELSE "nothing"
StreamUsage(def, detail) ==
    IF ~IsList(NullableType(def.type)) THEN "none"
    ELSE StreamOf(DirectiveValues(Schema, "stream", detail.node.dirs, Env(variables, NoVariables)))
StreamFails(stream) ==
    stream = "error" \/ (stream # "none" /\ TheOperation.op = "subscription")

\* How the execution of a field goes on.
FieldOutcome(def, arguments, stream) ==
    IF def # NoField /\ (~arguments.ok \/ StreamFails(stream)) THEN "failure"
    ELSE IF ~IsCompositeType(Schema, NamedOf(def.type)) THEN "leaf"
    ELSE IF stream = "item" THEN "stream"
    ELSE "object"

\* The objects that can be there, at runtime.
RuntimeTypes(type) ==
    IF Kind(Schema, type) = "object" THEN {type} ELSE PossibleTypes(Schema, type)

\* collect_subfields() memoizes by the type and the ids of the field details.
\* These are kept by what the cache refers to, except those of the root fields
\* when no usage has been collected with them: their ids can come back.
Subfields(pos, type, details) ==
    [type |-> type, details |-> details,
     found |-> CollectSubfields(Collector(type, pos.path), details, NothingCollected)]
Mistaken(pos, type, details) ==
    {entry \in memo.freed :
        pos.late /\ entry.type = type /\ Len(entry.details) = Len(details)}
Remember(pos, entry) ==
    memo' = [kept |-> IF Len(pos.path) = 1 /\ pos.map = {} /\ ~pos.streamed
                      THEN memo.kept \cup {entry} ELSE memo.kept,
             freed |-> memo.freed \ {entry}]

\* complete_object_value() for the object of a field or of a list item
CompleteWith(pos, details, rest, found, plan) ==
    IF Refuses(found)
    THEN /\ failed' = failed \cup {[path |-> pos.path, details |-> details]}
         /\ fields' = rest /\ UNCHANGED groups
         /\ Proceed(phase)
    ELSE /\ fields' = plan.fields \o rest
         /\ groups' = groups \cup plan.groups
         /\ UNCHANGED failed
         /\ IF HasGroups(pos.map, found) THEN Proceed(phase) ELSE Reply("key error")

CompleteObject(pos, type, details, rest) ==
    \E entry \in {Subfields(pos, type, details)} \cup Mistaken(pos, type, details) :
        /\ runtime' = (pos.path :> type) @@ runtime
        /\ Remember(pos, entry)
        /\ CompleteWith(pos, details, rest, entry.found,
               Plan([pos EXCEPT !.type = type, !.late = memo.freed # {}], entry.found))

Streamed(detail) == [detail EXCEPT !.usage = NoUsage, !.scope = NoVariables]

\* execute_field() with a resolver that returns a value
ExecuteField ==
    /\ phase \in {"executing", "delivering"} /\ fields # <<>>
    /\ LET pos == Head(fields)
           first == Head(pos.details)
           def == GetField(Schema, pos.type, first.node.name)
           name == NamedOf(def.type)
           here == [k \in {"path", "type", "usages", "map", "streamed", "late"} |-> pos[k]]
       IN /\ executed' = executed \cup {pos}
          /\ \E outcome \in {FieldOutcome(def, ArgumentsOf(def, first), StreamUsage(def, first))} :
                \/ /\ outcome = "failure"
                   /\ failed' = failed \cup {[path |-> pos.path, details |-> pos.details]}
                   /\ fields' = Tail(fields)
                   /\ Proceed(phase) /\ UNCHANGED <<groups, streams, runtime, memo>>
                \/ /\ outcome = "leaf"
                   /\ fields' = Tail(fields)
                   /\ Proceed(phase) /\ UNCHANGED <<groups, streams, failed, runtime, memo>>
                \/ /\ outcome = "stream"
                   /\ streams' = streams \cup
                         {[pos |-> Position(pos.path, name, {}, {}, TRUE),
                           details |-> [i \in DOMAIN pos.details |-> Streamed(pos.details[i])]]}
                   /\ fields' = Tail(fields)
                   /\ Proceed(phase) /\ UNCHANGED <<groups, failed, runtime, memo>>
                \/ /\ outcome = "object"
                   /\ \E type \in RuntimeTypes(name) :
                         CompleteObject(here, type, pos.details, Tail(fields))
                   /\ UNCHANGED streams
    /\ UNCHANGED variables

\* build_response(): the root fields are not needed any more.
BuildResponse ==
    /\ phase = "executing" /\ fields = <<>>
    /\ IF groups = {} /\ streams = {} THEN Reply("data") ELSE Proceed("delivering")
    /\ memo' = [kept |-> {}, freed |-> IF MemoryIsReused THEN memo.kept ELSE {}]
    /\ UNCHANGED <<variables, fields, groups, streams, executed, failed, runtime>>

\* execute_execution_group(), when its turn has come
ExecuteGroup(group) ==
    /\ phase = "delivering" /\ fields = <<>>
    /\ group \in groups
    /\ groups' = groups \ {group}
    /\ fields' = group.fields
    /\ UNCHANGED <<request, variables, streams, executed, failed, runtime, memo>>

\* complete_stream_item() for the item of a stream
ExecuteItem(stream) ==
    /\ phase = "delivering" /\ fields = <<>>
    /\ stream \in streams
    /\ streams' = streams \ {stream}
    /\ \E type \in RuntimeTypes(stream.pos.type) :
          CompleteObject(stream.pos, type, stream.details, <<>>)
    /\ UNCHANGED <<variables, executed>>

Answer ==
    /\ phase = "delivering" /\ fields = <<>> /\ groups = {} /\ streams = {}
    /\ Reply("data")
    /\ UNCHANGED work

\* The service gets the next version of its schema.
Upgrade ==
    /\ phase = "answered" /\ scenario.next # <<>> /\ earlier = <<>>
    /\ version' = scenario.next
    /\ earlier' = <<answer>>
    /\ phase' = "received" /\ answer' = "none" /\ UNCHANGED scenario
    /\ variables' = NoVariables /\ runtime' = NoFields /\ memo' = NoMemo
    /\ fields' = <<>> /\ groups' = {} /\ streams' = {} /\ executed' = {} /\ failed' = {}

Next ==
    \/ CheckSchema \/ Validate \/ Build \/ ExecuteRoot \/ ExecuteField \/ BuildResponse
    \/ Answer \/ Upgrade
    \/ \E group \in groups : ExecuteGroup(group)
    \/ \E stream \in streams : ExecuteItem(stream)

Spec == Init /\ [][Next]_vars

-----------------------------------------------------------------------------
(* Properties.                                                             *)

\* Type correctness: how far requests come, and what they are answered.
RequestTypeOK ==
    /\ version \in {scenario.version, scenario.next} /\ version \in DOMAIN SchemaOf
    /\ phase \in {"received", "checked", "valid", "built", "executing", "delivering", "answered"}
    /\ answer \in {"none", "bad schema", "raised", "invalid", "refused", "failed",
                   "key error", "data"}
    /\ (answer # "none") = (phase = "answered")
    /\ Len(earlier) <= 1
    /\ \A pos \in executed : pos.path # <<>> /\ pos.details # <<>>

IsExecuting == phase \in {"executing", "delivering"} \/ answer = "data"
HasFragmentArguments == \E d \in Fragments(Doc) : Doc[d].vars # <<>>

\* The rule for overlapping fields, with its caches of compared pairs and of
\* selection sets, reports an error exactly when two fields of a selection set
\* cannot be merged; for parsed documents without fragment arguments
\* (overlapping_fields_can_be_merged.py).
OverlapIsPairwise ==
    phase = "checked" /\ scenario.located /\ ~HasFragmentArguments =>
        LET C == TheContext
        IN ~StructuralErrors(C) /\ ~UniqueArgumentNames(C) =>
              OverlappingFieldsCanBeMerged(C, TRUE) = ~FieldsCanMerge(C)

\* Input values and literals are coerced exactly when their validation has
\* nothing to report: "Unreachable: validate_input_literal always reports an
\* error here" (execution/values.py).
CoercionMatchesValidation ==
    /\ phase = "valid" /\ Selected # {} =>
          \A def \in Range(TheOperation.vars) :
              LET value == Lookup(scenario.inputs, def.name)
              IN value # Undefined =>
                    (CoerceInputValue(Schema, value, def.type) = Undefined)
                        = ~ValidInputValue(Schema, value, def.type)
    /\ fields # <<>> =>
          LET first == Head(Head(fields).details)
              def == GetField(Schema, Head(fields).type, first.node.name)
              env == Env(variables, first.scope)
          IN \A a \in Range(first.node.args) :
                a.value.k # "var" /\ a.name \in DOMAIN def.args =>
                    LET type == def.args[a.name].type
                    IN (CoerceInputLiteral(Schema, a.value, type, env) = Undefined)
                           = ~ValidInputLiteral(Schema, a.value, type, env, FALSE)

\* The fields that are executed for one key of a response are the same field
\* with the same arguments, and the field exists: a valid document means one
\* thing (execute_field() only looks at the first of them).
MergedFieldsAgree ==
    IsExecuting => \A pos \in executed :
        LET first == Head(pos.details)
            def == GetField(Schema, pos.type, first.node.name)
        IN /\ def # NoField
           /\ \A f \in Range(pos.details) :
                 /\ f.node.name = first.node.name
                 /\ ArgumentsOf(def, f) = ArgumentsOf(def, first)

\* In a valid document, with variables that have been coerced, a field can only
\* fail for its arguments or directives when a variable of the operation or of
\* its fragment is null: variables_in_allowed_position.py lets a nullable
\* variable stand where a default would replace it.
NullIsKnown(scope) == Null \in Range(variables.coerced) \cup Range(scope.coerced)
ArgumentsCoerce ==
    /\ answer = "failed" => NullIsKnown(NoVariables)
    /\ \A f \in failed : NullIsKnown(Head(f.details).scope)

\* Every @defer that is met has got a delivery group before it is looked up
\* (delivery_group_map[defer_usage] in incremental_executor.py), and what an
\* execution group delivers lies in an object that has been delivered before:
\* all its @defer are nested in one of those of the object's group.
UsagesAreGrouped ==
    /\ answer # "key error"
    /\ \A group \in groups :
        /\ group.usages # {}
        /\ group.under # {} =>
              \A u \in group.usages : \E w \in group.under : IsPrefix(w, u)

\* Whatever is collected in an object, its fields are handed to executors, and its @defer get
\* delivery groups, as Deferral says; an object is completed once
\* (build_execution_plan.py, get_new_delivery_group_map() and collect_execution_groups()).
Planned ==
    LET places == executed \cup Range(fields) \cup UNION {Range(group.fields) : group \in groups}
    IN {[object |-> Front(pos.path), key |-> Last(pos.path), usages |-> pos.usages,
         map |-> [u \in pos.map |-> Last(u)[1]],
         met |-> {f.usage : f \in Range(pos.details)}] : pos \in places}
D == INSTANCE Deferral WITH Defers <- Seq(STRING) \X Seq(Nat), planned <- Planned
ImplementsDeferral == D!Spec

\* The document without @defer and @stream, and what its execution visits.
RECURSIVE Immediately(_)
Immediately(sel) ==
    [i \in DOMAIN sel |->
        [sel[i] EXCEPT !.dirs = SelectSeq(@, LAMBDA d : d.name \notin {"defer", "stream"}),
                       !.sel = Immediately(@)]]
PlainCollector(type) == [Collector(type, <<>>) EXCEPT !.doc = Immediately(@)]

RECURSIVE Visited(_, _, _, _)
Visited(X, path, type, details) ==
    UNION {LET here == Append(path, key)
               group == Group(details, key)
           IN {<<here, type>>}
              \cup IF here \in DOMAIN runtime
                   THEN LET Y == [X EXCEPT !.type = runtime[here]]
                        IN Visited(Y, here, Y.type,
                                   CollectSubfields(Y, group, NothingCollected).fields)
                   ELSE {} :
           key \in ResponseKeys(details)}

ExecutedOnce(places) ==
    /\ {<<pos.path, pos.type>> : pos \in executed} = places
    /\ Cardinality(executed) = Cardinality(places)

\* With @defer and @stream the same fields of the same objects are executed as
\* without them, each of them once.
DeferChangesNothing ==
    answer = "data" /\ failed = {} =>
        LET X == PlainCollector(RootType(Schema, TheOperation.op))
        IN ExecutedOnce(Visited(X, <<>>, X.type, CollectFields(X, OperationIndex).fields))

\* Without the fragments that are deferred.
RECURSIVE NotDeferred(_)
NotDeferred(sel) ==
    LET kept == SelectSeq(sel, LAMBDA node : ~HasDirective(node, {"defer"}))
    IN [i \in DOMAIN kept |-> [kept[i] EXCEPT !.sel = NotDeferred(@)]]

\* A field that is selected outside of all deferred fragments is part of the
\* initial result: "If this spread is not deferred, it may be skipped when
\* already visited as a non-deferred spread" (collect_fields.py).
ImmediateFieldsAreImmediate ==
    answer = "data" /\ failed = {} =>
        LET root == RootType(Schema, TheOperation.op)
            X == [Collector(root, <<>>) EXCEPT !.doc = NotDeferred(@)]
        IN Visited(X, <<>>, root, CollectFields(X, OperationIndex).fields)
              \subseteq {<<pos.path, pos.type>> : pos \in {p \in executed : p.usages = {}}}

\* The fields that are executed in an object are those that the selections of
\* this object have been collected to: "Memoizing ensures the subfields are not
\* repeatedly calculated", and no "wrong results from cache" (executor.py).
NodesOf(details) == [i \in DOMAIN details |-> details[i].node]
MemoIsTransparent ==
    \A pos \in executed : Len(pos.path) > 1 =>
        \E parent \in executed :
            LET own == CollectSubfields(Collector(pos.type, parent.path), parent.details, NothingCollected).fields
            IN /\ parent.path = Front(pos.path)
               /\ NodesOf(pos.details) = NodesOf(Group(own, Last(pos.path)))

\* The searches for circular input objects, that visit everything only once,
\* find a cycle exactly when there is one: in a schema that is accepted every
\* input object has a finite value, and completing its defaults ends
\* (type/validate.py).
CyclesAreFound ==
    phase = "received" =>
        /\ NonNullCircularRefs(Schema) = (Inhabited(Schema, {}) # InputObjects(Schema))
        /\ DefaultValueCircularRefs(Schema) = ~DefaultsAreFinite(Schema)

\* What find_schema_changes() does not count as breaking, although a document
\* can stop being valid: other root types, a type that becomes OneOf, a default
\* that goes away from a non-null input, and the types of fields, because two
\* fields may then be different.
InputsOf(type) ==
    IF type.kind = "input" THEN type.fields
    ELSE [at \in UNION {{<<f, a>> : a \in DOMAIN type.fields[f].args} : f \in DOMAIN type.fields} |->
             type.fields[at[1]].args[at[2]]]
HasUnreported(old, new) ==
    \/ old.roots # new.roots
    \/ \E n \in DOMAIN old.types \cap DOMAIN new.types :
          LET before == old.types[n]
              after == new.types[n]
          IN \/ after.oneOf # before.oneOf
             \/ \E i \in DOMAIN InputsOf(before) \cap DOMAIN InputsOf(after) :
                   IsRequired(InputsOf(after)[i]) /\ ~IsRequired(InputsOf(before)[i])
             \/ /\ before.kind \in {"object", "interface"}
                /\ \E f \in DOMAIN before.fields \cap DOMAIN after.fields :
                      before.fields[f].type # after.fields[f].type

\* A request that has been answered with data still is when the schema is
\* replaced by one without breaking changes (find_schema_changes.py).
UpgradeKeepsRequests ==
    phase = "answered" /\ earlier = <<"data">> /\ answer # "bad schema" =>
        LET old == SchemaOf[scenario.version]
        IN \/ FindBreakingChanges(old, Schema) # {} \/ HasUnreported(old, Schema)
           \/ answer = "data" /\ failed = {}
=============================================================================

-------------------------- MODULE SchemaValidation --------------------------
(***************************************************************************)
(* The validation of a schema (type/validate.py).  Every operator tells    *)
(* whether an error is reported; what the error says is left out, and so   *)
(* are the names that begin with "__".                                     *)
(***************************************************************************)
EXTENDS InputValues

\* Two elements of a sequence that are the same.
HasRepetition(s) == \E i, j \in DOMAIN s : i # j /\ s[i] = s[j]

-----------------------------------------------------------------------------
(* Root types, directives, arguments.                                      *)

GivenRoots(S) == {operation \in DOMAIN S.roots : S.roots[operation] # ""}

ValidateRootTypes(S) ==
    \/ S.roots["query"] = ""
    \/ \E operation \in GivenRoots(S) : Kind(S, S.roots[operation]) # "object"
    \/ \E a, b \in GivenRoots(S) : a # b /\ S.roots[a] = S.roots[b]

\* A default is a literal without variables.
ValidateDefaultValue(S, input) ==
    /\ input.default # Undefined
    /\ ~ValidInputLiteral(S, input.default, input.type, NoEnv, FALSE)

\* What is checked of an argument and of an input field.
ValidateInput(S, input) ==
    \/ ~IsInputType(S, input.type)
    \/ IsRequired(input) /\ input.deprecated
    \/ IsInputType(S, input.type) /\ ValidateDefaultValue(S, input)

ValidateDirectives(S) ==
    \E d \in Range(S.directives) :
        d.locations = {} \/ \E a \in Range(d.args) : ValidateInput(S, a)

-----------------------------------------------------------------------------
(* Objects and interfaces.                                                 *)

ValidateFields(S, type) ==
    \/ DOMAIN type.fields = {}
    \/ \E f \in Range(type.fields) :
          ~IsOutputType(S, f.type) \/ \E a \in Range(f.args) : ValidateInput(S, a)

ImplementsAncestors(S, type, iface) == Range(iface.interfaces) \subseteq Range(type.interfaces)

\* A field of an interface and the one that implements it.
ImplementsField(S, field, ifaceField) ==
    /\ IsTypeSubTypeOf(S, field.type, ifaceField.type)
    /\ \A a \in DOMAIN ifaceField.args :
          /\ a \in DOMAIN field.args
          /\ IsEqualType(ifaceField.args[a].type, field.args[a].type)
    /\ \A a \in DOMAIN field.args \ DOMAIN ifaceField.args : ~IsRequired(field.args[a])
    /\ field.deprecated => ifaceField.deprecated

ImplementsInterface(S, type, iface) ==
    \A f \in DOMAIN iface.fields :
        f \in DOMAIN type.fields /\ ImplementsField(S, type.fields[f], iface.fields[f])

ValidateInterfaces(S, name) ==
    LET type == S.types[name]
    IN \/ name \in Range(type.interfaces) \/ HasRepetition(type.interfaces)
       \/ \E i \in Range(type.interfaces) :
             \/ Kind(S, i) # "interface"
             \/ /\ Kind(S, i) = "interface"
                /\ \/ ~ImplementsAncestors(S, type, S.types[i])
                   \/ ~ImplementsInterface(S, type, S.types[i])

-----------------------------------------------------------------------------
(* Unions, enums and input objects.                                        *)

ValidateUnionMembers(S, union) ==
    \/ union.members = <<>>
    \/ \E m \in Range(union.members) : Kind(S, m) # "object"
    \/ HasRepetition(union.members)

ValidateEnumValues(enum) == enum.values = {}

ValidateOneOfField(field) == IsNonNull(field.type) \/ field.default # Undefined

ValidateInputFields(S, input) ==
    \/ DOMAIN input.fields = {}
    \/ \E f \in Range(input.fields) :
          ValidateInput(S, f) \/ (input.oneOf /\ ValidateOneOfField(f))

\* The input object that a field cannot do without: "" when there is none.
NonNullObject(S, field) ==
    IF /\ IsNonNull(field.type) /\ ~IsWrapping(OfType(field.type))
       /\ Kind(S, NamedOf(field.type)) = "input"
    THEN NamedOf(field.type) ELSE ""

\* InputObjectNonNullCircularRefsValidator: a depth first search that enters
\* every type once, with the types on the way to the current one.
RECURSIVE DetectCircularRefs(_, _, _)
DetectCircularRefs(S, name, acc) ==
    LET entered == [acc EXCEPT !.visited = @ \cup {name}, !.way = @ \cup {name}]
        Follow(found, f) ==
            LET next == NonNullObject(S, S.types[name].fields[f])
            IN CASE next = "" -> found
                 [] next \in found.way -> [found EXCEPT !.cycle = TRUE]
                 [] OTHER -> DetectCircularRefs(S, next, found)
    IN IF name \in acc.visited THEN acc
       ELSE [FoldSet(LAMBDA f, found : Follow(found, f), entered, DOMAIN S.types[name].fields)
             EXCEPT !.way = @ \ {name}]

InputObjects(S) == {n \in DOMAIN S.types : Kind(S, n) = "input"}
NothingDetected == [visited |-> {}, way |-> {}, cycle |-> FALSE]

NonNullCircularRefs(S) ==
    FoldSet(LAMBDA n, acc : DetectCircularRefs(S, n, acc), NothingDetected, InputObjects(S)).cycle

\* InputObjectDefaultValueCircularRefsValidator: the fields that a value of an
\* input object leaves out are visited with their defaults, each field once.
RECURSIVE DetectValueCycle(_, _, _, _)
\* Mutant: the fields that have been visited are sorted out first.
DetectFieldOnce(S, name, f, acc) ==
    LET field == S.types[name].fields[f]
        key == <<name, f>>
        entered == [acc EXCEPT !.visited = @ \cup {key}, !.way = @ \cup {key}]
    IN CASE field.default = Undefined \/ key \in acc.visited -> acc
         [] OTHER -> [DetectValueCycle(S, NamedOf(field.type), field.default, entered)
                      EXCEPT !.way = @ \ {key}]

DetectFieldCycle(S, name, f, acc) ==
    LET field == S.types[name].fields[f]
        key == <<name, f>>
        entered == [acc EXCEPT !.visited = @ \cup {key}, !.way = @ \cup {key}]
    IN CASE field.default = Undefined -> acc
         [] field.default # Undefined /\ key \in acc.way -> [acc EXCEPT !.cycle = TRUE]
         [] field.default # Undefined /\ key \in acc.visited \ acc.way -> acc
         [] OTHER -> [DetectValueCycle(S, NamedOf(field.type), field.default, entered)
                      EXCEPT !.way = @ \ {key}]

DetectValueCycle(S, name, v, acc) ==
    LET fields == S.types[name].fields
        objects == {f \in DOMAIN fields : Kind(S, NamedOf(fields[f].type)) = "input"}
        given == ByName(v.entries)
    IN CASE v.k = "list" ->
               FoldLeft(LAMBDA found, i : DetectValueCycle(S, name, i, found), acc, v.items)
         [] v.k = "object" ->
               FoldSet(LAMBDA f, found :
                          IF f \in DOMAIN given
                          THEN DetectValueCycle(S, NamedOf(fields[f].type), given[f], found)
                          ELSE DetectFieldCycle(S, name, f, found),
                       acc, objects)
         [] OTHER -> acc

DefaultValueCircularRefs(S) ==
    FoldSet(LAMBDA n, acc : DetectValueCycle(S, n, Object(<<>>), acc),
            NothingDetected, InputObjects(S)).cycle

-----------------------------------------------------------------------------
(* validate_schema()                                                       *)

ValidateType(S, name) ==
    LET type == S.types[name]
    IN CASE type.kind \in {"object", "interface"} ->
               ValidateFields(S, type) \/ ValidateInterfaces(S, name)
         [] type.kind = "union" -> ValidateUnionMembers(S, type)
         [] type.kind = "enum" -> ValidateEnumValues(type)
         [] type.kind = "input" -> ValidateInputFields(S, type)
         [] OTHER -> FALSE

ValidateTypes(S) ==
    \/ \E name \in DOMAIN S.types : ValidateType(S, name)
    \/ NonNullCircularRefs(S) \/ DefaultValueCircularRefs(S)

ValidateSchema(S) == ValidateRootTypes(S) \/ ValidateDirectives(S) \/ ValidateTypes(S)

-----------------------------------------------------------------------------
(* References: the input objects that have a finite value, and the fields  *)
(* with defaults that are needed to complete the default of a field.       *)

RECURSIVE Inhabited(_, _)
Inhabited(S, known) ==
    LET more == {n \in InputObjects(S) :
                    \A f \in Range(S.types[n].fields) : NonNullObject(S, f) \in known \cup {""}}
    IN IF more = known THEN known ELSE Inhabited(S, more)

RECURSIVE CompletedBy(_, _, _)
CompletedBy(S, name, v) ==
    LET fields == S.types[name].fields
        given == ByName(v.entries)
        Of(f) == CASE Kind(S, NamedOf(fields[f].type)) # "input" -> {}
                   [] f \in DOMAIN given -> CompletedBy(S, NamedOf(fields[f].type), given[f])
                   [] OTHER -> IF fields[f].default = Undefined THEN {} ELSE {<<name, f>>}
    IN CASE v.k = "list" -> UNION {CompletedBy(S, name, i) : i \in Range(v.items)}
         [] v.k = "object" -> UNION {Of(f) : f \in DOMAIN fields}
         [] OTHER -> {}

RECURSIVE NeededDefaults(_, _)
NeededDefaults(S, keys) ==
    LET Of(key) == LET field == S.types[key[1]].fields[key[2]]
                   IN CompletedBy(S, NamedOf(field.type), field.default)
        more == keys \cup UNION {Of(key) : key \in keys}
    IN IF more = keys THEN keys ELSE NeededDefaults(S, more)

DefaultsAreFinite(S) ==
    \A n \in InputObjects(S) :
        LET needed == NeededDefaults(S, CompletedBy(S, n, Object(<<>>)))
        IN \A key \in needed :
              LET field == S.types[key[1]].fields[key[2]]
              IN key \notin NeededDefaults(S, CompletedBy(S, NamedOf(field.type), field.default))
=============================================================================

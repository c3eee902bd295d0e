---------------------------- MODULE InputValues ----------------------------
(***************************************************************************)
(* The values of variables and arguments: the coercion of input values and *)
(* of literals, their validation, and execution/values.py.                 *)
(*                                                                         *)
(* Input values are the values of Schemas without variables; an object that*)
(* is an input value or a coerced value is a function (Dict), an object in *)
(* a document a sequence of entries (Object).  Floats have a fractional    *)
(* part; the Int "big" needs more than 32 bits.                            *)
(***************************************************************************)
EXTENDS Documents

Dict(fields) == [k |-> "dict", fields |-> fields]
Omitted == [k |-> "omitted"]
Missing == {Null, Undefined}

Lookup(f, name) == IF name \in DOMAIN f THEN f[name] ELSE Undefined
NoValues == [x \in {} |-> Undefined]

\* VariableValues and FragmentVariableValues: the sources (a type, a default,
\* a value, and for fragments the scope of that value) and the coerced values.
NoVariables == [sources |-> NoValues, coerced |-> NoValues]
Env(variables, fragment) == [vars |-> variables, frag |-> fragment]
NoEnv == Env(NoVariables, NoVariables)

-----------------------------------------------------------------------------
(* Leaf types: scalars and enums.                                          *)

\* The specified scalars, from input values and from literals alike.
CoerceInt(v) == IF v.k = "int" /\ v.v # "big" THEN v ELSE Undefined
CoerceFloat(v) == IF v.k \in {"int", "float"} THEN Scalar("float", v.v) ELSE Undefined
CoerceString(v) == IF v.k = "string" THEN v ELSE Undefined
CoerceBoolean(v) == IF v.k = "boolean" THEN v ELSE Undefined
CoerceID(v) == IF v.k \in {"string", "int"} THEN Scalar("string", v.v) ELSE Undefined
CoerceScalar(name, v) ==
    CASE name = "Int" -> CoerceInt(v)
      [] name = "Float" -> CoerceFloat(v)
      [] name = "String" -> CoerceString(v)
      [] name = "Boolean" -> CoerceBoolean(v)
      [] name = "ID" -> CoerceID(v)

\* An enum has the names of its values as input values, and enum literals.
CoerceEnum(enum, v) ==
    IF v.k = "string" /\ v.v \in enum.values THEN Scalar("enum", v.v) ELSE Undefined
CoerceEnumLiteral(enum, v) ==
    IF v.k = "enum" /\ v.v \in enum.values THEN v ELSE Undefined

CoerceLeaf(S, name, v) ==
    CASE name \in DOMAIN SpecifiedScalars -> CoerceScalar(name, v)
      [] Kind(S, name) = "enum" -> CoerceEnum(S.types[name], v)
      [] Kind(S, name) = "scalar" /\ name \notin DOMAIN SpecifiedScalars -> v
      [] OTHER -> Undefined

RECURSIVE Untyped(_)
Untyped(v) ==
    CASE v.k = "list" -> ListOf([i \in DOMAIN v.items |-> Untyped(v.items[i])])
      [] v.k = "object" -> LET given == ByName(v.entries)
                           IN Dict([n \in DOMAIN given |-> Untyped(given[n])])
      [] v.k = "enum" -> Scalar("string", v.v)
      [] OTHER -> v

CoerceLeafLiteral(S, name, v) ==
    CASE name \in DOMAIN SpecifiedScalars -> CoerceScalar(name, v)
      [] Kind(S, name) = "enum" -> CoerceEnumLiteral(S.types[name], v)
      [] Kind(S, name) = "scalar" /\ name \notin DOMAIN SpecifiedScalars -> Untyped(v)
      [] OTHER -> Undefined

-----------------------------------------------------------------------------
(* Conversion of an input value to a literal, and of variables to values.  *)

RECURSIVE DefaultLiteral(_)
DefaultLiteral(v) ==
    CASE v = Undefined -> Null
      [] v.k = "list" -> ListOf([i \in DOMAIN v.items |-> DefaultLiteral(v.items[i])])
      [] v.k = "dict" -> Object([i \in 1..Cardinality(DOMAIN v.fields) |->
                            LET n == SetToSeq(DOMAIN v.fields)[i]
                            IN [name |-> n, value |-> DefaultLiteral(v.fields[n])]])
      [] OTHER -> v

\* value_to_literal(); Undefined where the code returns None
RECURSIVE ValueToLiteral(_, _, _)
ObjectToLiteral(S, v, type) ==
    LET given == v.fields
        names == DOMAIN type.fields \cap DOMAIN given
        literals == [n \in names |-> ValueToLiteral(S, given[n], type.fields[n].type)]
        lacking == {n \in DOMAIN type.fields \ names : IsRequired(type.fields[n])}
    IN IF names # DOMAIN given \/ lacking # {} \/ Undefined \in Range(literals) THEN Undefined
       ELSE Object([i \in 1..Cardinality(names) |->
               LET n == SetToSeq(names)[i] IN [name |-> n, value |-> literals[n]]])

ValueToLiteral(S, v, t) ==
    CASE IsNonNull(t) ->
            IF v \in Missing THEN Undefined ELSE ValueToLiteral(S, v, OfType(t))
      [] ~IsNonNull(t) /\ v \in Missing -> Null
      [] IsList(t) /\ v.k # "list" -> ValueToLiteral(S, v, OfType(t))
      [] IsList(t) /\ v.k = "list" ->
            LET items == [i \in DOMAIN v.items |-> ValueToLiteral(S, v.items[i], OfType(t))]
            IN IF Undefined \in Range(items) THEN Undefined ELSE ListOf(items)
      [] Kind(S, NamedOf(t)) = "input" ->
            IF v.k = "dict" THEN ObjectToLiteral(S, v, S.types[NamedOf(t)]) ELSE Undefined
      [] Kind(S, NamedOf(t)) = "enum" -> CoerceEnum(S.types[NamedOf(t)], v)
      [] NamedOf(t) \in DOMAIN SpecifiedScalars ->
            IF CoerceLeaf(S, NamedOf(t), v) = Undefined THEN Undefined ELSE v
      [] OTHER -> DefaultLiteral(v)

\* replace_variables(): a fragment's variable stands for what its spread has
\* passed, in the scope of that spread.
SourceOf(name, env) ==
    IF name \in DOMAIN env.frag.sources THEN env.frag.sources[name]
    ELSE Lookup(env.vars.sources, name)
IsUnset(source) == source = Undefined \/ (source.value = Undefined /\ source.default = Undefined)

RECURSIVE ReplaceVariables(_, _, _)
ReplaceVariable(S, name, env) ==
    LET source == SourceOf(name, env)
    IN CASE IsUnset(source) -> Null
         [] ~IsUnset(source) /\ source.value = Undefined -> source.default
         [] ~IsUnset(source) /\ source.value # Undefined ->
               IF name \in DOMAIN env.frag.sources
               THEN ReplaceVariables(S, source.value, Env(env.vars, source.scope))
               ELSE ValueToLiteral(S, source.value, source.type)

ReplaceVariables(S, v, env) ==
    CASE v.k = "var" -> ReplaceVariable(S, v.v, env)
      [] v.k = "list" -> ListOf([i \in DOMAIN v.items |-> ReplaceVariables(S, v.items[i], env)])
      [] v.k = "object" ->
            LET kept == SelectSeq(v.entries, LAMBDA e :
                            ~(e.value.k = "var" /\ IsUnset(SourceOf(e.value.v, env))))
            IN Object([i \in DOMAIN kept |->
                  [kept[i] EXCEPT !.value = ReplaceVariables(S, kept[i].value, env)]])
      [] OTHER -> v

-----------------------------------------------------------------------------
(* Coercion: Undefined means that the value is not valid.                  *)

\* The end of the coercion of an input object: "given" are the fields of the
\* value, "fields" the coerced ones.
BuildObject(type, given, fields) ==
    LET present == {n \in DOMAIN fields : fields[n] # Omitted}
        isOne == /\ Cardinality(given) = 1 /\ Cardinality(present) = 1
                 /\ \A n \in present : fields[n] # Null
    IN IF given \subseteq DOMAIN fields /\ Undefined \notin Range(fields)
          /\ (type.oneOf => isOne)
       THEN Dict([n \in present |-> fields[n]])
       ELSE Undefined

RECURSIVE CoerceInputLiteral(_, _, _, _)

\* coerce_default_value(); the defaults are valid, the schema has been checked
CoerceDefault(S, input) ==
    IF input.default = Undefined THEN Omitted
    ELSE CoerceInputLiteral(S, input.default, input.type, NoEnv)

\* A field that is not given.
DefaultField(S, field) == IF IsRequired(field) THEN Undefined ELSE CoerceDefault(S, field)

RECURSIVE CoerceInputValue(_, _, _)
CoerceInputValue(S, v, t) ==
    CASE IsNonNull(t) ->
            IF v \in Missing THEN Undefined ELSE CoerceInputValue(S, v, OfType(t))
      [] ~IsNonNull(t) /\ v \in Missing -> Null
      [] IsList(t) ->
            LET items == IF v.k = "list" THEN v.items ELSE <<v>>
                coerced == [i \in DOMAIN items |-> CoerceInputValue(S, items[i], OfType(t))]
            IN IF Undefined \in Range(coerced) THEN Undefined ELSE ListOf(coerced)
      [] Kind(S, NamedOf(t)) = "input" ->
            LET type == S.types[NamedOf(t)]
                Coerce(n) == IF n \in DOMAIN v.fields
                             THEN CoerceInputValue(S, v.fields[n], type.fields[n].type)
                             ELSE DefaultField(S, type.fields[n])
            IN IF v.k # "dict" THEN Undefined
               ELSE BuildObject(type, DOMAIN v.fields, [n \in DOMAIN type.fields |-> Coerce(n)])
      [] OTHER -> CoerceLeaf(S, NamedOf(t), v)

\* get_coerced_variable_value()
CoercedVariable(name, env) ==
    Lookup(IF name \in DOMAIN env.frag.sources THEN env.frag.coerced ELSE env.vars.coerced, name)
IsMissingVariable(v, env) == v.k = "var" /\ CoercedVariable(v.v, env) = Undefined

\* In a list a variable without a value is null.
CoerceItem(S, v, t, env) ==
    IF IsMissingVariable(v, env) /\ ~IsNonNull(t) THEN Null ELSE CoerceInputLiteral(S, v, t, env)

CoerceInputLiteral(S, v, t, env) ==
    CASE v.k = "var" ->
            LET value == CoercedVariable(v.v, env)
            IN IF IsNonNull(t) /\ value \in Missing THEN Undefined ELSE value
      [] v.k # "var" /\ IsNonNull(t) ->
            IF v = Null THEN Undefined ELSE CoerceInputLiteral(S, v, OfType(t), env)
      [] v = Null -> Null
      [] IsList(t) ->
            LET items == IF v.k = "list" THEN v.items ELSE <<v>>
                coerced == [i \in DOMAIN items |-> CoerceItem(S, items[i], OfType(t), env)]
            IN IF Undefined \in Range(coerced) THEN Undefined ELSE ListOf(coerced)
      [] Kind(S, NamedOf(t)) = "input" ->
            LET type == S.types[NamedOf(t)]
                given == ByName(v.entries)
                Coerce(n) == IF n \in DOMAIN given /\ ~IsMissingVariable(given[n], env)
                             THEN CoerceInputLiteral(S, given[n], type.fields[n].type, env)
                             ELSE DefaultField(S, type.fields[n])
            IN IF v.k # "object" THEN Undefined
               ELSE BuildObject(type, DOMAIN given, [n \in DOMAIN type.fields |-> Coerce(n)])
      [] OTHER -> CoerceLeafLiteral(S, NamedOf(t), ReplaceVariables(S, v, env))

-----------------------------------------------------------------------------
(* Validation: whether no error is reported.                               *)

RECURSIVE ValidInputValue(_, _, _)
ValidDict(S, type, given) ==
    /\ \A n \in DOMAIN type.fields :
          IF n \in DOMAIN given THEN ValidInputValue(S, given[n], type.fields[n].type)
          ELSE ~IsRequired(type.fields[n])
    /\ DOMAIN given \subseteq DOMAIN type.fields
    /\ type.oneOf => /\ Cardinality(DOMAIN given \cap DOMAIN type.fields) = 1
                     /\ \A n \in DOMAIN given : given[n] # Null

ValidInputValue(S, v, t) ==
    CASE IsNonNull(t) -> v \notin Missing /\ ValidInputValue(S, v, OfType(t))
      [] ~IsNonNull(t) /\ v \in Missing -> TRUE
      [] IsList(t) ->
            IF v.k = "list" THEN \A i \in Range(v.items) : ValidInputValue(S, i, OfType(t))
            ELSE ValidInputValue(S, v, OfType(t))
      [] Kind(S, NamedOf(t)) = "input" ->
            v.k = "dict" /\ ValidDict(S, S.types[NamedOf(t)], v.fields)
      [] OTHER -> CoerceLeaf(S, NamedOf(t), v) # Undefined

\* "static": without variable values nothing is said about the variables.
RECURSIVE ValidInputLiteral(_, _, _, _, _)
\* Mutant: a variable without a value is an error also where a default applies.
ValidFieldStrict(S, type, n, given, env, static) ==
    IF n \in DOMAIN given THEN ValidInputLiteral(S, given[n], type.fields[n].type, env, static)
    ELSE ~IsRequired(type.fields[n])

ValidField(S, type, n, given, env, static) ==
    LET field == type.fields[n]
        v == given[n]
        value == CoercedVariable(v.v, env)
    IN CASE n \notin DOMAIN given -> ~IsRequired(field)
         [] n \in DOMAIN given /\ v.k = "var" /\ ~static ->
               IF type.oneOf
               THEN value \notin Missing /\ ValidInputLiteral(S, v, field.type, env, static)
               ELSE \/ value = Undefined /\ ~IsRequired(field)
                    \/ ValidInputLiteral(S, v, field.type, env, static)
         [] OTHER -> ValidInputLiteral(S, v, field.type, env, static)

ValidObject(S, type, entries, env, static) ==
    LET given == ByName(entries)
        known == SelectSeq(entries, LAMBDA e : e.name \in DOMAIN type.fields)
    IN /\ \A n \in DOMAIN type.fields : ValidField(S, type, n, given, env, static)
       /\ Len(known) = Len(entries)
       /\ type.oneOf => Len(known) = 1 /\ known[1].value # Null

ValidInputLiteral(S, v, t, env, static) ==
    CASE v.k = "var" -> static \/ ~IsNonNull(t) \/ CoercedVariable(v.v, env) \notin Missing
      [] v.k # "var" /\ IsNonNull(t) ->
            v # Null /\ ValidInputLiteral(S, v, OfType(t), env, static)
      [] v = Null -> TRUE
      [] IsList(t) ->
            IF v.k = "list"
            THEN \A i \in Range(v.items) : ValidInputLiteral(S, i, OfType(t), env, static)
            ELSE ValidInputLiteral(S, v, OfType(t), env, static)
      [] Kind(S, NamedOf(t)) = "input" ->
            /\ v.k = "object"
            /\ ValidObject(S, S.types[NamedOf(t)], v.entries, env, static)
      [] OTHER -> CoerceLeafLiteral(S, NamedOf(t), ReplaceVariables(S, v, env)) # Undefined

-----------------------------------------------------------------------------
(* execution/values.py.  The result is a function of the names to values,  *)
(* without the omitted ones; "ok" is FALSE when an error is reported.      *)

Collected(values) ==
    [ok |-> Undefined \notin Range(values),
     coerced |-> Restrict(values, {n \in DOMAIN values : values[n] # Omitted})]

\* coerce_variable_values() for one variable definition
CoerceVariable(S, def, inputs) ==
    LET value == Lookup(inputs, def.name)
    IN CASE value = Undefined /\ def.default # Undefined -> CoerceDefault(S, def)
         [] value = Undefined /\ def.default = Undefined /\ ~IsNonNull(def.type) -> Omitted
         [] OTHER -> CoerceInputValue(S, value, def.type)

\* get_variable_signature() and get_variable_values(): of two definitions of one name
\* (which no valid document has) the later one counts, as far as it brings a value.
VariableValues(S, defs, inputs) ==
    LET named == ByName([i \in DOMAIN defs |-> [name |-> defs[i].name, value |-> defs[i]]])
        found == [i \in DOMAIN defs |->
                     [name |-> defs[i].name, value |-> CoerceVariable(S, defs[i], inputs)]]
    IN [ok |-> /\ \A d \in Range(defs) : IsInputType(S, TypeFromAst(S, d.type))
               /\ \A e \in Range(found) : e.value # Undefined,
        sources |-> [n \in DOMAIN named |->
                        [type |-> named[n].type, default |-> named[n].default,
                         value |-> Lookup(inputs, n)]],
        coerced |-> ByName(SelectSeq(found, LAMBDA e : e.value # Omitted))]

\* coerce_argument(): a variable without a value counts as no argument,
\* unless the argument is required.
CoerceArgument(S, def, given, name, env) ==
    LET isGiven == name \in DOMAIN given
        useDefault == \/ ~isGiven
                      \/ IsMissingVariable(given[name], env) /\ ~IsRequired(def)
    IN CASE ~isGiven /\ IsRequired(def) -> Undefined
         [] (isGiven \/ ~IsRequired(def)) /\ useDefault -> CoerceDefault(S, def)
         [] OTHER -> CoerceInputLiteral(S, given[name], def.type, env)

GetArgumentValues(S, defs, args, env) ==
    LET given == ByName(args)
    IN Collected([n \in DOMAIN defs |-> CoerceArgument(S, defs[n], given, n, env)])

\* get_fragment_variable_values(), with "defs" the variables of the fragment
FragmentVariableValues(S, defs, args, env) ==
    LET given == ByName(args)
        found == GetArgumentValues(S, defs, args, env)
    IN [ok |-> found.ok, coerced |-> found.coerced,
        sources |-> [n \in DOMAIN defs |->
                        [type |-> defs[n].type, default |-> defs[n].default,
                         value |-> Lookup(given, n), scope |-> env.frag]]]

\* get_directive_values(): the first directive of that name counts
DirectiveValues(S, name, dirs, env) ==
    LET found == SelectSeq(dirs, LAMBDA d : d.name = name)
    IN IF found = <<>> THEN <<>>
       ELSE <<GetArgumentValues(S, GetDirective(S, name).args, Head(found).args, env)>>
=============================================================================

------------------------------ MODULE Schemas ------------------------------
(***************************************************************************)
(* GraphQL schemas as data: the types of type/definition.py, the maps of   *)
(* type/schema.py and the comparisons of utilities/type_comparators.py.    *)
(*                                                                         *)
(* A type reference is a sequence of wrappers that ends with the name of a *)
(* type, <<"NonNull", "List", "Int">> for [Int]!, and <<>> where the code  *)
(* has None; "" is the name of a missing type.                             *)
(***************************************************************************)
EXTENDS Integers, FiniteSets, Sequences, SequencesExt, Functions, TLC

NoType == <<>>
NoFields == [x \in {} |-> NoType]

\* Values, of literals and of variables: their kind and their content.
Undefined == [k |-> "undefined"]
Null == [k |-> "null"]
Scalar(kind, v) == [k |-> kind, v |-> v]
Var(name) == Scalar("var", name)
ListOf(items) == [k |-> "list", items |-> items]
Object(entries) == [k |-> "object", entries |-> entries]

\* Arguments and input fields, fields, and the types that hold them.
InputValue(type, default) == [type |-> type, default |-> default, deprecated |-> FALSE]
FieldDef(type, args) == [type |-> type, args |-> args, deprecated |-> FALSE]
NamedType(kind) ==
    [kind |-> kind, fields |-> NoFields, interfaces |-> <<>>, members |-> <<>>,
     values |-> {}, oneOf |-> FALSE]
ObjectType(fields, interfaces) ==
    [NamedType("object") EXCEPT !.fields = fields, !.interfaces = interfaces]
InterfaceType(fields, interfaces) ==
    [NamedType("interface") EXCEPT !.fields = fields, !.interfaces = interfaces]
UnionType(members) == [NamedType("union") EXCEPT !.members = members]
EnumType(values) == [NamedType("enum") EXCEPT !.values = values]
InputObjectType(fields, oneOf) ==
    [NamedType("input") EXCEPT !.fields = fields, !.oneOf = oneOf]

-----------------------------------------------------------------------------
(* Wrapping types.                                                         *)

IsNonNull(t) == t # NoType /\ Head(t) = "NonNull"
IsList(t) == t # NoType /\ Head(t) = "List"
IsWrapping(t) == Len(t) > 1
OfType(t) == Tail(t)
NonNull(t) == <<"NonNull">> \o t
NullableType(t) == IF IsNonNull(t) THEN OfType(t) ELSE t
NamedOf(t) == IF t = NoType THEN "" ELSE Last(t)

\* A required argument or input field is non-null and has no default.
IsRequired(input) == IsNonNull(input.type) /\ input.default = Undefined

-----------------------------------------------------------------------------
(* The types of a schema: the ones that can be reached from its root types,*)
(* its extra types, its directives and the introspection types.            *)

\* What one named type refers to.
TypesOfFields(fields) ==
    UNION {{NamedOf(f.type)} \cup {NamedOf(a.type) : a \in Range(f.args)} : f \in Range(fields)}

Referenced(type) ==
    CASE type.kind = "union" -> Range(type.members)
      [] type.kind \in {"object", "interface"} ->
            Range(type.interfaces) \cup TypesOfFields(type.fields)
      [] type.kind = "input" -> {NamedOf(f.type) : f \in Range(type.fields)}
      [] OTHER -> {}

\* The scalars and the introspection types (the fields that matter here) are
\* in every schema.
SpecifiedScalars == [n \in {"Int", "Float", "String", "Boolean", "ID"} |-> NamedType("scalar")]
IntrospectionTypes ==
    "__Schema" :> ObjectType("types" :> FieldDef(<<"NonNull", "List", "__Type">>, NoFields), <<>>)
    @@ "__Type" :> ObjectType(
        "name" :> FieldDef(<<"String">>, NoFields)
        @@ "interfaces" :> FieldDef(<<"List", "__Type">>, NoFields)
        @@ "isOneOf" :> FieldDef(<<"Boolean">>, NoFields), <<>>)

RECURSIVE CollectReferencedTypes(_, _)
CollectReferencedTypes(defs, names) ==
    LET more == names \cup UNION {Referenced(defs[n]) : n \in names}
    IN IF more = names THEN names ELSE CollectReferencedTypes(defs, more)

\* GraphQLSchema(query, mutation, subscription, types, directives): "userDefs"
\* stands for the type objects that refer to each other.
MakeSchema(userDefs, roots, types, directives) ==
    LET defs == userDefs @@ IntrospectionTypes @@ SpecifiedScalars
        args == UNION {Range(d.args) : d \in Range(directives)}
        start == types \cup (Range(roots) \ {""}) \cup {NamedOf(a.type) : a \in args}
                       \cup {"__Schema"}
    IN [types |-> Restrict(defs, CollectReferencedTypes(defs, start)),
        roots |-> roots, directives |-> directives]

\* The predicates on types; "S" is a schema.
GetType(S, name) == IF name \in DOMAIN S.types THEN S.types[name] ELSE NamedType("none")
Kind(S, name) == GetType(S, name).kind
IsInputType(S, t) == Kind(S, NamedOf(t)) \in {"scalar", "enum", "input"}
IsOutputType(S, t) == Kind(S, NamedOf(t)) \in {"scalar", "enum", "object", "interface", "union"}
IsLeafType(S, name) == Kind(S, name) \in {"scalar", "enum"}
IsCompositeType(S, name) == Kind(S, name) \in {"object", "interface", "union"}
IsAbstractType(S, name) == Kind(S, name) \in {"interface", "union"}

RootType(S, operation) == S.roots[operation]

\* type_from_ast(): None when the named type is unknown.
TypeFromAst(S, t) == IF NamedOf(t) \in DOMAIN S.types THEN t ELSE NoType

Implementations(S, name, kind) ==
    {n \in DOMAIN S.types : Kind(S, n) = kind /\ name \in Range(S.types[n].interfaces)}

PossibleTypes(S, name) ==
    IF Kind(S, name) = "union" THEN Range(S.types[name].members)
    ELSE Implementations(S, name, "object")

IsSubType(S, abstract, name) ==
    \/ name \in PossibleTypes(S, abstract)
    \/ Kind(S, abstract) = "interface" /\ name \in Implementations(S, abstract, "interface")

NoField == FieldDef(NoType, NoFields)
SchemaMetaFieldDef == FieldDef(<<"NonNull", "__Schema">>, NoFields)
TypeMetaFieldDef == FieldDef(<<"__Type">>, "name" :> InputValue(<<"NonNull", "String">>, Undefined))
TypeNameMetaFieldDef == FieldDef(<<"NonNull", "String">>, NoFields)

\* get_field(), with the meta fields; NoField where the code has None.
GetField(S, parent, name) ==
    CASE name = "__schema" -> IF S.roots["query"] = parent THEN SchemaMetaFieldDef ELSE NoField
      [] name = "__type" -> IF S.roots["query"] = parent THEN TypeMetaFieldDef ELSE NoField
      [] name = "__typename" -> TypeNameMetaFieldDef
      [] OTHER -> IF parent \in DOMAIN S.types /\ name \in DOMAIN S.types[parent].fields
                  THEN S.types[parent].fields[name] ELSE NoField

-----------------------------------------------------------------------------
(* Comparisons of types.                                                   *)

IsEqualType(a, b) == a = b

RECURSIVE IsTypeSubTypeOf(_, _, _)
IsTypeSubTypeOf(S, sub, super) ==
    \/ sub = super
    \/ /\ IsNonNull(super) /\ IsNonNull(sub)
       /\ IsTypeSubTypeOf(S, OfType(sub), OfType(super))
    \/ /\ ~IsNonNull(super) /\ IsNonNull(sub)
       /\ IsTypeSubTypeOf(S, OfType(sub), super)
    \/ /\ IsList(super) /\ IsList(sub)
       /\ IsTypeSubTypeOf(S, OfType(sub), OfType(super))
    \/ /\ ~IsWrapping(super) /\ ~IsWrapping(sub)
       /\ IsAbstractType(S, NamedOf(super))
       /\ Kind(S, NamedOf(sub)) \in {"interface", "object"}
       /\ IsSubType(S, NamedOf(super), NamedOf(sub))

DoTypesOverlap(S, a, b) ==
    \/ a = b
    \/ /\ IsAbstractType(S, a) /\ IsAbstractType(S, b)
       /\ \E t \in PossibleTypes(S, a) : IsSubType(S, b, t)
    \/ /\ IsAbstractType(S, a) /\ ~IsAbstractType(S, b)
       /\ IsSubType(S, a, b)
    \/ /\ ~IsAbstractType(S, a) /\ IsAbstractType(S, b)
       /\ IsSubType(S, b, a)
=============================================================================

----------------------------- MODULE MCRequests -----------------------------
(* Schemas and requests for TLC: families of small documents.              *)
EXTENDS Requests

-----------------------------------------------------------------------------
(* The schemas.                                                            *)

IntType == <<"Int">>
NonNullInt == <<"NonNull", "Int">>
Args1(name, type, default) == name :> InputValue(type, default)
Plain(type) == FieldDef(type, NoFields)
One == Scalar("int", "1")
Two == Scalar("int", "2")

If == Args1("if", <<"NonNull", "Boolean">>, Undefined)
IfTrue == Args1("if", <<"NonNull", "Boolean">>, Scalar("boolean", "true"))
Label == Args1("label", <<"String">>, Undefined)
DirectiveDef(args, locations) == [args |-> args, locations |-> locations, repeatable |-> FALSE]
Selections == {"FIELD", "FRAGMENT_SPREAD", "INLINE_FRAGMENT"}
Directives ==
    "skip" :> DirectiveDef(If, Selections) @@ "include" :> DirectiveDef(If, Selections)
    @@ "defer" :> DirectiveDef(IfTrue @@ Label, Selections \ {"FIELD"})
    @@ "stream" :> DirectiveDef(IfTrue @@ Label @@ Args1("initialCount", NonNullInt, Scalar("int", "0")),
                                {"FIELD"})

BaseTypes ==
    "Query" :> ObjectType(
        "a" :> Plain(<<"A">>) @@ "i" :> Plain(<<"I">>) @@ "u" :> Plain(<<"U">>)
        @@ "l" :> Plain(<<"List", "A">>)
        @@ "f" :> FieldDef(IntType, Args1("n", NonNullInt, Scalar("int", "5")) @@ Args1("m", IntType, Undefined))
        @@ "g" :> FieldDef(IntType, Args1("p", <<"P">>, Undefined) @@ Args1("ps", <<"List", "P">>, Undefined))
        @@ "h" :> FieldDef(IntType, Args1("o", <<"O">>, Undefined) @@ Args1("e", <<"E">>, Undefined)), <<>>)
    @@ "I" :> InterfaceType("x" :> Plain(IntType) @@ "s" :> Plain(<<"I">>), <<>>)
    @@ "A" :> ObjectType("x" :> Plain(IntType) @@ "s" :> Plain(<<"A">>)
                         @@ "c" :> FieldDef(IntType, Args1("n", IntType, Undefined)), <<"I">>)
    @@ "B" :> ObjectType("x" :> Plain(IntType) @@ "s" :> Plain(<<"I">>)
                         @@ "c" :> FieldDef(<<"String">>, Args1("n", IntType, Undefined)), <<"I">>)
    @@ "U" :> UnionType(<<"A", "B">>)
    @@ "E" :> EnumType({"X", "Y"})
    @@ "P" :> InputObjectType("r" :> InputValue(NonNullInt, Undefined)
                              @@ "d" :> InputValue(NonNullInt, Scalar("int", "3")), FALSE)
    @@ "O" :> InputObjectType("a" :> InputValue(IntType, Undefined)
                              @@ "p" :> InputValue(<<"P">>, Undefined), TRUE)
    @@ "Mutation" :> ObjectType("a" :> Plain(<<"A">>), <<>>)
    @@ "Subscription" :> ObjectType("a" :> Plain(<<"A">>), <<>>)
Roots == [query |-> "Query", mutation |-> "Mutation", subscription |-> "Subscription"]
SchemaWith(types) == MakeSchema(types, Roots, {}, Directives)

\* A later version has a field, a type or an input that is different.
Field1(T, type, name, def) == [T EXCEPT ![type].fields = (name :> def) @@ @]
NoField1(T, type, name) == [T EXCEPT ![type].fields = Restrict(@, DOMAIN @ \ {name})]
FieldF(T, args) == Field1(T, "Query", "f", FieldDef(IntType, args))
Inputs1(type) == Args1("m", IntType, Undefined) @@ Args1("n", type, Undefined)
VersionsOf(T) ==
    [base |-> T,
     \* safe or dangerous
     argument_added |-> FieldF(T, Inputs1(IntType) @@ Args1("z", IntType, Undefined)),
     member_less |-> [T EXCEPT !["U"].members = <<"A">>],
     value_less |-> [T EXCEPT !["E"].values = {"X"}],
     value_more |-> [T EXCEPT !["E"].values = {"X", "Y", "Z"}],
     input_added |-> Field1(T, "P", "z", InputValue(IntType, Undefined)),
     input_nullable |-> Field1(T, "P", "r", InputValue(IntType, Undefined)),
     default_changed |-> FieldF(T, Args1("m", IntType, One) @@ Args1("n", NonNullInt, Two)),
     not_one_of |-> [T EXCEPT !["O"].oneOf = FALSE],
     field_non_null |-> Field1(T, "A", "x", Plain(NonNullInt)),
     \* breaking
     argument_removed |-> FieldF(T, Args1("n", IntType, Undefined)),
     argument_required |-> FieldF(T, Inputs1(IntType) @@ Args1("z", NonNullInt, Undefined)),
     argument_list |-> FieldF(T, Inputs1(<<"List", "Int">>)),
     argument_non_null |-> FieldF(T, [Inputs1(IntType) EXCEPT !["m"].type = NonNullInt]),
     default_removed |-> FieldF(T, Inputs1(NonNullInt)),
     field_removed |-> NoField1(T, "A", "c"),
     field_list |-> Field1(T, "A", "c", FieldDef(<<"List", "Int">>, Args1("n", IntType, Undefined))),
     input_required |-> Field1(T, "P", "z", InputValue(NonNullInt, Undefined)),
     input_removed |-> NoField1(T, "P", "d"),
     input_non_null |-> Field1(T, "P", "d", InputValue(NonNullInt, Undefined)),
     interface_less |-> [T EXCEPT !["B"].interfaces = <<>>],
     one_of |-> [T EXCEPT !["P"] = InputObjectType(
                    "r" :> InputValue(IntType, Undefined) @@ "d" :> InputValue(IntType, Undefined), TRUE)],
     \* not valid
     bad_field |-> NoField1(T, "B", "x"),
     bad_type |-> Field1(T, "B", "x", Plain(<<"E">>)),
     bad_argument |-> Field1(T, "B", "x", FieldDef(IntType, Args1("n", NonNullInt, Undefined))),
     bad_member |-> [T EXCEPT !["U"].members = <<"A", "I">>],
     bad_default |-> Field1(T, "P", "r", InputValue(NonNullInt, Null)),
     bad_enum |-> [T EXCEPT !["E"].values = {}]]
Versions == VersionsOf(BaseTypes)

\* Input objects that refer to each other, with defaults.
InputTypes == {<<"Int">>, <<"P">>, <<"O">>, <<"NonNull", "P">>, <<"NonNull", "O">>, <<"List", "O">>}
Circular(p, q, o, defaultP, defaultQ) ==
    [BaseTypes EXCEPT
        !["P"] = InputObjectType("r" :> InputValue(p, defaultP) @@ "d" :> InputValue(q, defaultQ), FALSE),
        !["O"] = InputObjectType("a" :> InputValue(o, Undefined) @@ "p" :> InputValue(<<"P">>, defaultP), FALSE)]
Empty == Object(<<>>)
CircularVersions ==
    {<<p, q, o, dp, dq>> \in InputTypes \X InputTypes \X InputTypes
            \X {Undefined, Empty, Object(<<Arg("d", Empty)>>)} \X {Undefined, Empty, Null} :
        /\ dp # Undefined => p # <<"Int">>
        /\ dq # Undefined => q # <<"Int">>}

MCSchemaOf ==
    [v \in {<<name>> : name \in DOMAIN Versions} \cup CircularVersions |->
        SchemaWith(IF Len(v) = 1 THEN Versions[v[1]]
                   ELSE Circular(v[1], v[2], v[3], v[4], v[5]))]

-----------------------------------------------------------------------------
(* The documents.                                                          *)

Query(sel) == Operation("query", "", <<>>, sel)
QueryWith(defs, sel) == Operation("query", "", defs, sel)
Leaf(name) == Field(name, <<>>, <<>>)
Of(name, sel) == Field(name, <<>>, sel)
CN(value) == Field("c", <<Arg("n", value)>>, <<>>)
UseF == Spread("F", <<>>)
UseG == Spread("G", <<>>)

\* Two selections that meet, in fragments of various types.
Leaves == {Leaf("x"), Leaf("c"), CN(One), Aliased("x", CN(Two)), Aliased("c", Leaf("x")),
           Of("s", <<Leaf("x")>>), Of("s", <<Aliased("x", Leaf("__typename"))>>), UseF}
Typed(on, node) == Inline(on, <<node>>)
MergeDocs ==
    {<<Query(<<Of("i", <<n1, n2>>)>>), Fragment("F", on, <<>>, <<n3>>)>> :
        n1 \in {Typed("A", n) : n \in Leaves}, n2 \in {Typed(t, n) : t \in {"A", "B"}, n \in Leaves},
        on \in {"A", "B", "I"}, n3 \in {Aliased("c", Leaf("x")), Of("s", <<Leaf("x")>>)}}
    \cup
    {<<Query(<<Of(f, <<Typed("A", n1), Of("s", <<Typed("A", n2)>>), UseF, UseG>>)>>),
       Fragment("F", "A", <<>>, <<Of("s", <<n1>>)>>), Fragment("G", "I", <<>>, <<Of("s", <<n3>>)>>)>> :
        f \in {"i", "a"}, n1 \in {Leaf("c"), CN(One)}, n2 \in {CN(One), Leaf("x")},
        n3 \in {Leaf("x"), Typed("A", Leaf("c")), Typed("B", Leaf("c")), UseF, UseG}}
    \cup
    {<<Query(<<Of("i", <<Typed("A", Of("s", <<UseF>>)), Typed("B", Of("s", <<UseG>>)), n>>)>>),
       Fragment("F", "A", <<>>, <<n1>>), Fragment("G", "A", <<>>, <<n2>>)>> :
        n \in {Of("s", <<UseF>>), Of("s", <<UseG>>), Leaf("x")}, n1, n2 \in {CN(One), CN(Two), Leaf("c")}}

\* A variable of some type and default, where it may be used.
VarV == Var("v")
VariableTypes == {<<"Int">>, NonNullInt, <<"List", "Int">>, <<"P">>, <<"NonNull", "P">>, <<"E">>}
F1(arg, value) == Field("f", <<Arg(arg, value)>>, <<>>)
ArgumentUses ==
    {F1("n", VarV), F1("m", VarV), Field("g", <<Arg("p", VarV)>>, <<>>), Field("g", <<Arg("ps", VarV)>>, <<>>),
     Field("g", <<Arg("ps", ListOf(<<VarV>>))>>, <<>>),
     Field("g", <<Arg("p", Object(<<Arg("r", VarV)>>))>>, <<>>),
     Field("g", <<Arg("p", Object(<<Arg("r", One), Arg("d", VarV)>>))>>, <<>>),
     Field("h", <<Arg("o", Object(<<Arg("a", VarV)>>))>>, <<>>),
     Field("h", <<Arg("o", Object(<<Arg("p", VarV)>>))>>, <<>>),
     Field("h", <<Arg("e", VarV)>>, <<>>)}
GivenValues == {Undefined, Null, One, Scalar("string", "X"), Dict("r" :> One), ListOf(<<One, Null>>)}
Given(v) == IF v = Undefined THEN NoValues ELSE "v" :> v
Defaults(type) == IF NamedOf(type) = "Int" THEN {Undefined, Null, One} ELSE {Undefined, Null}
VariableDocs ==
    UNION {{<<QueryWith(<<VariableDef("v", t, d)>>, <<use>>)>> : d \in Defaults(t), use \in ArgumentUses} :
              t \in VariableTypes}
    \cup UNION {{<<QueryWith(<<VariableDef("v", t, d)>>, <<UseF>>), Fragment("F", "Query", <<>>, <<use>>)>> :
              d \in Defaults(t), use \in {F1("n", VarV), F1("m", VarV)}} : t \in {<<"Int">>, NonNullInt}}

\* Fragments with a variable of their own.
Passed == {<<>>, <<Arg("w", One)>>, <<Arg("w", Null)>>, <<Arg("w", VarV)>>}
FragmentVariableDocs ==
    {<<QueryWith(<<VariableDef("v", t1, Undefined)>>, <<F1("m", VarV), Spread("F", args)>>),
       Fragment("F", "Query", <<VariableDef("w", t2, d)>>, <<Aliased("k", use)>>)>> :
        t1 \in {<<"Int">>, NonNullInt}, args \in Passed, t2 \in {<<"Int">>, NonNullInt},
        d \in {Undefined, One},
        use \in {F1("n", Var("w")), F1("m", Var("w")),
                 Field("g", <<Arg("p", Object(<<Arg("r", Var("w"))>>))>>, <<>>)}}

\* Deferred fragments: nested, repeated, beside selections that are not.
Deferred(node) == With(node, <<Directive("defer", <<>>)>>)
Maybe(node) == {node, Deferred(node)}
In(on, sel) == Maybe(Inline(on, sel))
AX == Of("a", <<Leaf("x")>>)
AS == Of("a", <<Of("s", <<Leaf("x")>>)>>)
DeferDocs ==
    {<<Query(<<n1, n2>>), Fragment("F", "Query", <<>>, <<n3, AX>>), Fragment("G", "Query", <<>>, <<AS>>)>> :
        n1 \in Maybe(UseF), n2 \in {AS, AX} \cup Maybe(UseF) \cup Maybe(UseG),
        n3 \in Maybe(UseG) \cup {AS}}
    \cup
    {<<Query(<<n1, n2>>)>> :
        n1 \in UNION {In("", <<Of("a", <<i>>), Leaf("f")>>) : i \in In("A", <<Leaf("x"), Of("s", <<Leaf("x")>>)>>)},
        n2 \in {Of("a", <<i>>) : i \in In("I", <<Leaf("x")>>) \cup In("", <<Of("s", <<Leaf("c")>>)>>)}
               \cup UNION {In("", <<Of("a", <<i>>)>>) : i \in In("A", <<Of("s", <<Leaf("x")>>)>>)}}
    \cup
    {<<Query(<<Of("i", <<n1, n2>>)>>), Fragment("F", "I", <<>>, <<Leaf("x"), Of("s", <<n3>>)>>)>> :
        n1 \in Maybe(UseF), n2 \in In("A", <<Leaf("c"), Of("s", <<Leaf("c")>>)>>) \cup Maybe(UseF),
        n3 \in {Leaf("x")} \cup In("A", <<Leaf("x")>>)}

\* Streamed lists, with deferred fragments in and around them.
Streaming(count, node) == With(node, <<Directive("stream", <<Arg("initialCount", Scalar("int", count))>>)>>)
StreamDocs ==
    {<<Query(<<n>>)>> :
        n \in UNION {In("", <<Streaming(count, Of("l", <<i, Leaf("x")>>))>>) :
                        count \in {"0", "1"}, i \in In("A", <<Leaf("c"), Of("s", <<Leaf("x")>>)>>)}}

\* A field of the initial result, and others that are collected later.
MemoDocs ==
    {<<Query(<<AX, n>>)>> :
        n \in {Streaming("0", Of("l", <<Of("s", <<Leaf("c")>>)>>)), Aliased("k", AS),
               Aliased("k", Of("a", <<Deferred(Inline("", <<Of("s", <<Of("s", <<Leaf("c")>>)>>)>>))>>)),
               Deferred(Inline("", <<Aliased("k", Of("a", <<Of("s", <<Leaf("c")>>)>>))>>))}}

\* What the rules for operations and directives have to say.
OtherDocs ==
    {<<Operation(op, "", <<>>, <<n>>), Fragment("F", on, <<>>, <<Of("a", <<Leaf("x")>>), s>>)>> :
        op \in {"query", "mutation", "subscription"}, n \in Maybe(UseF), on \in {"Query", "Mutation", "Subscription"},
        s \in {UseF, Of("a", <<Deferred(Inline("", <<Leaf("x")>>))>>)}}
    \cup {<<Query(<<Of("u", <<With(Leaf("__typename"), <<Directive("stream", <<>>)>>)>>)>>)>>}

NoInputs == NoValues
Scenario(next, doc, inputs) ==
    [version |-> <<"base">>, next |-> next, doc |-> doc, inputs |-> inputs, operation |-> "", located |-> TRUE]

UpgradeDocs ==
    {<<Query(<<Of("u", <<Typed("A", n1), Typed("B", n2)>>)>>)>> : n1, n2 \in {Leaf("x"), CN(One), Of("s", <<Leaf("x")>>)}}
    \cup {<<Query(<<n>>)>> :
            n \in {Of("i", <<Typed("B", Leaf("x"))>>), Leaf("f"), F1("m", Two), F1("m", Null),
                   Field("g", <<Arg("p", Object(<<Arg("r", One), Arg("d", Two)>>))>>, <<>>),
                   Field("g", <<Arg("p", Object(<<Arg("r", One)>>))>>, <<>>),
                   Field("h", <<Arg("e", Scalar("enum", "Y"))>>, <<>>),
                   Field("h", <<Arg("o", Object(<<Arg("a", One)>>))>>, <<>>)}}
    \cup {<<QueryWith(<<VariableDef("v", t, Undefined)>>, <<use>>)>> :
            t \in {<<"Int">>, NonNullInt, <<"P">>}, use \in {F1("n", VarV), F1("m", VarV), Field("g", <<Arg("p", VarV)>>, <<>>)}}

DirectiveScenarios ==
    {Scenario(<<>>, doc, NoInputs) : doc \in DeferDocs \cup StreamDocs \cup MemoDocs \cup OtherDocs}
MCScenarios ==
    DirectiveScenarios
    \cup {Scenario(<<>>, doc, NoInputs) : doc \in MergeDocs}
    \cup {Scenario(<<>>, doc, Given(v)) : doc \in VariableDocs \cup FragmentVariableDocs, v \in GivenValues}
    \cup {Scenario(<<next>>, doc, Given(v)) :
            next \in DOMAIN Versions \ {"base"}, doc \in UpgradeDocs, v \in {One, Dict("r" :> One)}}
    \cup {[Scenario(<<>>, <<Query(<<Leaf("f")>>)>>, NoInputs) EXCEPT !.version = v] : v \in CircularVersions}
=============================================================================

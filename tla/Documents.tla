----------------------------- MODULE Documents -----------------------------
(***************************************************************************)
(* Documents as data, and what a visitor knows at each node of them: the   *)
(* types that utilities/type_info.py keeps on its stacks, and the questions*)
(* that validation/validation_context.py answers.  A selection set is a    *)
(* sequence of nodes, a document one of definitions.                       *)
(***************************************************************************)
EXTENDS Schemas

Node(kind) ==
    [kind |-> kind, name |-> "", alias |-> "", on |-> "", op |-> "", vars |-> <<>>,
     args |-> <<>>, dirs |-> <<>>, sel |-> <<>>]
Arg(name, value) == [name |-> name, value |-> value]
Directive(name, args) == [name |-> name, args |-> args]
VariableDef(name, type, default) ==
    [name |-> name, type |-> type, default |-> default, dirs |-> <<>>]
Field(name, args, sel) == [Node("field") EXCEPT !.name = name, !.args = args, !.sel = sel]
Aliased(alias, field) == [field EXCEPT !.alias = alias]
Inline(on, sel) == [Node("inline") EXCEPT !.on = on, !.sel = sel]
Spread(name, args) == [Node("spread") EXCEPT !.name = name, !.args = args]
With(node, dirs) == [node EXCEPT !.dirs = dirs]
Operation(op, name, vars, sel) ==
    [Node("operation") EXCEPT !.op = op, !.name = name, !.vars = vars, !.sel = sel]
Fragment(name, on, vars, sel) ==
    [Node("fragment") EXCEPT !.name = name, !.on = on, !.vars = vars, !.sel = sel]

\* The nodes by their names: the last one wins.
ByName(nodes) ==
    [n \in {e.name : e \in Range(nodes)} |->
        nodes[SelectLastInSeq(nodes, LAMBDA e : e.name = n)].value]

ResponseName(field) == IF field.alias = "" THEN field.name ELSE field.alias

-----------------------------------------------------------------------------
(* The visit of a document with its TypeInfo.  A visit has the node, the   *)
(* path that identifies it, and what get_parent_type(), get_field_def() and*)
(* get_type() return when it has been entered.                             *)

CompositeName(S, type) ==
    LET name == NamedOf(type) IN IF IsCompositeType(S, name) THEN name ELSE ""

\* enter_inline_fragment() and enter_fragment_definition()
ConditionType(S, on, outer) ==
    LET type == CASE on # "" -> TypeFromAst(S, <<on>>)
                  [] on = "" /\ outer # NoType -> <<NamedOf(outer)>>
                  [] OTHER -> NoType
    IN IF IsOutputType(S, type) THEN type ELSE NoType

\* enter_field(), for the field's definition and its type
FieldDefOf(S, parent, name) == IF parent = "" THEN NoField ELSE GetField(S, parent, name)
FieldType(S, field) == IF IsOutputType(S, field.type) THEN field.type ELSE NoType

Visit(node, path, parent, field, type) ==
    [node |-> node, path |-> path, parent |-> parent, field |-> field, type |-> type]

RECURSIVE SelectionVisits(_, _, _, _, _)
SelectionVisits(S, sel, path, outer, outerField) ==
    LET parent == CompositeName(S, outer)
        At(i) ==
            LET node == sel[i]
                field == IF node.kind = "field" THEN FieldDefOf(S, parent, node.name)
                         ELSE outerField
                type == CASE node.kind = "field" -> FieldType(S, field)
                          [] node.kind = "inline" -> ConditionType(S, node.on, outer)
                          [] node.kind = "spread" -> outer
                here == Append(path, i)
            IN {Visit(node, here, parent, field, type)}
               \cup SelectionVisits(S, node.sel, here, type, field)
    IN UNION {At(i) : i \in DOMAIN sel}

\* enter_operation_definition() and enter_fragment_definition()
DefinitionType(S, def) ==
    CASE def.kind = "operation" ->
            LET root == RootType(S, def.op)
            IN IF Kind(S, root) = "object" THEN <<root>> ELSE NoType
      [] def.kind = "fragment" -> ConditionType(S, def.on, NoType)
      [] OTHER -> NoType

DefinitionVisits(S, doc, d) ==
    LET type == DefinitionType(S, doc[d])
    IN {Visit(doc[d], <<d>>, "", NoField, type)}
       \cup SelectionVisits(S, doc[d].sel, <<d>>, type, NoField)

\* What the rules work on: the schema, the document and its visited nodes.
Context(S, doc) ==
    [schema |-> S, doc |-> doc,
     visits |-> UNION {DefinitionVisits(S, doc, d) : d \in DOMAIN doc}]

VisitsOf(C, kind) == {v \in C.visits : v.node.kind = kind}
Parent(path) == SubSeq(path, 1, Len(path) - 1)

-----------------------------------------------------------------------------
(* Directives and arguments with their definitions.                        *)

Location(node) ==
    CASE node.kind = "field" -> "FIELD"
      [] node.kind = "spread" -> "FRAGMENT_SPREAD"
      [] node.kind = "inline" -> "INLINE_FRAGMENT"
      [] node.kind = "fragment" -> "FRAGMENT_DEFINITION"
      [] node.kind = "operation" /\ node.op = "query" -> "QUERY"
      [] node.kind = "operation" /\ node.op = "mutation" -> "MUTATION"
      [] node.kind = "operation" /\ node.op = "subscription" -> "SUBSCRIPTION"
      [] OTHER -> "OTHER"

\* The nodes with directives: those of the selections, and the variables.
Annotated(C) ==
    {[dirs |-> v.node.dirs, location |-> Location(v.node), visit |-> v] : v \in C.visits}
    \cup UNION {{[dirs |-> d.dirs, visit |-> v,
                  location |-> IF v.node.kind = "operation" THEN "VARIABLE_DEFINITION"
                               ELSE "FRAGMENT_VARIABLE_DEFINITION"] :
                    d \in Range(v.node.vars)} : v \in C.visits}

Applied(C) ==
    UNION {{[dir |-> a.dirs[i], index |-> i, location |-> a.location, visit |-> a.visit] :
               i \in DOMAIN a.dirs} : a \in Annotated(C)}

GetDirective(S, name) ==
    IF name \in DOMAIN S.directives THEN S.directives[name]
    ELSE [args |-> NoFields, locations |-> {}, repeatable |-> FALSE]

\* get_fragment(), as long as there is one of that name: the last one
FragmentNames(doc) == {doc[d].name : d \in {e \in DOMAIN doc : doc[e].kind = "fragment"}}
GetFragment(doc, name) ==
    SelectLastInSeq(doc, LAMBDA def : def.kind = "fragment" /\ def.name = name)

NoInput == InputValue(NoType, Undefined)
SignatureOf(doc, name) ==
    IF name \notin FragmentNames(doc) THEN NoFields
    ELSE LET vars == doc[GetFragment(doc, name)].vars
         IN [n \in {v.name : v \in Range(vars)} |->
                vars[SelectLastInSeq(vars, LAMBDA v : v.name = n)]]

\* The argument lists of a document with the arguments they may have.
ArgumentLists(C) ==
    {[args |-> v.node.args, defs |-> v.field.args, of |-> "field", isKnown |-> v.field # NoField, visit |-> v] :
        v \in VisitsOf(C, "field")}
    \cup {[args |-> a.dir.args, of |-> "directive", visit |-> a.visit,
           isKnown |-> a.dir.name \in DOMAIN C.schema.directives,
           defs |-> IF a.dir.name \in DOMAIN C.schema.directives
                    THEN C.schema.directives[a.dir.name].args ELSE a.visit.field.args] :
            a \in Applied(C)}
    \cup {[args |-> v.node.args, defs |-> SignatureOf(C.doc, v.node.name), of |-> "spread",
           isKnown |-> v.node.name \in FragmentNames(C.doc), visit |-> v] : v \in VisitsOf(C, "spread")}

\* enter_argument() and enter_fragment_argument(): type and default.  The
\* default of a fragment's variable is not one of the location.
InputPosition(S, list, name) ==
    LET def == IF name \in DOMAIN list.defs THEN list.defs[name] ELSE NoInput
    IN [type |-> IF IsInputType(S, def.type) THEN def.type ELSE NoType,
        default |-> IF list.of = "spread" THEN Undefined ELSE def.default]

-----------------------------------------------------------------------------
(* Variables: where they are used.                                         *)

\* enter_list_value() and enter_object_field(): what is expected in a value.
ItemType(type) ==
    LET list == NullableType(type) IN IF IsList(list) THEN OfType(list) ELSE NoType
InputField(S, type, name) ==
    LET object == GetType(S, NamedOf(type))
    IN IF object.kind = "input" /\ name \in DOMAIN object.fields THEN object.fields[name]
       ELSE NoInput

RECURSIVE UsagesIn(_, _, _, _, _)
UsagesIn(S, value, type, parent, default) ==
    CASE value.k = "var" ->
            {[name |-> value.v, type |-> type, parent |-> parent, default |-> default]}
      [] value.k = "list" ->
            UNION {UsagesIn(S, i, ItemType(type), type, Undefined) : i \in Range(value.items)}
      [] value.k = "object" ->
            UNION {LET field == InputField(S, type, e.name)
                   IN UsagesIn(S, e.value, field.type, type, field.default) :
                      e \in Range(value.entries)}
      [] OTHER -> {}

\* get_variable_usages(): in a fragment every usage is recorded without the
\* default of its location, and with the fragment's variable of that name.
VariableUsages(C, d) ==
    LET def == C.doc[d]
        lists == {l \in ArgumentLists(C) : l.visit.path[1] = d}
        found == UNION {UNION {
                    LET at == InputPosition(C.schema, l, a.name)
                    IN UsagesIn(C.schema, a.value, at.type, NoType, at.default) :
                    a \in Range(l.args)} : l \in lists}
        own == SignatureOf(C.doc, def.name)
    IN IF def.kind = "operation"
       THEN {[use |-> u, own |-> <<>>] : u \in found}
       ELSE {[use |-> [u EXCEPT !.default = Undefined],
              own |-> IF u.name \in DOMAIN own THEN <<own[u.name]>> ELSE <<>>] : u \in found}

-----------------------------------------------------------------------------
(* Fragments: which ones a selection set refers to.                        *)

RECURSIVE SpreadNames(_)
SpreadNames(sel) ==
    UNION {(IF node.kind = "spread" THEN {node.name} ELSE {}) \cup SpreadNames(node.sel) :
              node \in Range(sel)}

RECURSIVE ReachedFragments(_, _)
ReachedFragments(doc, names) ==
    LET known == names \cap FragmentNames(doc)
        more == names \cup UNION {SpreadNames(doc[GetFragment(doc, n)].sel) : n \in known}
    IN IF more = names THEN known ELSE ReachedFragments(doc, more)

\* get_recursively_referenced_fragments() and get_recursive_variable_usages()
ReferencedFragments(doc, d) == ReachedFragments(doc, SpreadNames(doc[d].sel))

RecursiveUsages(C, d) ==
    VariableUsages(C, d)
    \cup UNION {VariableUsages(C, GetFragment(C.doc, n)) : n \in ReferencedFragments(C.doc, d)}

Operations(doc) == {d \in DOMAIN doc : doc[d].kind = "operation"}
Fragments(doc) == {d \in DOMAIN doc : doc[d].kind = "fragment"}
=============================================================================

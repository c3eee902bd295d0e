------------------------- MODULE OverlappingFields -------------------------
(***************************************************************************)
(* Whether the fields of a selection set can be merged: the rule of        *)
(* validation/rules/overlapping_fields_can_be_merged.py with its caches,   *)
(* and the pairwise comparison that it has to agree with.                  *)
(*                                                                         *)
(* "O" is a Context with the flag "located": the cache of the field maps   *)
(* finds a selection set by its value, which includes where it is in the   *)
(* document when it has been parsed with locations.                        *)
(***************************************************************************)
EXTENDS Documents

NoMap == [x \in {} |-> Null]

-----------------------------------------------------------------------------
(* Comparisons.                                                            *)

RECURSIVE ReplaceFragmentVariables(_, _)
ReplaceFragmentVariables(v, map) ==
    CASE v.k = "var" -> IF v.v \in DOMAIN map THEN map[v.v] ELSE v
      [] v.k = "list" ->
            ListOf([i \in DOMAIN v.items |-> ReplaceFragmentVariables(v.items[i], map)])
      [] v.k = "object" ->
            Object([i \in DOMAIN v.entries |->
                [v.entries[i] EXCEPT !.value = ReplaceFragmentVariables(@, map)]])
      [] OTHER -> v

\* stringify_value(): the order of the entries of an object does not count.
RECURSIVE Unordered(_)
Unordered(v) ==
    CASE v.k = "list" -> ListOf([i \in DOMAIN v.items |-> Unordered(v.items[i])])
      [] v.k = "object" -> Object({[e EXCEPT !.value = Unordered(@)] : e \in Range(v.entries)})
      [] OTHER -> v

SameArguments(args1, map1, args2, map2) ==
    LET values2 == ByName(args2)
    IN /\ Len(args1) = Len(args2)
       /\ \A a \in Range(args1) :
             /\ a.name \in DOMAIN values2
             /\ Unordered(ReplaceFragmentVariables(a.value, map1))
                = Unordered(ReplaceFragmentVariables(values2[a.name], map2))

GetStreamDirective(node) == SelectSeq(node.dirs, LAMBDA d : d.name = "stream")
SameStreams(node1, node2) ==
    LET stream1 == GetStreamDirective(node1)
        stream2 == GetStreamDirective(node2)
    IN \/ stream1 = <<>> /\ stream2 = <<>>
       \/ /\ stream1 # <<>> /\ stream2 # <<>>
          /\ SameArguments(Head(stream1).args, NoMap, Head(stream2).args, NoMap)

RECURSIVE DoTypesConflict(_, _, _)
DoTypesConflict(S, type1, type2) ==
    IF IsWrapping(type1) \/ IsWrapping(type2)
    THEN \/ Head(type1) # Head(type2)
         \/ DoTypesConflict(S, OfType(type1), OfType(type2))
    ELSE /\ IsLeafType(S, NamedOf(type1)) \/ IsLeafType(S, NamedOf(type2))
         /\ type1 # type2

\* find_conflict(): fields of different object types exclude each other
AreMutuallyExclusive(S, field1, field2) ==
    /\ field1.parent # field2.parent
    /\ Kind(S, field1.parent) = "object" /\ Kind(S, field2.parent) = "object"

\* Mutant: the arguments are not compared.
FieldsDifferByName(S, exclusive, field1, map1, field2, map2) ==
    \/ ~exclusive /\ field1.node.name # field2.node.name
    \/ ~SameStreams(field1.node, field2.node)
    \/ /\ field1.type # NoType /\ field2.type # NoType
       /\ DoTypesConflict(S, field1.type, field2.type)

\* What is compared before the selection sets of the two fields.
FieldsDiffer(S, exclusive, field1, map1, field2, map2) ==
    \/ /\ ~exclusive
       /\ \/ field1.node.name # field2.node.name
          \/ ~SameArguments(field1.node.args, map1, field2.node.args, map2)
    \/ ~SameStreams(field1.node, field2.node)
    \/ /\ field1.type # NoType /\ field2.type # NoType
       /\ DoTypesConflict(S, field1.type, field2.type)

-----------------------------------------------------------------------------
(* The fields and the spreads of a selection set.                          *)

FieldIn(S, parent, node, path) ==
    [parent |-> parent, node |-> node, path |-> path,
     type |-> IF Kind(S, parent) \in {"object", "interface"}
                 /\ node.name \in DOMAIN S.types[parent].fields
              THEN S.types[parent].fields[node.name].type ELSE NoType]

\* A dict of lists: a field comes after the fields of its response name.
AddField(fields, field) ==
    LET last == SelectLastInSeq(fields, LAMBDA f : ResponseName(f.node) = ResponseName(field.node))
    IN IF last = 0 THEN Append(fields, field) ELSE InsertAt(fields, last + 1, field)

\* get_fragment_spread(): the key has the arguments as they are written, the
\* map replaces the variables of the fragment that spreads this one.
SpreadIn(doc, node, map) ==
    LET vars == SignatureOf(doc, node.name)
        given == Restrict(ByName(node.args), DOMAIN vars \cap {a.name : a \in Range(node.args)})
        defaults == {n \in DOMAIN vars \ DOMAIN given : vars[n].default # Undefined}
    IN [node |-> node, key |-> <<node.name, [n \in DOMAIN given |-> Unordered(given[n])]>>,
        map |-> [n \in DOMAIN given \cup defaults |->
                    IF n \in DOMAIN given THEN ReplaceFragmentVariables(given[n], map)
                    ELSE vars[n].default]]

\* A dict: the last spread with a key is kept, in the place of the first one.
AddSpread(spreads, spread) ==
    LET first == SelectInSeq(spreads, LAMBDA s : s.key = spread.key)
    IN IF first = 0 THEN Append(spreads, spread) ELSE [spreads EXCEPT ![first] = spread]

\* collect_fields_and_fragment_spreads(), from the selection "i" on
RECURSIVE CollectOwn(_, _, _, _, _, _, _)
CollectOwn(O, parent, sel, path, i, map, acc) ==
    IF i > Len(sel) THEN acc
    ELSE LET node == sel[i]
             here == Append(path, i)
             on == IF node.on = "" THEN parent ELSE NamedOf(TypeFromAst(O.schema, <<node.on>>))
             next == CASE node.kind = "field" ->
                             [acc EXCEPT !.fields = AddField(@, FieldIn(O.schema, parent, node, here))]
                       [] node.kind = "spread" ->
                             [acc EXCEPT !.spreads = AddSpread(@, SpreadIn(O.doc, node, map))]
                       [] OTHER -> CollectOwn(O, on, node.sel, here, 1, map, acc)
         IN CollectOwn(O, parent, sel, path, i + 1, map, next)

\* The memory of the rule: what the selection sets have, which pairs have been
\* compared (TRUE when only for shape), and whether there is a conflict.
NothingCompared ==
    [cache |-> [x \in {} |-> NoMap], fieldPairs |-> [x \in {} |-> FALSE],
     fragmentPairs |-> [x \in {} |-> FALSE], conflict |-> FALSE]

\* Mutant: a pair that has been compared for its shape counts as compared.
HasPairAtAll(pairs, pair, exclusive) == pair \in DOMAIN pairs

HasPair(pairs, pair, exclusive) == pair \in DOMAIN pairs /\ (exclusive \/ ~pairs[pair])

CacheKey(O, sel, path) == IF O.located THEN path ELSE sel

\* get_fields_and_fragment_spreads() and get_referenced_fields_and_...()
Cached(O, parent, sel, path, map, st) ==
    LET key == CacheKey(O, sel, path)
    IN IF key \in DOMAIN st.cache THEN st
       ELSE [st EXCEPT !.cache = @ @@ (key :>
                CollectOwn(O, parent, sel, path, 1, map, [fields |-> <<>>, spreads |-> <<>>]))]

FragmentKey(O, d) == CacheKey(O, O.doc[d].sel, <<d>>)
CachedFragment(O, d, map, st) ==
    Cached(O, NamedOf(TypeFromAst(O.schema, <<O.doc[d].on>>)), O.doc[d].sel, <<d>>, map, st)

-----------------------------------------------------------------------------
(* The comparisons, in the order of the code.  It is enough to know that   *)
(* there is a conflict: the comparisons after the first one are left out.  *)

\* What two nested loops pair, and what a loop over the later elements pairs.
Pairs(seq1, seq2) ==
    [k \in 1..(Len(seq1) * Len(seq2)) |->
        <<seq1[((k - 1) \div Len(seq2)) + 1], seq2[((k - 1) % Len(seq2)) + 1]>>]
IndexPairs(seq) == Pairs([i \in DOMAIN seq |-> i], [i \in DOMAIN seq |-> i])

RECURSIVE FindConflict(_, _, _, _, _, _, _)
CompareFields(O, exclusive, pairs, map1, map2, st) ==
    FoldLeft(LAMBDA acc, p :
                IF ResponseName(p[1].node) # ResponseName(p[2].node) THEN acc
                ELSE FindConflict(O, exclusive, p[1], map1, p[2], map2, acc),
             st, pairs)

CollectConflictsBetween(O, exclusive, fields1, map1, fields2, map2, st) ==
    CompareFields(O, exclusive, Pairs(fields1, fields2), map1, map2, st)

RECURSIVE BetweenFieldsAndFragment(_, _, _, _, _)
CompareWithFragment(O, exclusive, key, spread, own, st) ==
    IF key = own THEN st
    ELSE FoldLeft(LAMBDA acc, s : BetweenFieldsAndFragment(O, exclusive, key, s, acc),
                  CollectConflictsBetween(O, exclusive, st.cache[key].fields, NoMap,
                                          st.cache[own].fields, spread.map, st),
                  st.cache[own].spreads)

BetweenFieldsAndFragment(O, exclusive, key, spread, st) ==
    LET pair == <<key, spread.key>>
        d == GetFragment(O.doc, spread.node.name)
        added == [st EXCEPT !.fieldPairs = (pair :> exclusive) @@ @]
    IN IF st.conflict \/ HasPair(st.fieldPairs, pair, exclusive) THEN st
       ELSE IF spread.node.name \notin FragmentNames(O.doc) THEN added
       ELSE CompareWithFragment(O, exclusive, key, spread, FragmentKey(O, d),
                                CachedFragment(O, d, spread.map, added))

RECURSIVE BetweenFragments(_, _, _, _, _)
CompareFragments(O, exclusive, spread1, own1, spread2, own2, st) ==
    FoldLeft(LAMBDA acc, s : BetweenFragments(O, exclusive, s, spread2, acc),
             FoldLeft(LAMBDA acc, s : BetweenFragments(O, exclusive, spread1, s, acc),
                      CollectConflictsBetween(O, exclusive, st.cache[own1].fields, spread1.map,
                                              st.cache[own2].fields, spread2.map, st),
                      st.cache[own2].spreads),
             st.cache[own1].spreads)

BetweenFragments(O, exclusive, spread1, spread2, st) ==
    LET pair == {spread1.key, spread2.key}
        names == {spread1.node.name, spread2.node.name}
        d1 == GetFragment(O.doc, spread1.node.name)
        d2 == GetFragment(O.doc, spread2.node.name)
        added == [st EXCEPT !.fragmentPairs = (pair :> exclusive) @@ @]
    IN IF st.conflict \/ spread1.key = spread2.key THEN st
       ELSE IF /\ Cardinality(names) = 1
               /\ ~SameArguments(spread1.node.args, spread1.map, spread2.node.args, spread2.map)
       THEN [st EXCEPT !.conflict = TRUE]
       ELSE IF HasPair(st.fragmentPairs, pair, exclusive) THEN st
       ELSE IF ~(names \subseteq FragmentNames(O.doc)) THEN added
       ELSE CompareFragments(O, exclusive, spread1, FragmentKey(O, d1), spread2, FragmentKey(O, d2),
                CachedFragment(O, d2, spread2.map, CachedFragment(O, d1, spread1.map, added)))

AcrossSpreads(O, exclusive, spreads1, spreads2, st) ==
    FoldLeft(LAMBDA acc, p : BetweenFragments(O, exclusive, p[1], p[2], acc),
             st, Pairs(spreads1, spreads2))
FieldsAndSpreads(O, exclusive, pairs, st) ==
    FoldLeft(LAMBDA acc, p : BetweenFieldsAndFragment(O, exclusive, p[1], p[2], acc), st, pairs)

CompareSelectionSets(O, exclusive, key1, map1, key2, map2, st) ==
    LET own1 == st.cache[key1]
        own2 == st.cache[key2]
    IN AcrossSpreads(O, exclusive, own1.spreads, own2.spreads,
         FieldsAndSpreads(O, exclusive, Pairs(<<key1>>, own2.spreads) \o Pairs(<<key2>>, own1.spreads),
           CollectConflictsBetween(O, exclusive, own1.fields, map1, own2.fields, map2, st)))

BetweenSubSelectionSets(O, exclusive, f1, map1, f2, map2, st) ==
    CompareSelectionSets(O, exclusive, CacheKey(O, f1.node.sel, f1.path), map1,
        CacheKey(O, f2.node.sel, f2.path), map2,
        Cached(O, NamedOf(f2.type), f2.node.sel, f2.path, map2,
               Cached(O, NamedOf(f1.type), f1.node.sel, f1.path, map1, st)))

FindConflict(O, parentsExclusive, f1, map1, f2, map2, st) ==
    LET exclusive == parentsExclusive \/ AreMutuallyExclusive(O.schema, f1, f2)
    IN IF st.conflict THEN st
       ELSE IF FieldsDiffer(O.schema, exclusive, f1, map1, f2, map2)
       THEN [st EXCEPT !.conflict = TRUE]
       ELSE IF f1.node.sel = <<>> \/ f2.node.sel = <<>> THEN st
       ELSE BetweenSubSelectionSets(O, exclusive, f1, map1, f2, map2, st)

\* find_conflicts_within_selection_set() for the node of a visit: the fields,
\* and then each spread with the fields and with the later spreads
CollectConflictsWithin(O, fields, st) ==
    LET later == SelectSeq(IndexPairs(fields), LAMBDA p : p[1] < p[2])
    IN CompareFields(O, FALSE, [k \in DOMAIN later |-> <<fields[later[k][1]], fields[later[k][2]]>>],
                     NoMap, NoMap, st)

FindConflictsAmong(O, key, own, st) ==
    FoldLeft(LAMBDA acc, p :
                IF p[1] = p[2] THEN BetweenFieldsAndFragment(O, FALSE, key, own.spreads[p[1]], acc)
                ELSE BetweenFragments(O, FALSE, own.spreads[p[1]], own.spreads[p[2]], acc),
             CollectConflictsWithin(O, own.fields, st),
             SelectSeq(IndexPairs(own.spreads), LAMBDA p : p[1] <= p[2]))

FindConflictsWithin(O, visit, st) ==
    LET key == CacheKey(O, visit.node.sel, visit.path)
        read == Cached(O, CompositeName(O.schema, visit.type), visit.node.sel, visit.path, NoMap, st)
    IN FindConflictsAmong(O, key, read.cache[key], read)

\* enter_selection_set(), in the order of the visit
RECURSIVE EnterSelectionSets(_, _, _)
EnterSelectionSets(O, path, st) ==
    LET visit == CHOOSE v \in O.visits : v.path = path
    IN IF visit.node.sel = <<>> THEN st
       ELSE FoldLeft(LAMBDA acc, i : EnterSelectionSets(O, Append(path, i), acc),
                     FindConflictsWithin(O, visit, st), [i \in DOMAIN visit.node.sel |-> i])

OverlappingFieldsCanBeMerged(C, located) ==
    LET O == [schema |-> C.schema, doc |-> C.doc, visits |-> C.visits, located |-> located]
    IN FoldLeft(LAMBDA acc, d : EnterSelectionSets(O, <<d>>, acc), NothingCompared,
                [d \in DOMAIN C.doc |-> d]).conflict

-----------------------------------------------------------------------------
(* The reference: every pair of fields of every selection set, with the    *)
(* fragments that are spread in it (without arguments) in their place.     *)

RECURSIVE AllFields(_, _, _, _)
AllFields(C, parent, sel, entered) ==
    LET Of(node) ==
            LET on == IF node.kind = "inline" THEN node.on
                      ELSE C.doc[GetFragment(C.doc, node.name)].on
                type == IF on = "" THEN parent ELSE on
            IN CASE node.kind = "field" -> {FieldIn(C.schema, parent, node, <<>>)}
                 [] node.kind = "inline" -> AllFields(C, type, node.sel, entered)
                 [] node.kind = "spread" /\ node.name \in entered -> {}
                 [] OTHER -> AllFields(C, type, C.doc[GetFragment(C.doc, node.name)].sel,
                                       entered \cup {node.name})
    IN UNION {Of(node) : node \in Range(sel)}

RECURSIVE CanMerge(_, _, _, _)
CanMerge(C, exclusive, field1, field2) ==
    LET still == exclusive \/ AreMutuallyExclusive(C.schema, field1, field2)
    IN /\ ~FieldsDiffer(C.schema, still, field1, NoMap, field2, NoMap)
       /\ \A sub1 \in AllFields(C, NamedOf(field1.type), field1.node.sel, {}) :
             \A sub2 \in AllFields(C, NamedOf(field2.type), field2.node.sel, {}) :
                ResponseName(sub1.node) = ResponseName(sub2.node)
                    => CanMerge(C, still, sub1, sub2)

FieldsCanMerge(C) ==
    \A v \in C.visits :
        LET fields == AllFields(C, CompositeName(C.schema, v.type), v.node.sel, {})
        IN \A field1, field2 \in fields :
              ResponseName(field1.node) = ResponseName(field2.node)
                  => CanMerge(C, FALSE, field1, field2)
=============================================================================

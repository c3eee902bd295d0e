--------------------------- MODULE SchemaChanges ---------------------------
(***************************************************************************)
(* The changes between two versions of a schema                            *)
(* (utilities/find_schema_changes.py).  A change has its level, its type   *)
(* and where it is; descriptions are left out.                             *)
(***************************************************************************)
EXTENDS OverlappingFields

Change(level, type, at) == [level |-> level, type |-> type, at |-> at]
Breaking(type, at) == Change("breaking", type, at)
Dangerous(type, at) == Change("dangerous", type, at)
Safe(type, at) == Change("safe", type, at)

\* list_diff() and dict_diff(), on names
Added(old, new) == new \ old
Removed(old, new) == old \ new
Persisted(old, new) == old \cap new

-----------------------------------------------------------------------------
(* Changes of types that a client cannot notice.                           *)

RECURSIVE IsSafeOutputChange(_, _)
IsSafeOutputChange(old, new) ==
    \/ IsNonNull(old) /\ IsNonNull(new) /\ IsSafeOutputChange(OfType(old), OfType(new))
    \/ IsList(old) /\ IsList(new) /\ IsSafeOutputChange(OfType(old), OfType(new))
    \/ ~IsNonNull(old) /\ IsNonNull(new) /\ IsSafeOutputChange(old, OfType(new))
    \/ ~IsWrapping(old) /\ ~IsWrapping(new) /\ old = new

RECURSIVE IsSafeInputChange(_, _)
IsSafeInputChange(old, new) ==
    \/ IsNonNull(old) /\ IsNonNull(new) /\ IsSafeInputChange(OfType(old), OfType(new))
    \/ IsNonNull(old) /\ ~IsNonNull(new) /\ IsSafeInputChange(OfType(old), new)
    \/ IsList(old) /\ IsList(new) /\ IsSafeInputChange(OfType(old), OfType(new))
    \/ ~IsWrapping(old) /\ ~IsWrapping(new) /\ old = new

\* The default as introspection shows it, with sorted entries.
DefaultValue(input) == IF input.default = Undefined THEN Undefined ELSE Unordered(input.default)

-----------------------------------------------------------------------------
(* Arguments, fields, and the types that hold them.                        *)

\* An argument that is still there: the first one of these that applies.
ArgumentChange(at, old, new) ==
    LET before == DefaultValue(old)
        after == DefaultValue(new)
    IN CASE ~IsSafeInputChange(old.type, new.type) -> {Breaking("ARG_CHANGED_KIND", at)}
         [] IsSafeInputChange(old.type, new.type) /\ before # Undefined ->
               IF before = after THEN {} ELSE {Dangerous("ARG_DEFAULT_VALUE_CHANGE", at)}
         [] IsSafeInputChange(old.type, new.type) /\ before = Undefined /\ after # Undefined ->
               {Safe("ARG_DEFAULT_VALUE_ADDED", at)}
         [] OTHER -> IF old.type = new.type THEN {} ELSE {Safe("ARG_CHANGED_KIND_SAFE", at)}

\* A directive's arguments differ from those of a field in the levels.
FindArgChanges(at, old, new, removed, required, optional) ==
    {Breaking(removed, Append(at, a)) : a \in Removed(DOMAIN old, DOMAIN new)}
    \cup {IF IsRequired(new[a]) THEN Breaking(required, Append(at, a))
          ELSE [optional EXCEPT !.at = Append(at, a)] : a \in Added(DOMAIN old, DOMAIN new)}
    \cup UNION {ArgumentChange(Append(at, a), old[a], new[a]) :
                   a \in Persisted(DOMAIN old, DOMAIN new)}

FindFieldArgChanges(at, old, new) ==
    FindArgChanges(at, old, new, "ARG_REMOVED", "REQUIRED_ARG_ADDED",
                   Dangerous("OPTIONAL_ARG_ADDED", at))

FieldKindChange(at, old, new, isSafe) ==
    CASE ~isSafe -> {Breaking("FIELD_CHANGED_KIND", at)}
      [] isSafe /\ old.type # new.type -> {Safe("FIELD_CHANGED_KIND_SAFE", at)}
      [] OTHER -> {}

FindFieldChanges(name, old, new) ==
    {Breaking("FIELD_REMOVED", <<name, f>>) : f \in Removed(DOMAIN old.fields, DOMAIN new.fields)}
    \cup {Safe("FIELD_ADDED", <<name, f>>) : f \in Added(DOMAIN old.fields, DOMAIN new.fields)}
    \cup UNION {
        FindFieldArgChanges(<<name, f>>, old.fields[f].args, new.fields[f].args)
        \cup FieldKindChange(<<name, f>>, old.fields[f], new.fields[f],
                             IsSafeOutputChange(old.fields[f].type, new.fields[f].type)) :
        f \in Persisted(DOMAIN old.fields, DOMAIN new.fields)}

FindImplementedInterfacesChanges(name, old, new) ==
    LET before == Range(old.interfaces)
        after == Range(new.interfaces)
    IN {Dangerous("IMPLEMENTED_INTERFACE_ADDED", <<name, i>>) : i \in Added(before, after)}
       \cup {Breaking("IMPLEMENTED_INTERFACE_REMOVED", <<name, i>>) : i \in Removed(before, after)}

\* Mutant: a new field of an input object is never a breaking change.
FindInputFieldsLost(name, old, new) ==
    {Breaking("FIELD_REMOVED", <<name, f>>) : f \in Removed(DOMAIN old.fields, DOMAIN new.fields)}
    \cup UNION {FieldKindChange(<<name, f>>, old.fields[f], new.fields[f],
                                IsSafeInputChange(old.fields[f].type, new.fields[f].type)) :
                   f \in Persisted(DOMAIN old.fields, DOMAIN new.fields)}

FindInputObjectTypeChanges(name, old, new) ==
    {IF IsRequired(new.fields[f]) THEN Breaking("REQUIRED_INPUT_FIELD_ADDED", <<name, f>>)
     ELSE Dangerous("OPTIONAL_INPUT_FIELD_ADDED", <<name, f>>) :
        f \in Added(DOMAIN old.fields, DOMAIN new.fields)}
    \cup {Breaking("FIELD_REMOVED", <<name, f>>) :
             f \in Removed(DOMAIN old.fields, DOMAIN new.fields)}
    \cup UNION {FieldKindChange(<<name, f>>, old.fields[f], new.fields[f],
                                IsSafeInputChange(old.fields[f].type, new.fields[f].type)) :
                   f \in Persisted(DOMAIN old.fields, DOMAIN new.fields)}

FindUnionTypeChanges(name, old, new) ==
    LET before == Range(old.members)
        after == Range(new.members)
    IN {Dangerous("TYPE_ADDED_TO_UNION", <<name, m>>) : m \in Added(before, after)}
       \cup {Breaking("TYPE_REMOVED_FROM_UNION", <<name, m>>) : m \in Removed(before, after)}

FindEnumTypeChanges(name, old, new) ==
    {Dangerous("VALUE_ADDED_TO_ENUM", <<name, v>>) : v \in Added(old.values, new.values)}
    \cup {Breaking("VALUE_REMOVED_FROM_ENUM", <<name, v>>) : v \in Removed(old.values, new.values)}

-----------------------------------------------------------------------------
(* Types and directives.                                                   *)

PersistedTypeChanges(name, old, new) ==
    CASE old.kind # new.kind -> {Breaking("TYPE_CHANGED_KIND", <<name>>)}
      [] old.kind = "enum" /\ new.kind = "enum" -> FindEnumTypeChanges(name, old, new)
      [] old.kind = "union" /\ new.kind = "union" -> FindUnionTypeChanges(name, old, new)
      [] old.kind = "input" /\ new.kind = "input" -> FindInputObjectTypeChanges(name, old, new)
      [] old.kind \in {"object", "interface"} /\ new.kind = old.kind ->
            FindFieldChanges(name, old, new) \cup FindImplementedInterfacesChanges(name, old, new)
      [] OTHER -> {}

FindTypeChanges(old, new) ==
    LET before == DOMAIN old.types
        after == DOMAIN new.types
    IN {Breaking("TYPE_REMOVED", <<n>>) : n \in Removed(before, after)}
       \cup {Safe("TYPE_ADDED", <<n>>) : n \in Added(before, after)}
       \cup UNION {PersistedTypeChanges(n, old.types[n], new.types[n]) :
                      n \in Persisted(before, after)}

PersistedDirectiveChanges(name, old, new) ==
    LET AtLocations(change, locations) == {[change EXCEPT !.at = <<name, l>>] : l \in locations}
    IN FindArgChanges(<<name>>, old.args, new.args, "DIRECTIVE_ARG_REMOVED",
                      "REQUIRED_DIRECTIVE_ARG_ADDED", Safe("OPTIONAL_DIRECTIVE_ARG_ADDED", <<>>))
       \cup (IF old.repeatable /\ ~new.repeatable
             THEN {Breaking("DIRECTIVE_REPEATABLE_REMOVED", <<name>>)} ELSE {})
       \cup (IF new.repeatable /\ ~old.repeatable
             THEN {Safe("DIRECTIVE_REPEATABLE_ADDED", <<name>>)} ELSE {})
       \cup AtLocations(Breaking("DIRECTIVE_LOCATION_REMOVED", <<>>),
                     Removed(old.locations, new.locations))
       \cup AtLocations(Safe("DIRECTIVE_LOCATION_ADDED", <<>>), Added(old.locations, new.locations))

FindDirectiveChanges(old, new) ==
    LET before == DOMAIN old.directives
        after == DOMAIN new.directives
    IN {Breaking("DIRECTIVE_REMOVED", <<d>>) : d \in Removed(before, after)}
       \cup {Safe("DIRECTIVE_ADDED", <<d>>) : d \in Added(before, after)}
       \cup UNION {PersistedDirectiveChanges(d, old.directives[d], new.directives[d]) :
                      d \in Persisted(before, after)}

FindSchemaChanges(old, new) == FindTypeChanges(old, new) \cup FindDirectiveChanges(old, new)

FindBreakingChanges(old, new) == {c \in FindSchemaChanges(old, new) : c.level = "breaking"}
=============================================================================

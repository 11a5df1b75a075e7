--------------------------- MODULE CallableShapes ---------------------------
(***************************************************************************)
(* How the arguments of a callable cross the block protocol                *)
(* (auwgent-schema, flat.rs and format.rs; auwgent-prompt, intents.rs;     *)
(* auwgent-protocol, orchestrator.rs).  The prompt lists the fields of a   *)
(* callable flat, a nested field under the names on its path joined by _;  *)
(* the model writes one value per line, and the orchestrator builds the    *)
(* nested object again.                                                    *)
(*                                                                         *)
(* An object is the set of its leaves, <<path, value>>.  A value is a      *)
(* sequence that nothing here looks into; <<>> is null.                    *)
(***************************************************************************)
EXTENDS BindingsPlan

CONSTANT Alphabet   \* the names of fields, in alphabetical order

Sorted(names) == SelectSeq(Alphabet, LAMBDA n : n \in names)
Keys(obj) == IF IsKind(obj, "obj") THEN DOMAIN obj.obj ELSE {}
Metadata == {"__variants", "@examples", "kind"}
Without(obj, names) ==
    Obj([i \in 1..Cardinality(Keys(obj) \ names) |->
           LET k == Sorted(Keys(obj) \ names)[i] IN <<k, obj.obj[k]>>])

TypeProperties(types, name) ==
    At((CHOOSE t \in Range(types) : t.name = name).def, "properties")

\* The fields of a definition that is a record, spelled out or by name; Missing otherwise.
PropertiesIn(shape, tag, types) ==
    IF StringIs(tag, "object") THEN At(shape, "properties")
    ELSE IF StringIs(tag, "typeRef") /\ shape.obj.name.str \in Names(types)
      THEN TypeProperties(types, shape.obj.name.str)
    ELSE Missing
Unwrapped(def, inner) == IF IsKind(inner, "obj") THEN inner ELSE def
resolve_nested_properties(def, types) ==
    LET shape == Unwrapped(def, At(def, "type")) IN PropertiesIn(shape, At(shape, "type"), types)

-----------------------------------------------------------------------------
(* What the model is told of a type.                                       *)

normalize_type_name(t) == Joined(Spell(Small, t), "_")

\* A type inside itself is named, where it would be expanded without end.
RECURSIVE format_type_internal(_, _, _)
format_type_internal(v, types, visited) ==
    LET tag == At(v, "type")
        fields(props, within) ==
            {<<k, format_type_internal(props.obj[k], types, within)>> : k \in Keys(props)}
    IN IF IsKind(v, "str") THEN Ty(normalize_type_name(v.str))
       ELSE IF StringIs(tag, "array") THEN Array(format_type_internal(v.obj.items, types, visited))
       ELSE IF StringIs(tag, "union")
         THEN Union([i \in DOMAIN v.obj.options.arr |->
                       format_type_internal(v.obj.options.arr[i], types, visited)])
       ELSE IF StringIs(tag, "object") THEN Object(fields(v.obj.properties, visited))
       ELSE IF StringIs(tag, "typeRef")
         THEN LET name == v.obj.name.str
              IN IF name \in Names(types) \ visited
                   THEN Object(fields(TypeProperties(types, name), visited \cup {name}))
                   ELSE Ref(name)
       ELSE IF IsKind(tag, "str") THEN Ty(normalize_type_name(tag.str))
       ELSE IF tag # Missing THEN format_type_internal(tag, types, visited)
       ELSE Ty("any")

format_type_value(def, types) ==
    IF StringIs(At(def, "type"), "typeRef") \/ ~Has(def, "type")
      THEN format_type_internal(def, types, {})
      ELSE format_type_internal(def.obj.type, types, {})

-----------------------------------------------------------------------------
(* The flat fields of a shape.                                             *)

\* Mutant: a nested field is optional only if it says so itself.
collect_specs_for_fieldForgets(path, def, inherited, types) ==
    LET props == resolve_nested_properties(def, types)
        keys == Sorted(Keys(props))
    IN IF props = Missing
         THEN <<[path |-> path, optional |-> At(def, "optional") = Bool(TRUE),
                 type |-> format_type_value(def, types)]>>
         ELSE [i \in DOMAIN keys |->
                 [path |-> Append(path, keys[i]),
                  optional |-> At(At(props, keys[i]), "optional") = Bool(TRUE),
                  type |-> format_type_value(At(props, keys[i]), types)]]

RECURSIVE collect_specs_for_field(_, _, _, _)
collect_specs_below(path, props, keys, optional, types) ==
    Concat([i \in DOMAIN keys |->
              collect_specs_for_field(Append(path, keys[i]), props.obj[keys[i]], optional, types)])
collect_specs_for_field(path, def, inherited, types) ==
    LET optional == inherited \/ At(def, "optional") = Bool(TRUE)
        props == resolve_nested_properties(def, types)
    IN IF props = Missing
         THEN <<[path |-> path, optional |-> optional, type |-> format_type_value(def, types)]>>
         ELSE collect_specs_below(path, props, Sorted(Keys(props)), optional, types)

unique_alias(base, seen) ==
    LET numbered(i) == IF i = 1 THEN base ELSE base \o "__" \o ToString(i)
        least == CHOOSE i \in 1..(Cardinality(seen) + 1) :
                    /\ numbered(i) \notin seen
                    /\ \A j \in 1..(i - 1) : numbered(j) \in seen
    IN numbered(least)

flatten_named_field_specs(schema, types) ==
    LET aliased(done, spec) ==
            LET alias == unique_alias(Joined(spec.path, "_"), {d.alias : d \in Range(done)})
            IN Append(done, spec @@ [alias |-> alias])
    IN FoldLeft(aliased, <<>>, collect_specs_below(<<>>, schema, Sorted(Keys(schema)), FALSE, types))

Single(type) ==
    <<[alias |-> "input", path |-> <<"input">>, optional |-> FALSE, type |-> type]>>

\* The fields of a helper's input, or Missing when it is a single value.
InputFields(input, types) ==
    LET kind == At(input, "kind")
        nested == resolve_nested_properties(input, types)
    IN IF StringIs(kind, "properties") THEN At(input, "fields")
       ELSE IF StringIs(kind, "direct") THEN resolve_nested_properties(At(input, "type"), types)
       ELSE IF nested # Missing THEN nested
       ELSE Without(input, Metadata)

InputSpecs(input, fields, types) ==
    IF fields = Missing THEN Single(format_type_value(At(input, "type"), types))
    ELSE flatten_named_field_specs(fields, types)
flatten_helper_input_specs(input, types) ==
    IF ~Given(input) THEN Single(Ty("string")) ELSE InputSpecs(input, InputFields(input, types), types)

RECURSIVE normalize_output_fields(_)
normalize_output_fields(output) ==
    LET inner == normalize_output_fields(At(output, "type"))
    IN IF ~IsKind(output, "obj") THEN Obj(<<>>)
       ELSE IF IsKind(At(output, "properties"), "obj") THEN At(output, "properties")
       ELSE IF Has(output, "type") /\ Keys(inner) # {} THEN inner
       ELSE Without(output, Metadata \ {"kind"})

\* The forms the output may have, and name |-> its fields for each that has fields.
OutputForms(output) ==
    IF IsKind(At(output, "__variants"), "obj") THEN At(output, "__variants").obj
    ELSE [n \in {"Output"} |-> output]
Filled(specs) == [n \in {n \in DOMAIN specs : specs[n] # <<>>} |-> specs[n]]
SchemaSpecs(forms, types) ==
    Filled([n \in DOMAIN forms |->
              flatten_named_field_specs(normalize_output_fields(forms[n]), types)])
flatten_output_specs(output, types) ==
    SchemaSpecs(OutputForms(output), types)

alias_map_from_specs(specs) ==
    [a \in {s.alias : s \in Range(specs)} |-> (CHOOSE s \in Range(specs) : s.alias = a).path]

-----------------------------------------------------------------------------
(* Flat fields to an object and back.                                      *)

insert_value_at_path(target, path, value) ==
    {leaf \in target : ~IsPrefix(path, leaf[1]) /\ ~IsPrefix(leaf[1], path)}
      \cup {<<path \o leaf[1], leaf[2]>> : leaf \in value}

\* Mutant: what follows the first dot of a name is taken for a name of its own.
PathOfUnknown(key, aliases) == IF Len(key) > 1 THEN <<Head(key)>> ELSE key

\* A key is split at its dots: it is an alias, a path that is known, or itself.
PathOf(key, aliases) ==
    IF Len(key) = 1 /\ key[1] \in DOMAIN aliases THEN aliases[key[1]]
    ELSE IF Len(key) > 1 /\ key \in Range(aliases) THEN key
    ELSE <<Joined(key, ".")>>

\* `fields` in the order the hash map of the parsed block gives them.
unflatten_object(fields, aliases) ==
    FoldLeft(LAMBDA built, field : insert_value_at_path(built, PathOf(field.key, aliases), field.value),
             {}, fields)

\* The example of a declaration, as the prompt shows it.
flatten_example_object(example, specs) ==
    LET below(path) == {leaf \in example : IsPrefix(path, leaf[1])}
        shown == SelectSeq(specs, LAMBDA s : below(s.path) # {})
        rest(leaf, path) == SubSeq(leaf[1], Len(path) + 1, Len(leaf[1]))
    IN [i \in DOMAIN shown |->
          [key |-> <<shown[i].alias>>,
           value |-> {<<rest(leaf, shown[i].path), leaf[2]>> : leaf \in below(shown[i].path)}]]

-----------------------------------------------------------------------------
(* What a shape looks like before its fields arrive.                       *)

pending_value == <<"pending">>
EmptyList == <<"[]">>

is_array_definition(def) ==
    StringIs(At(def, "type"), "array") \/ StringIs(At(At(def, "type"), "type"), "array")

RECURSIVE build_template_value(_, _, _)
TemplateOf(path, props, types) ==
    UNION {build_template_value(Append(path, k), props.obj[k], types) : k \in Keys(props)}

build_template_value(path, def, types) ==
    LET props == resolve_nested_properties(def, types)
    IN IF props # Missing THEN TemplateOf(path, props, types)
       ELSE {<<path, IF is_array_definition(def) THEN EmptyList ELSE pending_value>>}

\* The fields of a shape: what it has as properties, as a type, or as itself.
ShapeFields(schema, nested) ==
    IF IsKind(At(schema, "properties"), "obj") THEN At(schema, "properties")
    ELSE IF Has(schema, "type") /\ nested # Missing THEN nested
    ELSE Without(schema, Metadata \ {"kind"})
build_template_fields(schema, types) ==
    TemplateOf(<<>>, ShapeFields(schema, resolve_nested_properties(At(schema, "type"), types)), types)

InputTemplate(fields, types) ==
    IF fields = Missing THEN {<< <<"input">>, pending_value >>} ELSE build_template_fields(fields, types)
build_helper_input_template(input, types) ==
    InputTemplate(IF Given(input) THEN InputFields(input, types) ELSE Missing, types)

build_output_template(output, name, types) ==
    build_template_fields(OutputForms(output)[name], types)

\* What has arrived takes the place of what is pending; a null does not.
merge_template(template, actual) ==
    LET real == {leaf \in actual :
                   \/ leaf[2] # <<>>
                   \/ ~\E t \in template : IsPrefix(leaf[1], t[1])}
        replaced(t) == \E leaf \in real : IsPrefix(leaf[1], t[1]) \/ IsPrefix(t[1], leaf[1])
    IN {t \in template : ~replaced(t)} \cup real
=============================================================================

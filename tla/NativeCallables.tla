-------------------------- MODULE NativeCallables ---------------------------
(***************************************************************************)
(* What a provider is offered when the model calls natively: a function    *)
(* for every callable, with the JSON Schema of its arguments, and a schema *)
(* of the output (auwgent-native, registry.rs and schema.rs).  The engine  *)
(* always builds them in the strict mode: every field is required, and one *)
(* that is optional may be null.                                           *)
(*                                                                         *)
(* A schema has "type" unless it takes anything, "fields" and "required"   *)
(* when it is closed over them, "items", "enum" or "anyOf".                *)
(***************************************************************************)
EXTENDS CallableShapes

primitive_to_schema(name) == IF name = "any" THEN << >> ELSE [type |-> name]

union_to_schema(obj) ==
    LET options == At(obj, "options").arr
    IN IF options = <<>> THEN << >>
       ELSE [type |-> "string", enum |-> [i \in DOMAIN options |-> options[i].str]]

\* A schema with an enum keeps it as it is: null is of the type, and not among the values.
make_schema_nullable(schema) ==
    IF "type" \in DOMAIN schema THEN schema @@ [nullable |-> TRUE] ELSE schema

Required(params) == Keys(params)

RECURSIVE type_value_to_schema(_, _), build_schema_from_params(_, _)
param_def_to_schema_property(def, types) ==
    LET type == IF StringIs(At(def, "type"), "typeRef") THEN def ELSE At(def, "type")
        schema == type_value_to_schema(type, types)
    IN IF At(def, "optional") = Bool(TRUE) THEN make_schema_nullable(schema) ELSE schema

build_schema_from_params(params, types) ==
    [type |-> "object", required |-> Required(params),
     fields |-> [k \in Keys(params) |-> param_def_to_schema_property(params.obj[k], types)]]

resolve_type_ref(name, types) ==
    IF name \in Names(types) THEN build_schema_from_params(TypeProperties(types, name), types)
    ELSE [type |-> "object"]

type_value_to_schema(v, types) ==
    LET tag == At(v, "type")
    IN IF IsKind(v, "str") THEN primitive_to_schema(v.str)
       ELSE IF StringIs(tag, "array")
         THEN [type |-> "array", items |-> type_value_to_schema(At(v, "items"), types)]
       ELSE IF StringIs(tag, "object") THEN build_schema_from_params(At(v, "properties"), types)
       ELSE IF StringIs(tag, "union") THEN union_to_schema(v)
       ELSE IF StringIs(tag, "typeRef") THEN resolve_type_ref(v.obj.name.str, types)
       ELSE IF IsKind(tag, "str") THEN [type |-> tag.str]
       ELSE IF tag # Missing THEN type_value_to_schema(tag, types)
       ELSE << >>

ClosedSchema(fields) == [type |-> "object", required |-> DOMAIN fields, fields |-> fields]

InputSchema(input, fields, types) ==
    IF fields = Missing THEN ClosedSchema([input |-> type_value_to_schema(At(input, "type"), types)])
    ELSE build_schema_from_params(fields, types)
build_helper_input_schema(input, types) ==
    IF ~Given(input) THEN ClosedSchema([input |-> [type |-> "string"]])
    ELSE InputSchema(input, InputFields(input, types), types)

build_schema_from_output_variant(schema, types) ==
    build_schema_from_params(
        ShapeFields(schema, resolve_nested_properties(At(schema, "type"), types)), types)

\* name |-> the schema, for each form the output may have; a variant says which it is.
Tagged(schema, n) ==
    [schema EXCEPT !.fields = @ @@ ("__variant" :> [type |-> "string", enum |-> <<n>>]),
                   !.required = IF @ = {} THEN {} ELSE @ \cup {"__variant"}]
build_output_schemas(output, types) ==
    LET forms == OutputForms(output)
        schemas == [n \in DOMAIN forms |-> build_schema_from_output_variant(forms[n], types)]
    IN IF Has(output, "__variants") THEN [n \in DOMAIN schemas |-> Tagged(schemas[n], n)]
       ELSE [n \in {n \in DOMAIN schemas : DOMAIN schemas[n].fields # {}} |-> schemas[n]]

-----------------------------------------------------------------------------
(* The registry.                                                           *)

Entry(kind, name, schema) ==
    [name |-> kind \o "_" \o name, action_kind |-> kind, canonical_name |-> name,
     input_schema |-> schema]

build(ir) ==
    LET params(c) == build_schema_from_params(c.params, ir.types)
        input(h)  == build_helper_input_schema(h.input, ir.types)
    IN Merge(  [i \in DOMAIN ir.tools |-> Entry("tool", ir.tools[i].name, params(ir.tools[i]))]
            \o [i \in DOMAIN ir.workflows |->
                  Entry("workflow", ir.workflows[i].name, params(ir.workflows[i]))]
            \o [i \in DOMAIN ir.helpers |->
                  Entry("helper", ir.helpers[i].name, input(ir.helpers[i]))])
=============================================================================

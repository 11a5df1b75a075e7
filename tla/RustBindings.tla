---------------------------- MODULE RustBindings ----------------------------
(***************************************************************************)
(* The Rust bindings of an agent (auwgent-codegen, rust.rs).  A struct or  *)
(* an enum holds its fields: a type that holds itself has no size.         *)
(***************************************************************************)
EXTENDS BindingsPlan

to_rust_type_name(name)  == Joined(Spell(Title, name), "")
to_rust_field_name(name) == Joined(Spell(Small, name), "_")

JsonValue == Named("JsonValue")
Std == {"JsonValue", "String", "f64", "bool", "()"}

-----------------------------------------------------------------------------
(* Shapes.                                                                 *)

AsObject(v) == IF IsKind(v, "obj") THEN v ELSE Missing

shape_properties(v) ==
    LET inner == At(v, "type")
        objectAt(key) == IsKind(At(v, key), "obj")
    IN IF ~IsKind(v, "obj") THEN Missing
       ELSE IF StringIs(At(inner, "type"), "object") THEN AsObject(At(inner, "properties"))
       ELSE IF objectAt("properties") THEN At(v, "properties")
       ELSE IF objectAt("fields") THEN At(v, "fields")
       ELSE IF Has(v, "__variants") \/ Has(v, "type") \/ Has(v, "kind") THEN Missing
       ELSE v

\* {"type": <a shape>} is the shape.
unwrap_wrapped_shape(v) == IF IsKind(At(v, "type"), "obj") THEN At(v, "type") ELSE v

is_empty_shape(v) == shape_properties(v) # Missing /\ shape_properties(v).keys = <<>>

Media == [image |-> "ImagePart", file |-> "FilePart", audio |-> "AudioPart", video |-> "VideoPart"]

RECURSIVE rust_type_base(_, _), TypeNamed(_, _)
\* What an object whose "type" is a string stands for.
TypeNamed(v, fallback) ==
    LET name == At(v, "type").str
    IN CASE name = "string"  -> Named("String")
         [] name = "number"  -> Named("f64")
         [] name = "boolean" -> Named("bool")
         [] name \in DOMAIN Media -> Named(Media[name])
         [] name = "array"   -> Generic("Vec", rust_type_base(At(v, "items"), JsonValue))
         [] name = "typeRef" -> Named(to_rust_type_name(At(v, "name").str))
         [] name = "object"  -> JsonValue
         [] OTHER -> fallback

rust_type_base(value, fallback) ==
    LET v     == unwrap_wrapped_shape(value)
        props == shape_properties(v)
    IN IF props # Missing /\ props.keys # <<>> THEN JsonValue
       ELSE IF IsKind(At(v, "type"), "str") THEN TypeNamed(v, fallback)
       ELSE IF IsKind(At(At(v, "type"), "type"), "str") THEN TypeNamed(At(v, "type"), fallback)
       ELSE CASE IsKind(v, "str")  -> Named(IF v.str \in DOMAIN Media THEN Media[v.str] ELSE "String")
              [] IsKind(v, "bool") -> Named("bool")
              [] IsKind(v, "arr")  -> Generic("Vec", JsonValue)
              [] IsKind(v, "obj")  -> JsonValue
              [] OTHER -> fallback

rust_type(v, optional, fallback) ==
    IF optional THEN Generic("Option", rust_type_base(v, fallback)) ELSE rust_type_base(v, fallback)

\* An Option holds its value; a Vec points to them.
RECURSIVE Held(_)
Held(t) == CASE "named" \in DOMAIN t -> {t.named}
             [] "container" \in DOMAIN t -> IF t.container = "Vec" THEN {} ELSE Held(t.of)

Struct(name, fields, types, carries) ==
    Data(name, fields, {Mentions(t) : t \in types}, carries, UNION {Held(t) : t \in types})
Enum(name, variants, types) == Struct(name, variants, types, {})
TypeAlias(name, t) == [Alias(name, t) EXCEPT !.holds = Held(t)]

generate_struct(name, props) ==
    LET type(k) == rust_type(props.obj[k], At(props.obj[k], "optional") = Bool(TRUE), JsonValue)
    IN Struct(name, [i \in DOMAIN props.keys |-> to_rust_field_name(props.keys[i])],
              {type(k) : k \in Range(props.keys)}, Range(props.keys))

generate_named_shape(name, v) ==
    IF shape_properties(v) # Missing THEN generate_struct(name, shape_properties(v))
    ELSE TypeAlias(name, rust_type(v, FALSE, JsonValue))

\* A shape already written under a name is not written again, whatever it was.
NoArgs == "NoArgs"
shape_type_or_no_args(name, shape) ==
    IF is_empty_shape(unwrap_wrapped_shape(shape)) THEN NoArgs ELSE name
ArgsShape(name, shape, emitted) ==
    IF shape_type_or_no_args(name, shape) = NoArgs \/ name \in emitted THEN <<>>
    ELSE <<generate_named_shape(name, unwrap_wrapped_shape(shape))>>

-----------------------------------------------------------------------------
(* Input, outputs and data.                                                *)

generate_runtime_support ==
    [i \in 1..12 |->
       Class(<<"IntentControl", "SessionState", "Session", "Context", "TextPart", "ImagePart",
               "FilePart", "AudioPart", "VideoPart", "InputPart", "MediaSource", "NoArgs">>[i],
             <<>>, {})]
    \o <<Class("PartialIntentMode", <<"Text", "Structured">>, {}),
         Class("PartialIntentEnvelope", <<"partial", "complete", "mode", "segment", "raw">>, {}),
         Class("PartialTextIntentValue", <<"envelope", "text", "delta">>, {}),
         Class("PartialStructuredIntentValue", <<"envelope", "value">>, {})>>

media_input_names(input) ==
    CASE IsKind(input, "str") -> {input.str} \cap MediaTypes
      [] StringIs(At(input, "type"), "union") ->
           {option.str : option \in Range(At(input, "options").arr)} \cap MediaTypes
      [] OTHER -> {}

unwrap_input_fields(input) ==
    CASE StringIs(At(input, "kind"), "properties") -> At(input, "fields")
      [] StringIs(At(input, "kind"), "direct")     -> Missing
      [] OTHER -> input

generate_input_type(input) ==
    IF media_input_names(input) # {} THEN TypeAlias("Input", Generic("Vec", Named("InputPart")))
    ELSE generate_named_shape("Input", unwrap_input_fields(input))

generate_input_builders(input) ==
    IF media_input_names(input) = {} THEN <<>>
    ELSE <<Class("input", <<"text">> \o SetToSeq(media_input_names(input)), {})>>

generate_custom_types(ir) ==
    [i \in DOMAIN ir.types |-> generate_named_shape(ir.types[i].name, ir.types[i].def)]

generate_helper_output_type(helper) ==
    IF helper.output = Null THEN TypeAlias(helper.name \o "Output", Named("()"))
    ELSE generate_named_shape(helper.name \o "Output", unwrap_wrapped_shape(helper.output))

helper_has_declared_output(helper) == helper.output # Null
SchemaHelpers(plan) == SelectSeq(plan.output_helpers, helper_has_declared_output)

HelperOutput(helper) == Named(helper.name \o "Output")
generate_output_type(output, helpers) ==
    LET variants == At(output, "__variants")
        case(v) == to_rust_type_name(v) \o "OutputCase"
        base == IF output = Null THEN <<>>
                ELSE <<generate_named_shape("AuwgentBaseOutput", output)>>
    IN IF IsKind(variants, "obj")
       THEN [i \in DOMAIN variants.keys |->
               generate_struct(case(variants.keys[i]), variants.obj[variants.keys[i]])]
            \o <<Enum("AuwgentOutput",
                      [i \in DOMAIN variants.keys |-> to_rust_type_name(variants.keys[i])],
                      {Named(case(v)) : v \in Range(variants.keys)})>>
       ELSE IF helpers = <<>> THEN <<generate_named_shape("AuwgentOutput", output)>>
       ELSE base
            \o <<Enum("AuwgentOutput",
                      (IF base = <<>> THEN <<>> ELSE <<"Base">>)
                        \o [i \in DOMAIN helpers |-> to_rust_type_name(helpers[i].name)],
                      {HelperOutput(h) : h \in Range(helpers)}
                        \cup {Named(d.name) : d \in Range(base)})>>

\* The response: the agent's own, a helper's, or any type of the file.  Matching on a
\* reference to an enum without variants is not allowed.
generate_core_intents(plan) ==
    LET helpers == SchemaHelpers(plan)
        types   == NamesOf(plan.ir.types)
        root    == IF plan.ir.output = Null THEN <<>> ELSE <<"AuwgentOutput">>
        variants == root \o [i \in DOMAIN helpers |-> to_rust_type_name(helpers[i].name) \o "Output"]
                         \o [i \in DOMAIN types |-> to_rust_type_name(types[i])]
        schema == Enum("ResponseSchema", variants,
                       {Named(r) : r \in Range(root)} \cup {HelperOutput(h) : h \in Range(helpers)}
                         \cup {Named(to_rust_type_name(n)) : n \in Range(types)})
    IN <<Class("ResponseText", <<"text">>, {}),
         IF variants = <<>> THEN [schema EXCEPT !.uses = @ \cup {Malformed}] ELSE schema,
         Class("ErrorIntent", <<"message">>, {})>>

-----------------------------------------------------------------------------
(* Callables.                                                              *)

ToolArgs(tool) == to_rust_type_name(tool.name) \o "Args"
ToolResultAlias(tool) ==
    TypeAlias(to_rust_type_name(tool.name) \o "Result", rust_type(tool.result, FALSE, Named("()")))

RECURSIVE ToolShapes(_, _)
ToolShapes(tools, emitted) ==
    IF tools = <<>> THEN <<>>
    ELSE LET first == ArgsShape(ToolArgs(Head(tools)), Head(tools).args, emitted)
         IN first \o <<ToolResultAlias(Head(tools))>>
            \o ToolShapes(Tail(tools), emitted \cup Names(first))

generate_tools(tools) ==
    ToolShapes(tools, {})
    \o <<Class("AuwgentTools",
               [i \in DOMAIN tools |-> to_rust_field_name(tools[i].name)],
               {Mentions(Named(shape_type_or_no_args(ToolArgs(t), t.args))) : t \in Range(tools)}
                 \cup {Mentions(Named(ToolResultAlias(t).name)) : t \in Range(tools)}),
         Class("AuwgentToolsRegistry", <<"tool_names", "invoke_tool">>,
               {Mentions(Named("AuwgentTools"))})>>

FamilyArgs(family, callable) == to_rust_type_name(callable.name) \o family \o "Args"

RECURSIVE FamilyShapes(_, _, _)
FamilyShapes(family, items, emitted) ==
    IF items = <<>> THEN <<>>
    ELSE LET first == ArgsShape(FamilyArgs(family, Head(items)), Head(items).args, emitted)
         IN first \o FamilyShapes(family, Tail(items), emitted \cup Names(first))

generate_callable_family(family, items, emitted) ==
    LET args(c) == Named(shape_type_or_no_args(FamilyArgs(family, c), c.args))
        result(c) == IF family = "Helper" THEN Named(to_rust_type_name(c.name) \o "Output")
                     ELSE rust_type(c.result, FALSE, Named("()"))
        variants == [i \in DOMAIN items |-> to_rust_type_name(items[i].name)]
        given == {args(c) : c \in Range(items)}
    IN FamilyShapes(family, items, emitted)
       \o <<Enum(family \o "Call", variants, given),
            Enum(family \o "Result", variants, given \cup {result(c) : c \in Range(items)})>>
       \o (IF family # "Tool" THEN <<>>
           ELSE <<Enum(family \o "Skipped", variants, given),
                  Class(family \o "Error", <<"tool", "message">>, {})>>)

\* The names of shapes written so far go from the tools to every family in turn.
RECURSIVE generate_families(_, _, _)
generate_families(plan, families, written) ==
    IF families = <<>> THEN <<>>
    ELSE LET decls == generate_callable_family(Head(families), Callables(plan, Head(families)), written)
         IN decls \o generate_families(plan, Tail(families), written \cup Names(decls))

generate_custom_intent_types(intents) ==
    [i \in DOMAIN intents |->
       generate_named_shape(to_rust_type_name(intents[i].name) \o "Intent",
                            At(intents[i].def, "fields"))]

generate_component_intents ==
    <<TypeAlias("ComponentIntent", JsonValue), TypeAlias("RenderComponentIntent", JsonValue)>>

-----------------------------------------------------------------------------
(* Intents and their handlers.                                             *)

\* An intent, the variant it is decoded as, and the type of that variant.
Case(intent, variant, type) == [intent |-> intent, variant |-> variant, type |-> type]

FamilyCases(family) ==
    LET of(kind, name) == Case(name, family \o kind, family \o kind)
    IN CASE family = "Tool" -> <<of("Call", "tool_call"), of("Result", "tool_result"),
                                 of("Error", "tool_error"), of("Skipped", "tool_skipped")>>
         [] family = "Workflow" -> <<of("Call", "workflow_call"), of("Result", "workflow_result")>>
         [] family = "Helper"   -> <<of("Call", "helper_call"), of("Result", "helper_result")>>

Intents(plan) ==
    <<Case("response_text", "ResponseText", "ResponseText"),
      Case("response_schema", "ResponseSchema", "ResponseSchema"),
      Case("error", "Error", "ErrorIntent")>>
    \o Concat([i \in DOMAIN Families(plan) |-> FamilyCases(Families(plan)[i])])
    \o (IF plan.components = <<>> THEN <<>>
        ELSE <<Case("component", "Component", "ComponentIntent"),
               Case("render_component", "RenderComponent", "RenderComponentIntent")>>)
    \o [i \in DOMAIN plan.custom_intents |->
          LET name == plan.custom_intents[i].name
          IN Case(name, to_rust_type_name(name), to_rust_type_name(name) \o "Intent")]

\* The handler's method: a built-in intent's name has the spelling of one already.
Method(case) == to_rust_field_name(case.intent)

VariantsOf(plan) == [i \in DOMAIN Intents(plan) |-> Intents(plan)[i].variant]

generate_intent_name_enum(plan) == Class("AuwgentIntentName", VariantsOf(plan), {})

generate_top_level_intent_enums(plan) ==
    LET types == {Named(case.type) : case \in Range(Intents(plan))}
    IN <<Enum("AuwgentIntent", VariantsOf(plan), types),
         Enum("AuwgentIntentPartial", VariantsOf(plan), types)>>

\* Parsing a name and decoding its value name a variant of each enum.
generate_decode_functions(plan) ==
    <<Class("decode", <<>>,
            {Calls(enum, v) : enum \in {"AuwgentIntentName", "AuwgentIntent", "AuwgentIntentPartial"},
                              v \in Range(VariantsOf(plan))})>>

\* The handler has a method per intent.  Reading a typed value of an intent matches on
\* the intents that have one: without any, no type is left to call `expect` on.
generate_handler_traits(plan) ==
    LET methods == [i \in DOMAIN Intents(plan) |-> Method(Intents(plan)[i])]
        wrappers == Concat([i \in DOMAIN Families(plan) |->
                       LET cases == FamilyCases(Families(plan)[i])
                       IN [k \in DOMAIN cases |->
                             Class(cases[k].variant \o "s", <<"kind">>,
                                   {Mentions(Named(cases[k].type))})]])
    IN <<Class("Intents", <<"inner">>,
               IF Families(plan) = <<>> /\ plan.custom_intents = <<>> THEN {Malformed} ELSE {})>>
       \o wrappers
       \o <<Class("AuwgentIntentHandler", methods \o <<"any", "dispatch">>,
                  {Mentions(Named(w)) : w \in Names(wrappers)}
                    \cup {Mentions(Named(to_rust_type_name(plan.custom_intents[i].name) \o "Intent")) :
                            i \in DOMAIN plan.custom_intents}),
            Class("AuwgentBasePartialIntentHandler", <<"on_intent_partial", "dispatch_partial">>,
                  {Mentions(Named("AuwgentIntentPartial"))})>>

-----------------------------------------------------------------------------
(* Configuration, and the whole file.                                      *)

has_api_keys(plan) == plan.required_providers # {} \/ plan.custom_provider_ids # {}

generate_api_keys(plan) ==
    LET ids == SetToSeq(plan.custom_provider_ids)
    IN IF plan.required_providers = {} THEN <<>>
       ELSE <<Class("AuwgentApiKeys",
                    SetToSeq({p \o "_api_key" :
                                p \in plan.required_providers \cap {"gemini", "openai", "groq"}})
                    \o [i \in DOMAIN ids |-> to_rust_field_name(ids[i]) \o "_api_key"], {})>>

generate_middleware_trait ==
    <<Class("AuwgentMiddleware",
            <<"name", "target", "on_run_start", "on_llm_start", "on_intent", "on_intent_partial",
              "on_llm_end", "on_run_complete", "on_error">>,
            {Mentions(Named("Intents")), Mentions(Named("AuwgentIntentPartial"))}),
      Class("AuwgentMiddlewareRegistry", <<>>, {}), Class("MiddlewareAdapter", <<>>, {})>>

generate_config(plan) ==
    LET tools == plan.tools # <<>>
    IN <<Class("AuwgentConfig", <<"tools", "middleware", "context", "api_keys">>,
               {Mentions(Named("AuwgentMiddlewareRegistry"))}
                 \cup (IF tools THEN {Mentions(Named("AuwgentToolsRegistry"))} ELSE {})
                 \cup (IF plan.has_context THEN {Mentions(Named("AuwgentContext"))} ELSE {})
                 \cup (IF has_api_keys(plan) THEN {Mentions(Named("AuwgentApiKeys"))} ELSE {}))>>

generate_agent(plan) ==
    <<Class("AuwgentAgent",
            <<"on_intent", "on_intent_raw", "on_intent_handler", "on_intent_partial",
              "on_intent_partial_handler", "run">>,
            {Mentions(Named(n)) : n \in {"AuwgentIntentHandler", "AuwgentBasePartialIntentHandler",
                                         "Input", "AuwgentConfig"}}),
      Class("create_" \o to_rust_field_name(plan.ir.name), <<>>, {}), Class("auwgent", <<>>, {})>>

generate(plan) ==
    LET tools == Callables(plan, "Tool")
        written == IF tools = <<>> THEN <<>> ELSE generate_tools(tools)
    IN generate_runtime_support
       \o generate_custom_types(plan.ir)
       \o <<generate_input_type(plan.ir.input)>> \o generate_input_builders(plan.ir.input)
       \o [i \in DOMAIN plan.helpers |-> generate_helper_output_type(plan.helpers[i])]
       \o generate_output_type(plan.ir.output, SchemaHelpers(plan))
       \o (IF plan.has_context THEN <<generate_named_shape("AuwgentContext", plan.ir.context)>>
           ELSE <<>>)
       \o written
       \o <<generate_intent_name_enum(plan)>>
       \o generate_custom_intent_types(plan.custom_intents)
       \o generate_core_intents(plan)
       \o generate_families(plan, Families(plan), Names(written))
       \o (IF plan.components = <<>> THEN <<>> ELSE generate_component_intents)
       \o generate_top_level_intent_enums(plan)
       \o generate_decode_functions(plan)
       \o generate_handler_traits(plan)
       \o generate_api_keys(plan)
       \o generate_middleware_trait
       \o generate_config(plan)
       \o generate_agent(plan)
=============================================================================

---------------------------- MODULE DartBindings ----------------------------
(***************************************************************************)
(* The Dart bindings of an agent (auwgent-codegen, dart.rs).               *)
(***************************************************************************)
EXTENDS BindingsPlan

Public == "Auwgent"

pascal_case_identifier(name) == Joined(Spell(Upper, name), "")
dart_method_name(name) == Lower[WordsOf[name][1]] \o Joined(Tail(Spell(Upper, name)), "")
sanitize_identifier(name) == Joined(WordsOf[name], "_")
custom_intent_type_name(intent) == pascal_case_identifier(intent) \o "Intent"

JsonMap == Named("sdk.JsonMap")
Top     == Named("Object?")
List_Of(t) == Generic("List", t)
Sdk == {"String", "double", "bool", "Object?", "sdk.JsonMap", "sdk.NoArgs", "sdk.NoResult",
        "sdk.AuwgentTextPart", "sdk.AuwgentImagePart", "sdk.AuwgentFilePart",
        "sdk.AuwgentAudioPart", "sdk.AuwgentVideoPart", "sdk.AuwgentInputPart"}

-----------------------------------------------------------------------------
(* Shapes.                                                                 *)

AsObject(v) == IF IsKind(v, "obj") THEN v ELSE Missing

shape_variants(v) == AsObject(At(v, "__variants"))

shape_properties(v, unwrap) ==
    IF ~IsKind(v, "obj") THEN Missing
    ELSE IF unwrap /\ StringIs(At(v, "kind"), "properties") THEN AsObject(At(v, "fields"))
    ELSE IF StringIs(At(v, "type"), "object") THEN AsObject(At(v, "properties"))
    ELSE IF Has(v, "properties") THEN AsObject(At(v, "properties"))
    ELSE IF Has(v, "fields") THEN AsObject(At(v, "fields"))
    ELSE IF Has(v, "__variants") \/ Has(v, "type") \/ Has(v, "kind") THEN Missing
    ELSE v

is_empty_shape(v) ==
    LET props == shape_properties(v, FALSE)
    IN \/ IsKind(v, "obj") /\ v.keys = <<>>
       \/ props # Missing /\ props.keys = <<>>

normalize_dart_type(raw) ==
    Named(CASE raw = "number"  -> "double"    [] raw = "boolean" -> "bool"
            [] raw = "string"  -> "String"    [] raw = "image"   -> "ImagePart"
            [] raw = "file"    -> "FilePart"  [] raw = "audio"   -> "AudioPart"
            [] raw = "video"   -> "VideoPart" [] OTHER -> raw)

media_input_names(input) ==
    CASE IsKind(input, "str") -> {input.str} \cap MediaTypes
      [] StringIs(At(input, "type"), "union") ->
           {option.str : option \in Range(At(input, "options").arr)} \cap MediaTypes
      [] OTHER -> {}

RECURSIVE type_to_dart_string(_, _, _)
object_or_type_to_dart_string(v, fallback) ==
    LET kind == At(v, "type")
        objectAt(key) == IsKind(At(v, key), "obj")
    IN IF IsKind(kind, "str")
       THEN CASE kind.str = "typeRef" -> Named(At(v, "name").str)
              [] kind.str = "array"   ->
                   List_Of(type_to_dart_string(At(v, "items"), FALSE, Top))
              [] kind.str = "union"   -> Named("String")
              [] kind.str = "object"  -> JsonMap
              [] OTHER -> normalize_dart_type(kind.str)
       ELSE IF objectAt("properties") \/ objectAt("fields") THEN JsonMap
       ELSE fallback

type_to_dart_string(v, unwrap, fallback) ==
    IF unwrap /\ StringIs(At(v, "kind"), "direct") THEN Named("String")
    ELSE IF unwrap /\ StringIs(At(v, "kind"), "properties") THEN JsonMap
    ELSE IF unwrap /\ media_input_names(v) # {} THEN List_Of(Named("InputPart"))
    ELSE IF IsKind(v, "obj") THEN object_or_type_to_dart_string(v, fallback)
    ELSE IF IsKind(v, "str") THEN normalize_dart_type(v.str)
    ELSE fallback

IsOptional(info) == At(info, "optional") = Bool(TRUE)
field_type_string(info) == type_to_dart_string(info, FALSE, Top)

\* An optional field of a type that takes null already is cast to a type with two
\* question marks; a list is rebuilt as one of Object?.
decode_field_expr(info) ==
    LET t == field_type_string(info)
    IN CASE t = Top /\ IsOptional(info) -> {Malformed}
         [] "container" \in DOMAIN t    -> {Assigns(List_Of(Top), t)}
         [] OTHER -> {}

FieldUses(props) ==
    UNION {{Mentions(field_type_string(props.obj[k]))} \cup decode_field_expr(props.obj[k]) :
             k \in Range(props.keys)}

-----------------------------------------------------------------------------
(* Declarations of data.                                                   *)

generate_data_class(name, props) ==
    Data(name, props.keys \o <<"fromJson", "toJson", "toString">>, FieldUses(props),
         Range(props.keys), {})

\* The alternatives of a union are told apart by the fields they require.
generate_variant_data_class(base, variant, props) ==
    Data(base \o variant, props.keys \o <<"variant", "fromJson", "toJson", "toString">>,
         FieldUses(props) \cup {Mentions(Named(base))}, Range(props.keys), {})

generate_variant_matcher(base, variant) ==
    Class("_matches" \o base \o variant, <<>>, {})

generate_variant_class(name, variants) ==
    <<Class(name, <<"variant", "fromJson">>,
            {Calls(name \o v, "fromJson") : v \in Range(variants.keys)}
              \cup {Mentions(Named("_matches" \o name \o v)) : v \in Range(variants.keys)})>>
    \o [i \in DOMAIN variants.keys |->
          generate_variant_data_class(name, variants.keys[i], variants.obj[variants.keys[i]])]
    \o [i \in DOMAIN variants.keys |-> generate_variant_matcher(name, variants.keys[i])]
    \o <<Class(name \o "Unknown", <<"raw", "variant">>, {Mentions(Named(name))})>>

generate_named_shape(name, v, unwrap, fallback) ==
    LET variants == shape_variants(v)
        props    == shape_properties(v, unwrap)
    IN IF variants # Missing THEN generate_variant_class(name, variants)
       ELSE IF props # Missing THEN <<generate_data_class(name, props)>>
       ELSE <<Alias(name, type_to_dart_string(v, unwrap, fallback))>>

IsClass(v) == shape_variants(v) # Missing \/ shape_properties(v, FALSE) # Missing

decode_named_shape_expr(v, type) ==
    IF IsClass(v) THEN {Calls(type, "fromJson")} ELSE {}

decode_named_shape_expr_optional(v, type) ==
    IF IsClass(v) THEN {Calls(type, "fromJson")}
    ELSE {Assigns(type_to_dart_string(v, FALSE, Top), Named(type))}

generate_custom_types(ir) ==
    Concat([i \in DOMAIN ir.types |->
              generate_named_shape(ir.types[i].name, ir.types[i].def, FALSE, JsonMap)])

generate_input_part_aliases ==
    [i \in 1..6 |->
       LET part == <<"TextPart", "ImagePart", "FilePart", "AudioPart", "VideoPart", "InputPart">>[i]
       IN Alias(part, Named("sdk.Auwgent" \o part))]

generate_input_builders(input) ==
    IF media_input_names(input) = {} THEN <<>>
    ELSE <<Class("InputBuilder", <<"text">> \o SetToSeq(media_input_names(input)), {}),
           Class("input", <<>>, {Mentions(Named("InputBuilder"))})>>

-----------------------------------------------------------------------------
(* Declarations of callables.                                              *)

ArgsType(family, callable) ==
    pascal_case_identifier(callable.name) \o family \o "Args"
ResultType(family, callable) ==
    pascal_case_identifier(callable.name) \o
        (IF family = "Tool" THEN "Result" ELSE family \o "ResultValue")

generate_tools_registry(tools) ==
    LET method(i) == dart_method_name(tools[i].name)
        handler(i) == pascal_case_identifier(tools[i].name) \o "ToolHandler"
        argsOf(i) == IF is_empty_shape(tools[i].args) THEN {} ELSE {ArgsType("Tool", tools[i])}
        signature(i) == {Mentions(Named(a)) : a \in argsOf(i) \cup {ResultType("Tool", tools[i])}}
        methods == [i \in DOMAIN tools |-> method(i)]
    IN [i \in DOMAIN tools |-> Class(handler(i), <<>>, signature(i))]
       \o <<Class(Public \o "Tools", methods \o <<"toMap">>,
                  UNION {signature(i) \cup {Calls(a, "fromJson") : a \in argsOf(i)} :
                           i \in DOMAIN tools}),
            Class(Public \o "ToolRegistry",
                  [i \in DOMAIN tools |-> "_" \o method(i)] \o methods,
                  {Mentions(Named(Public \o "Tools"))}
                    \cup {Mentions(Named(handler(i))) : i \in DOMAIN tools})>>

\* One callable: its data, then its call, its result and, for a tool, the call skipped.
CallableModels(family, callable) ==
    LET pascal == pascal_case_identifier(callable.name)
        args   == ArgsType(family, callable)
        result == ResultType(family, callable)
        noArgs == is_empty_shape(callable.args)
        noResult == callable.result = Null
        argUses == IF noArgs THEN {}
                   ELSE {Mentions(Named(args))} \cup decode_named_shape_expr(callable.args, args)
        resultUses == IF noResult THEN {}
                      ELSE {Mentions(Named(result))}
                             \cup decode_named_shape_expr(callable.result, result)
        call(kind, base) == Class(pascal \o family \o kind, <<"args", "type", "fromJson", "toString">>,
                                  argUses \cup {Mentions(Named(base))})
    IN (IF noArgs THEN <<>> ELSE generate_named_shape(args, callable.args, FALSE, JsonMap))
       \o (IF noResult THEN <<>> ELSE generate_named_shape(result, callable.result, FALSE, Top))
       \o <<call("Call", family \o "Calls"),
            Class(pascal \o family \o "Result",
                  <<"args", "result", "overridden", "name", "fromJson", "toString">>,
                  argUses \cup resultUses \cup {Mentions(Named(family \o "Results"))})>>
       \o (IF family = "Tool" THEN <<call("Skipped", family \o "Skippeds")>> ELSE <<>>)

generate_callable_intent_models(family, callables) ==
    LET each(kind) == {Calls(pascal_case_identifier(callables[i].name) \o family \o kind, "fromJson") :
                         i \in DOMAIN callables}
        base(kind, members) ==
            <<Class(family \o kind \o "s", members,
                    each(kind) \cup {Mentions(Named(family \o kind \o "Unknown"))}),
              Alias(family \o kind, Named(family \o kind \o "s")),
              Class(family \o kind \o "Unknown", members,
                    {Mentions(Named(family \o kind \o "s"))})>>
    IN base("Call", <<"type", "args", "fromJson">>)
       \o base("Result", <<"name", "args", "result", "overridden", "fromJson">>)
       \o Concat([i \in DOMAIN callables |-> CallableModels(family, callables[i])])
       \o (IF family # "Tool" THEN <<>>
           ELSE base("Skipped", <<"type", "args", "fromJson">>)
                \o <<Class(family \o "Errors", <<"tool", "message", "fromJson", "toString">>, {}),
                     Alias(family \o "Error", Named(family \o "Errors"))>>)

generate_component_intent_models(components) ==
    LET pascal(i) == pascal_case_identifier(components[i].name)
        props(i)  == pascal(i) \o "ComponentProps"
        action(i) == pascal(i) \o "ComponentAction"
        class(i)  == pascal(i) \o "ComponentIntent"
    IN <<Class("ComponentIntent", <<"type", "cId", "props", "action", "children", "fromJson">>,
               {Calls(class(i), "fromJson") : i \in DOMAIN components}),
         Class("ComponentIntentUnknown", <<"raw", "type", "cId", "props", "action", "children">>, {}),
         Class("RenderComponentIntent",
               <<"root", "roots", "components", "tree", "trees", "fromJson">>, {})>>
       \o Concat([i \in DOMAIN components |->
            generate_named_shape(props(i), components[i].props, FALSE, JsonMap)
            \o <<Alias(action(i), JsonMap),
                 Class(class(i), <<"cId", "props", "action", "children", "type", "fromJson">>,
                       decode_named_shape_expr(components[i].props, props(i))
                         \cup decode_named_shape_expr_optional(components[i].action, action(i)))>>])

generate_action_intent_models(plan) ==
    Concat([i \in DOMAIN Families(plan) |->
              generate_callable_intent_models(Families(plan)[i],
                                              Callables(plan, Families(plan)[i]))])
    \o (IF plan.components = <<>> THEN <<>> ELSE generate_component_intent_models(plan.components))
    \o Concat([i \in DOMAIN plan.custom_intents |->
                 generate_named_shape(custom_intent_type_name(plan.custom_intents[i].name),
                                      plan.custom_intents[i].def, FALSE, JsonMap)])

generate_core_intent_models(output) ==
    <<Class("ResponseText", <<"text", "fromJson", "toString">>, {}),
      Class("ResponseSchema", <<"type", "response", "fromJson", "toString">>,
            {Mentions(Named(Public \o "Output"))}
              \cup decode_named_shape_expr(output, Public \o "Output")),
      Class("ErrorIntent", <<"message", "fromJson", "toString">>, {})>>

-----------------------------------------------------------------------------
(* Handlers.  A case names an intent, the method that handles it and the   *)
(* type its value is decoded as.                                           *)

Case(intent, method, partial, type) ==
    [intent |-> intent, method |-> method, partial |-> partial, type |-> type]

Core == <<Case("response_text", "responseText", "ResponseText", "ResponseText"),
          Case("response_schema", "responseSchema", "ResponseSchema", "ResponseSchema"),
          Case("error", "error", "Error", "ErrorIntent")>>

FamilyCases(family) ==
    CASE family = "Tool" -> <<Case("tool_call", "toolCall", "ToolCall", "ToolCalls"),
                              Case("tool_result", "toolResult", "ToolResult", "ToolResults"),
                              Case("tool_error", "toolError", "ToolError", "ToolErrors"),
                              Case("tool_skipped", "toolSkipped", "ToolSkipped", "ToolSkippeds")>>
      [] family = "Workflow" ->
           <<Case("workflow_call", "workflowCall", "WorkflowCall", "WorkflowCalls"),
             Case("workflow_result", "workflowResult", "WorkflowResult", "WorkflowResults")>>
      [] family = "Helper" ->
           <<Case("helper_call", "helperCall", "HelperCall", "HelperCalls"),
             Case("helper_result", "helperResult", "HelperResult", "HelperResults")>>

ComponentCases ==
    <<Case("component", "component", "Component", "ComponentIntent"),
      Case("render_component", "renderComponent", "RenderComponent", "RenderComponentIntent")>>

CustomCase(name) ==
    Case(name, dart_method_name(name), pascal_case_identifier(name), custom_intent_type_name(name))

generate_dispatch_cases(plan) ==
    Core \o Concat([i \in DOMAIN Families(plan) |-> FamilyCases(Families(plan)[i])])
    \o (IF plan.components = <<>> THEN <<>> ELSE ComponentCases)
    \o [i \in DOMAIN plan.custom_intents |-> CustomCase(plan.custom_intents[i].name)]

\* A middleware's methods have the handler's names, but for the error's; the partial
\* ones are prefixed.
middleware_method(cases, i, partial) ==
    CASE partial -> "partial" \o cases[i].partial
      [] ~partial /\ i = 3 -> "errorIntent"
      [] OTHER -> cases[i].method

generate_middleware_dispatch_cases(plan, partial) ==
    LET cases == generate_dispatch_cases(plan)
    IN [i \in DOMAIN cases |-> [cases[i] EXCEPT !.method = middleware_method(cases, i, partial)]]

Methods(cases) == [i \in DOMAIN cases |-> cases[i].method]
Typed(cases)   == {Mentions(Named(cases[i].type)) : i \in DOMAIN cases}

generate_handler_classes(plan) ==
    LET cases == generate_dispatch_cases(plan)
    IN <<Class(Public \o "BaseIntentHandler", <<"any">> \o Methods(cases), Typed(cases)),
         Class(Public \o "BasePartialIntentHandler", <<"any">> \o Methods(cases), Typed(cases)),
         Class(Public \o "Middleware",
               <<"name", "target", "onRunStart", "onLLMStart", "onLLMEnd", "onRunComplete",
                 "onError", "onIntent", "onIntentPartial">>
                 \o Methods(generate_middleware_dispatch_cases(plan, FALSE))
                 \o Methods(generate_middleware_dispatch_cases(plan, TRUE)),
               Typed(cases))>>

generate_intent_aliases ==
    <<Alias(Public \o "IntentValue", Top), Class(Public \o "IntentControl", <<>>, {}),
      Class(Public \o "IntentHandler", <<>>, {}),
      Class(Public \o "PartialIntentHandler", <<>>, {})>>

Dispatches(function, handler, cases) ==
    Class(function, <<>>,
          {Calls(handler, cases[i].method) : i \in DOMAIN cases}
            \cup {Calls(cases[i].type, "fromJson") : i \in DOMAIN cases})

generate_agent_class(plan) ==
    LET cases == generate_dispatch_cases(plan)
    IN <<Class(Public \o "Agent", <<"onIntentHandler", "onIntentPartialHandler">>,
               {Mentions(Named(Public \o "Config"))}),
         Dispatches("_dispatchIntent", Public \o "BaseIntentHandler", cases),
         Dispatches("_dispatchPartialIntent", Public \o "BasePartialIntentHandler", cases),
         Dispatches("_dispatchMiddlewareIntent", Public \o "Middleware",
                    generate_middleware_dispatch_cases(plan, FALSE)),
         Dispatches("_dispatchMiddlewarePartialIntent", Public \o "Middleware",
                    generate_middleware_dispatch_cases(plan, TRUE))>>

-----------------------------------------------------------------------------
(* Configuration, and the whole file.                                      *)

has_api_keys(plan) == plan.required_providers # {} \/ plan.custom_provider_ids # {}

\* The first word of a custom provider's id starts in lower case.
KeyField(id) ==
    LET words == WordsOf[id]
    IN Joined(<<Lower[words[1]]>> \o Tail(words), "_") \o "ApiKey"
ApiKeyFields(plan) ==
    {p \o "ApiKey" : p \in plan.required_providers \cap {"gemini", "openai", "groq"}}
      \cup {KeyField(id) : id \in plan.custom_provider_ids}

\* A provider that is neither built in nor custom asks for no key; a class without
\* any field has an empty list of named parameters.
generate_api_keys(plan) ==
    IF ~has_api_keys(plan) THEN <<>>
    ELSE <<Class(Public \o "ApiKeys", SetToSeq(ApiKeyFields(plan)) \o <<"toMap">>,
                 IF ApiKeyFields(plan) = {} THEN {Malformed} ELSE {})>>

\* Without a context of its own an agent's is a JSON map, and is asked for toJson too.
generate_config_class(plan) ==
    LET context == IF plan.has_context THEN Public \o "Context" ELSE "sdk.JsonMap"
    IN <<Class(Public \o "Config",
               <<"tools", "middleware", "context", "apiKeys", "libraryPath", "autoDispose",
                 "toAuwgentConfig">>,
               {Calls(Public \o "Tools", "toMap"), Calls(context, "toJson")}
                 \cup (IF has_api_keys(plan) THEN {Calls(Public \o "ApiKeys", "toMap")} ELSE {}))>>

generate_factory ==
    <<Class("create" \o Public, <<>>, {Mentions(Named(Public \o "Agent"))}),
      Class("auwgent", <<>>, {})>>

generate(plan) ==
    generate_input_part_aliases
    \o generate_custom_types(plan.ir)
    \o generate_named_shape("Input", plan.ir.input, TRUE, Named("String"))
    \o generate_input_builders(plan.ir.input)
    \o Concat([i \in DOMAIN plan.output_helpers |->
                 generate_named_shape(plan.output_helpers[i].name \o "Output",
                                      plan.output_helpers[i].output, FALSE, JsonMap)])
    \o generate_named_shape(Public \o "Output", plan.ir.output, FALSE, JsonMap)
    \o generate_named_shape(Public \o "Context", plan.ir.context, FALSE, JsonMap)
    \o generate_tools_registry(Callables(plan, "Tool"))
    \o generate_core_intent_models(plan.ir.output)
    \o generate_action_intent_models(plan)
    \o generate_intent_aliases
    \o generate_handler_classes(plan)
    \o generate_api_keys(plan)
    \o generate_config_class(plan)
    \o generate_agent_class(plan)
    \o generate_factory
=============================================================================

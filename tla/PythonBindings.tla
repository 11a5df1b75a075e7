--------------------------- MODULE PythonBindings ---------------------------
(***************************************************************************)
(* The Python bindings of an agent (auwgent-codegen, python.rs).  A module *)
(* is run from its top: what an annotation or an alias names must be there *)
(* already, unless it is written between quotes.                           *)
(***************************************************************************)
EXTENDS BindingsPlan

Keywords == {"class", "def", "return", "from", "import", "for", "while", "if", "else", "elif",
             "try", "except", "finally", "with", "pass", "raise", "global", "nonlocal",
             "lambda", "yield", "await", "async"}

sanitize_python_type_name(name)  == Joined(Spell(Upper, name), "")
sanitize_python_identifier(name) ==
    LET small == Joined(Spell(Small, name), "_")
    IN IF small \in Keywords THEN small \o "_" ELSE small

Any_     == Named("Any")
Builtins == {"str", "float", "bool", "Any", "None", "Middleware", "TypedAuwgent",
             "PartialTextIntentValue", "PartialStructuredIntentValue", "AuwgentTextPart",
             "AuwgentImagePart", "AuwgentFilePart", "AuwgentAudioPart", "AuwgentVideoPart"}

\* A reference to a type of the file is quoted.
Quoted(name) == Generic("quoted", Named(name))
RECURSIVE IsQuoted(_)
IsQuoted(t) == "container" \in DOMAIN t /\ (t.container = "quoted" \/ IsQuoted(t.of))
UseOf(t) == IF IsQuoted(t) THEN Mentions(t) ELSE Needs(t)

-----------------------------------------------------------------------------
(* Shapes.                                                                 *)

normalize_python_type(raw) ==
    Named(CASE raw = "number"  -> "float"     [] raw = "boolean" -> "bool"
            [] raw = "string"  -> "str"       [] raw = "image"   -> "ImagePart"
            [] raw = "file"    -> "FilePart"  [] raw = "audio"   -> "AudioPart"
            [] raw = "video"   -> "VideoPart" [] OTHER -> raw)

RECURSIVE type_to_python_string(_)
type_to_python_string(v) ==
    LET kind == At(v, "type")
    IN IF IsKind(v, "str") THEN normalize_python_type(v.str)
       ELSE IF IsKind(kind, "obj") THEN type_to_python_string(kind)
       ELSE IF IsKind(kind, "str")
       THEN CASE kind.str = "typeRef" -> Quoted(At(v, "name").str)
              [] kind.str = "array"   -> Generic("List", type_to_python_string(At(v, "items")))
              [] kind.str = "union"   -> Named("str")
              [] kind.str = "object"  -> Any_
              [] OTHER -> normalize_python_type(kind.str)
       ELSE Any_

typed_dict_field_type(info) == type_to_python_string(info)

\* The keys of the IR itself are not fields.  A class is left without a body when no
\* other key is there.
Internal(key) == key = "__variants"
generate_typed_dict_raw(name, props) ==
    LET keys == IF IsKind(props, "obj") THEN props.keys ELSE <<>>
        shown(key) == ~Internal(key)
        fields == SelectSeq(keys, shown)
    IN Data(name, fields,
            {UseOf(typed_dict_field_type(props.obj[k])) : k \in Range(fields)}
              \cup (IF keys # <<>> /\ fields = <<>> THEN {Malformed} ELSE {}),
            Range(fields), {})

unwrap_wrapped_shape(v) == IF IsKind(At(v, "type"), "obj") THEN At(v, "type") ELSE v

python_shape_properties(v, unwrapInput) ==
    IF ~IsKind(v, "obj") THEN Missing
    ELSE IF unwrapInput
    THEN IF StringIs(At(v, "kind"), "properties") THEN At(v, "fields") ELSE Missing
    ELSE IF StringIs(At(v, "type"), "object") THEN At(v, "properties")
    ELSE IF Has(v, "type") THEN Missing
    ELSE v

python_shape_type(v, fallback) == IF v = Null THEN fallback ELSE type_to_python_string(v)

TypeAlias(name, t) == [Alias(name, t) EXCEPT !.uses = {UseOf(t)}]

generate_named_python_shape(name, value, fallback, unwrapInput) ==
    LET shape == unwrap_wrapped_shape(value)
        props == python_shape_properties(shape, unwrapInput)
    IN IF props # Missing THEN generate_typed_dict_raw(name, props)
       ELSE TypeAlias(name, python_shape_type(shape, fallback))

-----------------------------------------------------------------------------
(* Data.                                                                   *)

generate_input_part_aliases ==
    [i \in 1..5 |->
       LET part == <<"TextPart", "ImagePart", "FilePart", "AudioPart", "VideoPart">>[i]
       IN TypeAlias(part, Named("Auwgent" \o part))]
    \o <<TypeAlias("InputPart", Named("VideoPart"))>>

generate_custom_types(ir) ==
    [i \in DOMAIN ir.types |->
       generate_typed_dict_raw(ir.types[i].name, At(ir.types[i].def, "properties"))]

media_input_names(input) ==
    CASE IsKind(input, "str") -> {input.str} \cap MediaTypes
      [] StringIs(At(input, "type"), "union") ->
           {option.str : option \in Range(At(input, "options").arr)} \cap MediaTypes
      [] OTHER -> {}

input_to_python_string(input) ==
    IF media_input_names(input) # {} THEN Generic("List", Named("InputPart"))
    ELSE type_to_python_string(input)

generate_input_alias(input) ==
    IF input = Null THEN TypeAlias("Input", Named("str"))
    ELSE IF StringIs(At(input, "kind"), "properties")
    THEN generate_typed_dict_raw("Input", At(input, "fields"))
    ELSE TypeAlias("Input", input_to_python_string(input))

generate_input_builders(input) ==
    IF media_input_names(input) = {} THEN <<>>
    ELSE <<Class("_InputBuilder", <<"text">> \o SetToSeq(media_input_names(input)),
                 {Needs(Named("TextPart"))}),
           Class("_media_part", <<>>, {}), Class("input", <<>>, {Needs(Named("_InputBuilder"))})>>

helper_has_declared_output(helper) == helper.output # Null

generate_helper_output_interface(helper) ==
    generate_named_python_shape(helper.name \o "Output", helper.output, Named("None"), FALSE)

\* The agent's output, or a union of it and those of the helpers it hands off to.
generate_output_interface(plan) ==
    LET output   == plan.ir.output
        variants == At(output, "__variants")
        handed   == SelectSeq(plan.output_helpers, helper_has_declared_output)
        union(names) ==
            [Class("AuwgentOutput", <<>>, {}) EXCEPT !.uses = {Needs(Named(n)) : n \in names}]
    IN IF IsKind(variants, "obj")
       THEN [i \in DOMAIN variants.keys |->
               generate_typed_dict_raw("AuwgentOutput_" \o variants.keys[i],
                                       variants.obj[variants.keys[i]])]
            \o <<union({"AuwgentOutput_" \o v : v \in Range(variants.keys)})>>
       ELSE IF handed = <<>> THEN <<generate_typed_dict_raw("AuwgentOutput", output)>>
       ELSE <<generate_typed_dict_raw("AuwgentBaseOutput", output),
              union({"AuwgentBaseOutput"} \cup {h.name \o "Output" : h \in Range(handed)})>>

-----------------------------------------------------------------------------
(* The tools the host implements.  A method is a declaration of its own.   *)

IsOptional(info) == At(info, "optional") = Bool(TRUE)

\* A parameter without a default value cannot follow one that has one.
ToolMethod(tool) ==
    LET params == tool.args
        badOrder == \E i, j \in DOMAIN params.keys :
                       /\ i < j /\ IsOptional(params.obj[params.keys[i]])
                       /\ ~IsOptional(params.obj[params.keys[j]])
    IN Data("AuwgentTools." \o tool.name, <<>>,
            {UseOf(type_to_python_string(params.obj[k])) : k \in Range(params.keys)}
              \cup {UseOf(type_to_python_string(tool.result))}
              \cup (IF badOrder THEN {Malformed} ELSE {}),
            Range(params.keys), {})

generate_tools_protocol(tools) ==
    <<Class("AuwgentTools", NamesOf(tools), {})>>
    \o [i \in DOMAIN tools |-> ToolMethod(tools[i])]
    \o <<Class("AuwgentToolsDict", <<>>, {})>>

-----------------------------------------------------------------------------
(* Intents.                                                                *)

CustomType(name) == sanitize_python_type_name(name) \o "Intent"

\* Two intents whose names only differ in case or underscores share a type.
generate_custom_intents_union(plan) ==
    LET defs == plan.custom_intents
        isFirst(i) == \A j \in 1..(i - 1) : CustomType(defs[j].name) # CustomType(defs[i].name)
        firsts == SelectSeq([i \in DOMAIN defs |-> i], isFirst)
    IN [i \in DOMAIN firsts |->
          generate_typed_dict_raw(CustomType(defs[firsts[i]].name), At(defs[firsts[i]].def, "fields"))]
       \o <<Class("AuwgentCustomIntents", <<>>,
                  {Needs(Named(CustomType(defs[i].name))) : i \in DOMAIN defs})>>

ToolKinds == <<"ToolCall", "ToolResult", "ToolError", "ToolSkipped">>
Unions(kinds, uses) ==
    [i \in DOMAIN kinds |-> Class(kinds[i], <<>>, uses)]
    \o [i \in DOMAIN kinds |-> Class(kinds[i] \o "s", <<>>, {Needs(Named(kinds[i]))})]

\* Only the agent's own tools have intents of their own, although any tool of the file
\* brings the intents; without one of its own the unions have no second name.
OwnTools(plan) ==
    [i \in DOMAIN plan.ir.tools |->
       [name |-> plan.ir.tools[i].name, args |-> plan.ir.tools[i].params,
        result |-> plan.ir.tools[i].returns]]

ToolTypes(tool) ==
    LET safe == sanitize_python_type_name(tool.name)
        hasArgs == tool.args.keys # <<>>
        args == IF hasArgs THEN safe \o "ToolArgs" ELSE "NoArgs"
        needs == {Needs(Named(args))}
    IN (IF hasArgs THEN <<generate_typed_dict_raw(args, tool.args)>> ELSE <<>>)
       \o <<generate_named_python_shape(safe \o "Result", tool.result, Any_, FALSE),
            Class(safe \o "ToolCall", <<"type">>, needs),
            Class(safe \o "ToolResult", <<"name", "args", "result", "overridden">>,
                  needs \cup {Needs(Named(safe \o "Result"))}),
            Class(safe \o "ToolError", <<"tool", "message">>, {}),
            Class(safe \o "ToolSkipped", <<"type">>, needs)>>

ToolIntents(plan) ==
    LET own == OwnTools(plan)
        each == {Needs(Named(sanitize_python_type_name(tool.name) \o ToolKinds[k])) :
                   tool \in Range(own), k \in DOMAIN ToolKinds}
    IN IF plan.tools = <<>> THEN <<>>
       ELSE <<Class("NoArgs", <<>>, {})>>
            \o Concat([i \in DOMAIN own |-> ToolTypes(own[i])])
            \o (IF own # <<>> THEN Unions(ToolKinds, each)
                ELSE [i \in DOMAIN ToolKinds |-> Class(ToolKinds[i], <<>>, {})])

\* The response is the agent's, a helper's or any type of the file.
ResponseSchemas(plan) ==
    LET declared == SelectSeq(plan.helpers, helper_has_declared_output)
        schema(name, safe) == Class(safe \o "ResponseSchema", <<"type", "response">>,
                                    {Needs(Named(name))})
    IN <<schema("AuwgentOutput", "AuwgentOutput")>>
       \o [i \in DOMAIN plan.ir.types |->
             schema(plan.ir.types[i].name, sanitize_python_type_name(plan.ir.types[i].name))]
       \o [i \in DOMAIN declared |->
             schema(declared[i].name \o "Output",
                    sanitize_python_type_name(declared[i].name) \o "Output")]
       \o <<Class("ResponseSchema", <<>>, {}), Class("ResponseText", <<"text">>, {}),
            Class("ErrorIntent", <<"message">>, {})>>

FamilyKinds(family) == <<family \o "Call", family \o "Result">>
CallTypes(family, callable) ==
    LET safe   == sanitize_python_type_name(callable.name)
        args   == safe \o family \o "Args"
        result == safe \o family \o "ResultValue"
        none   == IF family = "Helper" THEN Any_ ELSE Named("str")
    IN <<generate_named_python_shape(args, callable.args, Named("str"), family = "Helper"),
         generate_named_python_shape(result, callable.result, none, FALSE),
         Class(safe \o family \o "Call", <<"type", "args">>, {Needs(Named(args))}),
         Class(safe \o family \o "Result", <<"name", "result">>, {Needs(Named(result))})>>

CallIntents(plan, family) ==
    LET items == Callables(plan, family)
    IN Concat([i \in DOMAIN items |-> CallTypes(family, items[i])])
       \o (IF items = <<>> THEN <<>> ELSE Unions(FamilyKinds(family), {}))

ComponentIntents(plan) ==
    IF plan.components = <<>> THEN <<>>
    ELSE <<Class("ComponentIntent", <<"type", "c_id", "props", "action", "children">>, {}),
           Class("RenderComponentIntent", <<"root", "roots", "components", "tree", "trees">>, {})>>

-----------------------------------------------------------------------------
(* Handlers.                                                               *)

Case(intent, method, type) == [intent |-> intent, method |-> method, type |-> type]

FamilyCases(family) ==
    LET of(kind, name) == Case(name, name, family \o kind \o "s")
    IN CASE family = "Tool" -> <<of("Call", "tool_call"), of("Result", "tool_result"),
                                 of("Error", "tool_error"), of("Skipped", "tool_skipped")>>
         [] family = "Workflow" -> <<of("Call", "workflow_call"), of("Result", "workflow_result")>>
         [] family = "Helper"   -> <<of("Call", "helper_call"), of("Result", "helper_result")>>

Intents(plan) ==
    <<Case("response_text", "response_text", "ResponseText"),
      Case("response_schema", "response_schema", "ResponseSchema"),
      Case("error", "error", "ErrorIntent")>>
    \o Concat([i \in DOMAIN Families(plan) |-> FamilyCases(Families(plan)[i])])
    \o (IF plan.components = <<>> THEN <<>>
        ELSE <<Case("component", "component", "ComponentIntent"),
               Case("render_component", "render_component", "RenderComponentIntent")>>)
    \o [i \in DOMAIN plan.custom_intents |->
          LET name == plan.custom_intents[i].name
          IN Case(name, sanitize_python_identifier(name), CustomType(name))]

Handlers(plan) ==
    LET cases == Intents(plan)
        methods == [i \in DOMAIN cases |-> cases[i].method]
    IN <<Class("AuwgentBaseIntentHandler", methods,
               {Needs(Named(case.type)) : case \in Range(cases)}),
         Class("AuwgentBasePartialIntentHandler", methods,
               {Needs(Named("PartialTextIntentValue")),
                Needs(Named("PartialStructuredIntentValue"))})>>

generate_intent_typing(plan) ==
    ToolIntents(plan) \o ResponseSchemas(plan)
    \o CallIntents(plan, "Workflow") \o CallIntents(plan, "Helper")
    \o <<Class("AuwgentIntentValue", <<>>, {})>>
    \o ComponentIntents(plan) \o Handlers(plan)

-----------------------------------------------------------------------------
(* Configuration, and the whole module.                                    *)

KeyField(id) == Joined(WordsOf[id], "_") \o "ApiKey"
ApiKeyFields(plan) ==
    {p \o "ApiKey" : p \in plan.required_providers \cap {"gemini", "openai", "groq"}}
      \cup {KeyField(id) : id \in plan.custom_provider_ids}

\* A class without any field has no body.
generate_api_keys(plan) ==
    IF plan.required_providers = {} THEN <<>>
    ELSE <<Class("AuwgentApiKeys", SetToSeq(ApiKeyFields(plan)),
                 IF ApiKeyFields(plan) = {} THEN {Malformed} ELSE {})>>

generate_factory_function ==
    <<Class("AuwgentAgent", <<"on_intent", "on_intent_partial">>,
            {Needs(Named(n)) : n \in {"AuwgentContext", "AuwgentOutput", "AuwgentTools",
                                      "AuwgentBaseIntentHandler",
                                      "AuwgentBasePartialIntentHandler"}}),
      TypeAlias("AuwgentMiddleware", Named("Middleware")),
      Class("AuwgentConfig", <<"tools", "middleware", "context", "apiKeys">>, {}),
      Class("createAuwgent", <<>>, {Needs(Named("AuwgentConfig"))}), Class("auwgent", <<>>, {})>>

generate(plan) ==
    generate_input_part_aliases
    \o generate_custom_types(plan.ir)
    \o <<generate_input_alias(plan.ir.input)>> \o generate_input_builders(plan.ir.input)
    \o [i \in DOMAIN plan.helpers |-> generate_helper_output_interface(plan.helpers[i])]
    \o generate_output_interface(plan)
    \o <<generate_typed_dict_raw("AuwgentContext", plan.ir.context)>>
    \o generate_tools_protocol(Callables(plan, "Tool"))
    \o generate_custom_intents_union(plan)
    \o generate_intent_typing(plan)
    \o generate_api_keys(plan)
    \o generate_factory_function
=============================================================================

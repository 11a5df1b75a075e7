------------------------- MODULE TypeScriptBindings -------------------------
(***************************************************************************)
(* The TypeScript bindings of an agent (auwgent-codegen, typescript.rs).   *)
(* Types are written inline, so what matters of one is the names in it.    *)
(***************************************************************************)
EXTENDS BindingsPlan

Keywords == {"class", "function", "return", "const", "let", "var", "if", "else", "for", "while",
             "switch", "case", "default", "new", "import", "export", "extends", "implements",
             "interface", "type"}

sanitize_ts_identifier(name) == IF name \in Keywords THEN name \o "_" ELSE name

Known == {"string", "number", "boolean", "unknown"}

-----------------------------------------------------------------------------
(* Types, as the names in them.                                            *)

Parts == [image |-> "ImagePart", file |-> "FilePart", audio |-> "AudioPart", video |-> "VideoPart"]
MediaWord(word) == word \in MediaTypes

\* Case does not matter to it, and is lost.
normalize_ts_type(raw) ==
    LET small == Joined(Spell(Small, raw), "_")
    IN IF MediaWord(small) THEN Parts[small] ELSE small

\* An option is a literal if normalizing leaves it alone; otherwise it is taken for a
\* type.
OptionType(option) ==
    IF normalize_ts_type(option) = option THEN {} ELSE {normalize_ts_type(option)}

RECURSIVE type_to_ts_string(_)
type_to_ts_string(v) ==
    LET kind == At(v, "type")
    IN IF IsKind(v, "str") THEN {normalize_ts_type(v.str)}
       ELSE IF IsKind(kind, "obj") THEN type_to_ts_string(kind)
       ELSE IF IsKind(kind, "str")
       THEN CASE kind.str = "typeRef" -> {At(v, "name").str}
              [] kind.str = "array"   -> type_to_ts_string(At(v, "items"))
              [] kind.str = "union"   ->
                   UNION {OptionType(option.str) : option \in Range(At(v, "options").arr)}
              [] kind.str = "object"  ->
                   UNION {type_to_ts_string(At(v, "properties").obj[k]) :
                            k \in Range(At(v, "properties").keys)}
              [] OTHER -> {normalize_ts_type(kind.str)}
       ELSE {"unknown"}

\* The lines of an object type.
Shown(key) == key # "__variants"
Fields(v) == IF IsKind(v, "obj") THEN SelectSeq(v.keys, Shown) ELSE <<>>
object_lines(v) == UNION {type_to_ts_string(v.obj[k]) : k \in Range(Fields(v))}

Type(name, names) == Class(name, <<>>, {Mentions(Named(n)) : n \in names})
ObjectType(name, v) ==
    Data(name, Fields(v), {Mentions(Named(n)) : n \in object_lines(v)}, Range(Fields(v)), {})

generate_object_alias(name, v) == ObjectType(name, v)

-----------------------------------------------------------------------------
(* The type of the IR, from which the SDK derives that of its intents.     *)

workflow_params_to_ts_string(name, params) == ObjectType("IR.workflows." \o name, params)

\* Mutant: an input of fields is taken for a type.
helper_input_to_ts_stringType(name, input) ==
    IF input = Null THEN Type("IR.helpers." \o name, {})
    ELSE Type("IR.helpers." \o name, type_to_ts_string(input))

\* Unless its fields are its kind, an input has the type it names.
helper_input_to_ts_string(name, input) ==
    CASE input = Null -> Type("IR.helpers." \o name, {})
      [] StringIs(At(input, "kind"), "properties") ->
           ObjectType("IR.helpers." \o name, At(input, "fields"))
      [] OTHER -> Type("IR.helpers." \o name, type_to_ts_string(input))

helper_output_to_ts_string(output) == IF output = Null THEN {} ELSE type_to_ts_string(output)

generate_ir_type(plan) ==
    [i \in DOMAIN plan.workflows |->
       workflow_params_to_ts_string(plan.workflows[i].name, plan.workflows[i].params)]
    \o [i \in DOMAIN plan.helpers |->
          helper_input_to_ts_string(plan.helpers[i].name, plan.helpers[i].input)]
    \o <<Type(plan.ir.name \o "IR",
              UNION {type_to_ts_string(wf.returns) : wf \in Range(plan.workflows)}
                \cup UNION {helper_output_to_ts_string(h.output) : h \in Range(plan.helpers)}
                \cup UNION {type_to_ts_string(t.params) \cup type_to_ts_string(t.returns) :
                              t \in Range(plan.tools)})>>

-----------------------------------------------------------------------------
(* Data.                                                                   *)

generate_input_part_aliases ==
    [i \in 1..11 |->
       Type(<<"TextPart", "ImagePart", "FilePart", "AudioPart", "VideoPart", "InputPart",
              "MediaSource", "ImageInput", "FileInput", "AudioInput", "VideoInput">>[i], {})]

generate_custom_types(ir) ==
    [i \in DOMAIN ir.types |-> ObjectType(ir.types[i].name, At(ir.types[i].def, "properties"))]

media_input_names(input) ==
    CASE IsKind(input, "str") -> {input.str} \cap MediaTypes
      [] StringIs(At(input, "type"), "union") ->
           {option.str : option \in Range(At(input, "options").arr)} \cap MediaTypes
      [] OTHER -> {}

input_to_ts_string(input) ==
    IF media_input_names(input) # {}
    THEN {"TextPart"} \cup {Parts[m] : m \in media_input_names(input)}
    ELSE type_to_ts_string(input)

generate_input_alias(input) ==
    CASE input = Null -> Type("Input", {"string"})
      [] StringIs(At(input, "kind"), "properties") -> ObjectType("Input", At(input, "fields"))
      [] OTHER -> Type("Input", input_to_ts_string(input))

generate_input_builders(input) ==
    IF media_input_names(input) = {} THEN <<>>
    ELSE <<Class("input", <<"text">> \o SetToSeq(media_input_names(input)), {})>>

generate_helper_output_interface(helper) ==
    generate_object_alias(helper.name \o "Output", helper.output)

generate_output_interface(plan) ==
    LET variants == At(plan.ir.output, "__variants")
        helpers  == plan.output_helpers
    IN IF IsKind(variants, "obj")
       THEN <<Type("AuwgentOutput",
                   UNION {object_lines(variants.obj[v]) : v \in Range(variants.keys)})>>
       ELSE IF helpers = <<>> THEN <<ObjectType("AuwgentOutput", plan.ir.output)>>
       ELSE <<ObjectType("AuwgentBaseOutput", plan.ir.output),
              Type("AuwgentOutput", {"AuwgentBaseOutput"} \cup {h.name \o "Output" : h \in Range(helpers)})>>

\* A method is a declaration of its own.
generate_tools_interface(tools) ==
    <<Class("AuwgentTools", NamesOf(tools), {})>>
    \o [i \in DOMAIN tools |->
          LET args == ObjectType("AuwgentTools." \o tools[i].name, tools[i].args)
          IN [args EXCEPT !.uses = @ \cup {Mentions(Named(n)) :
                                             n \in type_to_ts_string(tools[i].result)}]]

generate_custom_intents_union(plan) ==
    <<Type("AuwgentCustomIntents",
           UNION {object_lines(At(plan.custom_intents[i].def, "fields")) :
                    i \in DOMAIN plan.custom_intents})>>

-----------------------------------------------------------------------------
(* Handlers.  A method's value is found in the SDK's type of all intents   *)
(* by the intent's name.                                                   *)

Case(intent) == [intent |-> intent, method |-> sanitize_ts_identifier(intent)]

\* Mutant: calls that a host skipped have no method.
FamilyCasesUnskipped(family) ==
    CASE family = "Tool" -> <<Case("tool_call"), Case("tool_result"), Case("tool_error")>>
      [] family = "Workflow" -> <<Case("workflow_call"), Case("workflow_result")>>
      [] family = "Helper"   -> <<Case("helper_call"), Case("helper_result")>>

FamilyCases(family) ==
    CASE family = "Tool" -> <<Case("tool_call"), Case("tool_result"), Case("tool_error"),
                              Case("tool_skipped")>>
      [] family = "Workflow" -> <<Case("workflow_call"), Case("workflow_result")>>
      [] family = "Helper"   -> <<Case("helper_call"), Case("helper_result")>>

Intents(plan) ==
    <<Case("response_text"), Case("response_schema"), Case("error")>>
    \o Concat([i \in DOMAIN Families(plan) |-> FamilyCases(Families(plan)[i])])
    \o (IF plan.components = <<>> THEN <<>> ELSE <<Case("component"), Case("render_component")>>)
    \o [i \in DOMAIN plan.custom_intents |-> Case(plan.custom_intents[i].name)]

\* The type of all intents is the SDK's, of the tools among others.
generate_base_intent_handler(plan) ==
    LET methods == [i \in DOMAIN Intents(plan) |-> Intents(plan)[i].method]
        union == {Mentions(Named(n)) : n \in {"AuwgentCustomIntents", "AuwgentOutput",
                                              "AuwgentTools", plan.ir.name \o "IR"}}
    IN <<Class("AuwgentIntentHandler", methods, union),
         Class("AuwgentBaseIntentHandler", methods, union)>>

-----------------------------------------------------------------------------
(* Configuration, and the whole module.                                    *)

KeyField(id) == Joined(WordsOf[id], "_") \o "ApiKey"
ApiKeyFields(plan) ==
    {p \o "ApiKey" : p \in plan.required_providers \cap {"gemini", "openai", "groq"}}
      \cup {KeyField(id) : id \in plan.custom_provider_ids}

generate_api_keys(plan) ==
    IF plan.required_providers = {} THEN <<>>
    ELSE <<Class("AuwgentApiKeys", SetToSeq(ApiKeyFields(plan)), {})>>

generate_agent_factory(plan) ==
    LET tools == IF plan.tools # <<>> THEN {"AuwgentTools"} ELSE {}
        types == {"AuwgentCustomIntents", "AuwgentOutput", plan.ir.name \o "IR"} \cup tools
        keys  == IF plan.required_providers # {} THEN {"AuwgentApiKeys"} ELSE {}
    IN <<Type("AuwgentAgent", types), Type("AuwgentMiddleware", types),
         Type("AuwgentConfig", {"AuwgentMiddleware", "AuwgentContext"} \cup tools \cup keys),
         Type("createAuwgent", {"AuwgentConfig", "AuwgentAgent"}), Class("auwgent", <<>>, {})>>

generate(plan) ==
    generate_ir_type(plan)
    \o generate_input_part_aliases
    \o generate_custom_types(plan.ir)
    \o <<generate_input_alias(plan.ir.input)>> \o generate_input_builders(plan.ir.input)
    \o [i \in DOMAIN plan.output_helpers |->
          generate_helper_output_interface(plan.output_helpers[i])]
    \o generate_output_interface(plan)
    \o <<generate_object_alias("AuwgentContext", plan.ir.context)>>
    \o (IF plan.tools = <<>> THEN <<>> ELSE generate_tools_interface(Callables(plan, "Tool")))
    \o generate_custom_intents_union(plan)
    \o generate_base_intent_handler(plan)
    \o generate_api_keys(plan)
    \o generate_agent_factory(plan)
=============================================================================

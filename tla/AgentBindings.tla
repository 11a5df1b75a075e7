---------------------------- MODULE AgentBindings ----------------------------
(***************************************************************************)
(* From an agent file to a host that runs it: `auwgent compile` checks the *)
(* file, lowers it and writes the bindings of a target; the host fills in  *)
(* all that they ask of it, a handler for every tool and a key for every   *)
(* provider, and the SDK registers these with the engine                   *)
(* (targets/typescript/auwgent.ts, targets/python/auwgent_sdk,             *)
(* targets/dart/lib/src/typed_auwgent.dart, targets/rust/src/lib.rs).      *)
(***************************************************************************)
EXTENDS BindingsPlan

CONSTANTS
    AgentFiles,     \* the agent files
    Dashed     \* provider id |-> the id with _ for every -

VARIABLES
    file,      \* the file, as its author wrote it
    stage,     \* what has become of it
    ir,        \* the IR, once it is compiled
    target,    \* the target the bindings are for
    bindings,  \* the declarations of the bindings
    host       \* what the SDK has registered with the engine

bindingVars == <<file, stage, ir, target, bindings, host>>

TypeScript == INSTANCE TypeScriptBindings
Python     == INSTANCE PythonBindings
Dart       == INSTANCE DartBindings
Rust       == INSTANCE RustBindings

Targets == {"typescript", "python", "dart", "rust"}
Plan == CodegenPlan(ir)
Nothing == [style |-> "", tools |-> {}, drivers |-> {}, custom |-> {}, methods |-> <<>>]

generate(t, plan) ==
    CASE t = "typescript" -> TypeScript!generate(plan)
      [] t = "python"     -> Python!generate(plan)
      [] t = "dart"       -> Dart!generate(plan)
      [] t = "rust"       -> Rust!generate(plan)

-----------------------------------------------------------------------------
(* The SDK.                                                                *)

\* Tools given as an object are looked up on it by the names of the agent's own.
RegisteredTools(t, style) ==
    IF t = "python" /\ style = "object" THEN Names(ir.tools) ELSE Names(Plan.tools)

\* The field of the API keys in which the SDK looks for a custom provider's key.
LookedUp(id) == Dashed[id] \o "ApiKey"

KeyFields(t) ==
    CASE t = "typescript" -> TypeScript!ApiKeyFields(Plan)
      [] t = "python"     -> Python!ApiKeyFields(Plan)
      [] t = "dart"       -> Dart!ApiKeyFields(Plan)
      [] t = "rust"       -> {}

\* Dart lets a custom endpoint of a built-in provider, which it also knows by its URL,
\* use the provider's key.
BuiltinKey(id) ==
    LET word == Joined(Spell(Small, id), "")
    IN CASE word \in {"gemini", "geminiapi"} -> "geminiApiKey"
         [] word \in {"openai", "openaiapi"} -> "openaiApiKey"
         [] word \in {"groq", "groqapi"}     -> "groqApiKey"
         [] OTHER -> ""

\* In Rust the bindings themselves put a custom provider's key under its id.
HasCustomDriver(t, id) ==
    CASE t \in {"typescript", "python"} -> LookedUp(id) \in KeyFields(t)
      [] t = "dart" -> {LookedUp(id), BuiltinKey(id)} \cap KeyFields(t) # {}
      [] t = "rust" -> id \in Plan.custom_provider_ids

Drivers == Plan.required_providers \cap {"gemini", "openai", "groq"}
CustomDrivers(t) ==
    {id \in {m.id : m \in {m \in AllModels(ir) : m.type = "custom"}} : HasCustomDriver(t, id)}

\* The methods that intents are handed to: TypeScript and Python look for one with the
\* intent's name, then for one spelled their way; Dart and Rust generate the choice.
camelCase(name) == Head(WordsOf[name]) \o Joined(Tail(Spell(Upper, name)), "")
Handler == CHOOSE d \in Range(bindings) :
               d.name = IF target = "rust" THEN "AuwgentIntentHandler" ELSE "AuwgentBaseIntentHandler"
FirstOf(names) ==
    LET found(n) == n \in Range(Handler.members)
        there == SelectSeq(names, found)
    IN IF there = <<>> THEN "" ELSE Head(there)
CaseOf(cases, intent) == CHOOSE case \in Range(cases) : case.intent = intent

Method(t, intent) ==
    CASE t = "typescript" -> FirstOf(<<intent, camelCase(intent)>>)
      [] t = "python"     -> FirstOf(<<intent, Joined(Spell(Small, intent), "_")>>)
      [] t = "dart"       -> CaseOf(Dart!generate_dispatch_cases(Plan), intent).method
      [] t = "rust"       -> Rust!Method(CaseOf(Rust!Intents(Plan), intent))

-----------------------------------------------------------------------------
(* Actions.                                                                *)

BindInit ==
    /\ file \in AgentFiles
    /\ stage = "written" /\ ir = <<>> /\ target = "" /\ bindings = <<>> /\ host = Nothing

\* A file with errors is lowered all the same, and is refused after that.
Compile ==
    /\ stage = "written"
    /\ stage' = IF Lowering(file) = "ir" /\ ~check(file) THEN "refused" ELSE Lowering(file)
    /\ ir' = IF stage' = "ir" THEN lower(file) ELSE ir
    /\ UNCHANGED <<file, target, bindings, host>>

Generate(t) ==
    /\ stage = "ir"
    /\ stage' = "generated" /\ target' = t
    /\ bindings' = generate(t, Plan)
    /\ UNCHANGED <<file, ir, host>>

\* The intents the engine emits for the agent and its helpers.
BuiltInIntents ==
    {"response_text", "response_schema", "error"}
      \cup (IF Plan.tools = <<>> THEN {}
            ELSE {"tool_call", "tool_result", "tool_error", "tool_skipped"})
      \cup (IF ir.workflows = <<>> THEN {} ELSE {"workflow_call", "workflow_result"})
      \cup (IF ir.helpers = <<>> THEN {} ELSE {"helper_call", "helper_result"})
      \cup (IF ir.components = <<>> THEN {} ELSE {"component", "render_component"})
EngineIntents ==
    BuiltInIntents \cup Names(ir.intents) \cup UNION {Names(h.intents) : h \in Range(ir.helpers)}

Start(style) ==
    /\ stage = "generated"
    /\ stage' = "started"
    /\ host' = [style |-> style, tools |-> RegisteredTools(target, style),
                drivers |-> Drivers, custom |-> CustomDrivers(target),
                methods |-> [intent \in EngineIntents |-> Method(target, intent)]]
    /\ UNCHANGED <<file, ir, target, bindings>>

BindNext ==
    \/ Compile
    \/ \E t \in Targets : Generate(t)
    \/ \E style \in {"functions", "object"} : Start(style)

-----------------------------------------------------------------------------
(* What the bindings of a target ask of a file.                            *)

FileTools ==
    LET own(agent) == Range(agent.tools) \cup UNION {Range(wf.tools) : wf \in Range(agent.workflows)}
    IN own(file) \cup UNION {own(helper) : helper \in Range(file.helpers)}
FileIntents == Range(file.intents) \cup UNION {Range(h.intents) : h \in Range(file.helpers)}

FieldsIn(shape) == IF shape.shape = "properties" THEN Range(shape.fields) ELSE {}
\* The fields of the data that the bindings declare.
DataFields ==
    UNION {Range(t.fields) : t \in Range(file.types)} \cup FieldsIn(file.output)
      \cup Range(file.context) \cup UNION {Range(t.params) : t \in FileTools}
      \cup UNION {Range(wf.params) : wf \in Range(file.workflows)}
      \cup UNION {Range(i.fields) : i \in FileIntents}
      \cup UNION {FieldsIn(h.input) \cup FieldsIn(h.output) : h \in Range(file.helpers)}

\* The types that are written where they are used, and those inside them.
RECURSIVE Inside(_)
Inside(ty) ==
    {ty} \cup CASE ty.t = "array"  -> Inside(ty.of)
               [] ty.t = "object" -> UNION {Inside(f.ty) : f \in Range(ty.fields)}
               [] OTHER -> {}
TypesIn(fields) == UNION {Inside(f.ty) : f \in fields}
Refs(types) == {ty.name : ty \in {ty \in types : ty.t = "ref"}}

\* What the checker leaves unchecked: the types of workflows and of intents.
Resolved ==
    Refs(TypesIn(UNION {Range(wf.params) : wf \in Range(file.workflows)})
         \cup UNION {Inside(wf.returns) : wf \in Range(file.workflows)}
         \cup TypesIn(UNION {Range(i.fields) : i \in FileIntents})) \subseteq Names(file.types)

\* The types of values that are not fields, in the bindings of all targets.
Direct_(shape) == IF shape.shape = "direct" THEN Inside(shape.ty) ELSE {}
DirectTypes ==
    Direct_(file.output) \cup UNION {Inside(t.returns) : t \in FileTools}
      \cup UNION {Inside(wf.returns) : wf \in Range(file.workflows)}
      \cup UNION {Direct_(h.input) \cup Direct_(h.output) : h \in Range(file.helpers)}
Options ==
    UNION {Range(ty.options) : ty \in {ty \in DirectTypes \cup TypesIn(DataFields) : ty.t = "union"}}

IntentsAreNew == Names(Plan.custom_intents) \cap BuiltInIntents = {}
AsksForKeys ==
    Plan.required_providers \cap {"gemini", "openai", "groq"} # {} \/ Plan.custom_provider_ids # {}

\* Names that are spelled alike once their words are joined.
Pascal(name) == Joined(Spell(Upper, name), "")
SpelledApart(names) == \A a, b \in names : Pascal(a) = Pascal(b) => a = b
\* The result of a tool has the name of the result intent of another.
NoToolOfATool(names) == \A a, b \in names : Pascal(a) # Pascal(b) \o "Tool"

OptionalLast(tool) ==
    \A i, j \in DOMAIN tool.params :
        i < j /\ tool.params[i].optional => tool.params[j].optional

\* A type that holds itself, other than in an array.
RECURSIVE HeldBy(_)
HeldBy(types) ==
    LET more == types \cup {f.ty.name : f \in {f \in UNION {Range(t.fields) :
                       t \in {t \in Range(file.types) : t.name \in types}} : f.ty.t = "ref"}}
    IN IF more = types THEN types ELSE HeldBy(more)
HoldsItself(t) ==
    t.name \in HeldBy({f.ty.name : f \in {f \in Range(t.fields) : f.ty.t = "ref"}})

Supported ==
    /\ Resolved /\ IntentsAreNew
    /\ CASE target = "typescript" ->
              /\ FileTools # {}
              /\ \A o \in Options : Joined(Spell(Small, o), "_") = o
         [] target = "python" ->
              /\ file.tools = <<>> => FileTools = {}
              /\ SpelledApart(Names(file.tools)) /\ NoToolOfATool(Names(file.tools))
              /\ \A t \in FileTools : OptionalLast(t)
              /\ \A h \in Range(file.helpers) : h.output.shape # "union"
              /\ AsksForKeys
         [] target = "dart" ->
              /\ file.context # <<>> /\ file.components = <<>>
              /\ SpelledApart(Names(Plan.tools)) /\ NoToolOfATool(Names(Plan.tools))
              /\ SpelledApart(Names(Plan.custom_intents))
              /\ \A i \in FileIntents : i.fields # <<>>
              /\ \A t \in Range(Plan.tools) : "type" \notin Range(t.params.keys)
              /\ \A f \in DataFields : f.optional => f.ty.t \notin {"array", "object", "ref", "union"}
              /\ AsksForKeys
         [] target = "rust" ->
              /\ \A n \in Names(file.types) \cup Names(file.helpers) : Rust!to_rust_type_name(n) = n
              /\ \A t \in Range(file.types) : ~HoldsItself(t)
              /\ Families(Plan) # <<>> \/ Plan.custom_intents # <<>>
              /\ \/ ir.output # Null \/ ir.types # <<>>
                 \/ \E h \in Range(Plan.output_helpers) : h.output # Null
-----------------------------------------------------------------------------
(* Properties.                                                             *)

known == CASE target = "typescript" -> TypeScript!Known
           [] target = "python"     -> Python!Builtins
           [] target = "dart"       -> Dart!Sdk
           [] target = "rust"       -> Rust!Std
top == IF target = "dart" THEN Dart!Top ELSE Named("any type")

\* The bindings are a program of their language exactly for the files that the target
\* supports: no name is left undeclared or declared twice, no type holds itself, no
\* class is left without a body, whichever file the checker lets through.
BindingsWellFormed ==
    stage = "generated" => (WellFormed(bindings, known, top) <=> Supported)

\* A tool, a workflow or a helper, its parameters, and the declarations of these.
Callable(family, name, props) ==
    [family |-> family, name |-> name, params |-> {p.name : p \in props}]
FileCallables ==
    {Callable("Tool", t.name, Range(t.params)) : t \in FileTools}
      \cup {Callable("Workflow", wf.name, Range(wf.params)) : wf \in Range(file.workflows)}
      \cup {Callable("Helper", h.name, FieldsIn(h.input)) : h \in Range(file.helpers)}
Scope(family) == CASE family = "Tool"     -> "AuwgentTools." [] family = "Workflow" -> "IR.workflows."
                   [] family = "Helper"   -> "IR.helpers."
ArgsDecls(c) ==
    CASE target = "typescript" -> {Scope(c.family) \o c.name}
      [] target = "python" ->
           {IF c.family = "Tool" THEN Scope(c.family) \o c.name
            ELSE Python!sanitize_python_type_name(c.name) \o c.family \o "Args"}
      [] target = "dart" -> {Dart!ArgsType(c.family, c)}
      [] target = "rust" ->
           {Rust!FamilyArgs(c.family, c)} \cup (IF c.family = "Tool" THEN {Rust!ToolArgs(c)} ELSE {})

\* Names that do not get in each other's way: tools of one name are one tool, a field
\* called type is not taken for the shape's own key, and in Rust no tool's arguments
\* have the name of another's.
Distinguished ==
    /\ \A t, u \in FileTools : t.name = u.name => t = u
    /\ target # "typescript" => \A c \in FileCallables : "type" \notin c.params
    /\ target = "rust" => NoToolOfATool(Names(Plan.tools))

\* Every call's arguments are declared with the parameters its author gave it, whether
\* the tool, workflow or helper belongs to the agent, to a helper or to a workflow.
ArgumentsDeclared ==
    stage = "generated" /\ Supported /\ Distinguished =>
        \A c \in FileCallables : c.params # {} =>
            \A args \in ArgsDecls(c) : CarriedBy(bindings, args) = c.params

\* A host that implements what the bindings ask for answers every tool of the file,
\* those of its workflows and helpers too: "You implement and register them the same way"
\* (workflows.mdx:222).  Python's SDK looks on an object for the agent's own tools only.
ToolsAreRegistered == stage = "started" => host.tools = Names(SetToSeq(FileTools))

\* Every intent that the engine emits is handed to a method of the handler, and to one
\* of its own; where the method's name is not a keyword.
IntentsReachHandlers ==
    stage = "started" /\ Supported =>
       /\ \A i \in EngineIntents : host.methods[i] = "" <=>
             \/ target = "typescript" /\ i \in TypeScript!Keywords
             \/ target = "python" /\ i \in Python!Keywords
       /\ \A i, j \in EngineIntents :
             host.methods[i] = host.methods[j] /\ host.methods[i] # "" => i = j

\* A host that gives every key the bindings ask for has a driver for every model, the
\* helpers' among them.  A custom provider needs an id that the generator and the SDK
\* spell alike, and one that is not taken for a built-in provider's name, unless that
\* provider's key is asked for as well.
FileModels == Range(file.models) \cup UNION {Range(h.models) : h \in Range(file.helpers)}
Taken(id) == is_builtin_provider_alias(id)
Beside(id) == \E m \in FileModels : m.type = id
SpeltAlike(id) == Joined(WordsOf[id], "_") = Dashed[id]
HasKey(id) ==
    CASE target = "rust" -> ~Taken(id)
      [] target = "dart" -> IF Taken(id) THEN Beside(id)
                            ELSE SpeltAlike(id) /\ Lower[WordsOf[id][1]] = WordsOf[id][1]
      [] OTHER -> IF Taken(id) THEN Beside(id) ELSE SpeltAlike(id)
ModelsHaveDrivers ==
    stage = "started" =>
        \A m \in FileModels : IF m.type = "custom" THEN m.id \in host.custom <=> HasKey(m.id)
                             ELSE m.type \in host.drivers
=============================================================================

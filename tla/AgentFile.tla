----------------------------- MODULE AgentFile -----------------------------
(***************************************************************************)
(* An agent file from its syntax to the IR: the checks on declarations     *)
(* (auwgent-checker, lib.rs and declarations.rs) and their lowering        *)
(* (auwgent-ir, lib.rs).  Workflow bodies are WorkflowCompiler's; here a   *)
(* workflow only says which helpers it transfers to.  Descriptions,        *)
(* examples and prompts are left out, and an intent given by name is taken *)
(* for the declaration it names.                                           *)
(*                                                                         *)
(* Where the consumers of the IR look for keys in it, it is JSON: a name   *)
(* the author gave a field is then a key like those of the IR itself.      *)
(***************************************************************************)
EXTENDS Integers, Sequences, FiniteSets, SequencesExt, Functions

-----------------------------------------------------------------------------
(* JSON.  An object remembers the order of its keys; a key set twice keeps *)
(* its place and takes the last value.                                     *)

Str(s)  == [str |-> s]
Bool(b) == [bool |-> b]
List(s) == [arr |-> s]
Null    == [null |-> {}]
Missing == [missing |-> {}]

Obj(pairs) ==
    LET names == {pairs[i][1] : i \in DOMAIN pairs}
        last(k)  == CHOOSE i \in DOMAIN pairs :
                        pairs[i][1] = k /\ \A j \in DOMAIN pairs : pairs[j][1] = k => j <= i
        first(i) == \A j \in 1..(i - 1) : pairs[j][1] # pairs[i][1]
        at == SelectSeq([i \in DOMAIN pairs |-> i], first)
    IN [obj  |-> [k \in names |-> pairs[last(k)][2]],
        keys |-> [i \in DOMAIN at |-> pairs[at[i]][1]]]

IsKind(v, kind) == kind \in DOMAIN v
At(v, key) == IF IsKind(v, "obj") /\ key \in DOMAIN v.obj THEN v.obj[key] ELSE Missing
Has(v, key) == At(v, key) # Missing
Given(v) == v # Missing /\ v # Null
StringIs(v, s) == IsKind(v, "str") /\ v.str = s

-----------------------------------------------------------------------------
(* The syntax.                                                             *)

Ty(name)        == [t |-> name]             \* string, number, boolean, image, ...
Array(of)       == [t |-> "array", of |-> of]
Object(fields)  == [t |-> "object", fields |-> fields]
Ref(name)       == [t |-> "ref", name |-> name]
Union(options)  == [t |-> "union", options |-> options]

Field(name, ty) == [name |-> name, ty |-> ty, optional |-> FALSE]
Maybe(name, ty) == [name |-> name, ty |-> ty, optional |-> TRUE]

Tool(name, params, returns) == [name |-> name, params |-> params, returns |-> returns]
Workflow(name, params, returns, tools, transfers) ==
    [name |-> name, params |-> params, returns |-> returns, tools |-> tools,
     transfers |-> transfers]

NoShape           == [shape |-> "none"]
Direct(ty)        == [shape |-> "direct", ty |-> ty]
Properties(props) == [shape |-> "properties", fields |-> props]
Either(types)     == [shape |-> "union", types |-> types]

Intent(name, props) == [name |-> name, fields |-> props]
\* What an event of a component may call, and the tools of its own that an agent lends
\* to a helper: some, or all of them.
Event(name, targets) == [name |-> name, targets |-> targets]
Grant(name, tools)   == [name |-> name, all |-> FALSE, tools |-> tools]
GrantAll(name)       == [name |-> name, all |-> TRUE, tools |-> {}]
Component(name, props, actions, children) ==
    [name |-> name, props |-> props, actions |-> actions, children |-> children]
Provider(type, id) == [type |-> type, id |-> id]

\* A helper, and what the agent itself has of it.
Helper(name, input, output, tools, workflows, intents) ==
    [name |-> name, input |-> input, output |-> output, tools |-> tools,
     workflows |-> workflows, intents |-> intents, models |-> <<Provider("gemini", "")>>]

\* The agent's own configuration, with the declarations beside it.
EmptyFile ==
    [name |-> "Demo", protocol |-> "", models |-> <<Provider("gemini", "")>>,
     input |-> NoShape, output |-> NoShape, context |-> <<>>, tools |-> <<>>,
     workflows |-> <<>>, intents |-> <<>>, handoff |-> <<>>, grants |-> <<>>,
     types |-> <<>>, components |-> <<>>, helpers |-> <<>>]

-----------------------------------------------------------------------------
(* The checker.                                                            *)

MediaNames == {"Image", "File", "Audio", "Video"}
MediaTypes == {"image", "file", "audio", "video"}
ModalityNames == MediaNames \cup {"Text", "string"}

Names(decls) == {decls[i].name : i \in DOMAIN decls}
Unique(names) == \A i, j \in DOMAIN names : names[i] = names[j] => i = j
NamesOf(decls) == [i \in DOMAIN decls |-> decls[i].name]
FieldsOf(types, name) ==
    types[CHOOSE i \in DOMAIN types :
            types[i].name = name /\ \A j \in 1..(i - 1) : types[j].name # name].fields

\* Helpers, components, types and the agent share one namespace.
register_top_level_name(file) ==
    Unique(<<file.name>> \o NamesOf(file.helpers) \o NamesOf(file.components)
           \o NamesOf(file.types))

\* Mutant: what an array is of is not looked up.
check_type_ref_existsButArrays(ty, types) == ty.t = "ref" => ty.name \in Names(types)

\* A union's options are not looked up.
RECURSIVE check_type_ref_exists(_, _)
check_type_ref_exists(ty, types) ==
    CASE ty.t = "ref"    -> ty.name \in Names(types)
      [] ty.t = "array"  -> check_type_ref_exists(ty.of, types)
      [] ty.t = "object" -> \A i \in DOMAIN ty.fields :
                                check_type_ref_exists(ty.fields[i].ty, types)
      [] OTHER -> TRUE

TypesExist(props, types) ==
    \A i \in DOMAIN props : check_type_ref_exists(props[i].ty, types)

check_properties(props, types) == Unique(NamesOf(props)) /\ TypesExist(props, types)

check_type_decl(decl, types) == check_properties(decl.fields, types)

\* A tool's parameters may share a name.
check_tool(tool, types) ==
    check_type_ref_exists(tool.returns, types) /\ TypesExist(tool.params, types)

check_input(input, isRoot, types) ==
    CASE input.shape = "none" -> TRUE
      [] input.shape = "direct" ->
           /\ isRoot => \/ input.ty.t \in {"string", "text"} \cup MediaTypes
                        \/ input.ty.t = "ref" /\ input.ty.name = "Text"
                        \/ input.ty.t = "union" /\ Range(input.ty.options) \subseteq ModalityNames
           /\ check_type_ref_exists(input.ty, types)
      [] input.shape = "properties" -> ~isRoot /\ check_properties(input.fields, types)

check_output(output, types) ==
    CASE output.shape = "none"       -> TRUE
      [] output.shape = "properties" -> TypesExist(output.fields, types)
      [] output.shape = "direct"     -> check_type_ref_exists(output.ty, types)
      [] output.shape = "union"      -> Range(output.types) \subseteq Names(types)

\* The children a component may have: none, those named, or all.
AllChildren == <<"all">>
check_component_decl(component, file) ==
    /\ Unique(NamesOf(component.props)) /\ TypesExist(component.props, file.types)
    /\ Unique(NamesOf(component.actions))
    /\ component.children = AllChildren \/ Range(component.children) \subseteq Names(file.components)

\* What a type is made of: "media", "plain", or "endless" when the search runs
\* into a type it is in already before it meets a medium.
RECURSIVE type_contains_media(_, _, _), AnyMedia(_, _, _)
AnyMedia(tys, types, within) ==
    IF tys = <<>> THEN "plain"
    ELSE LET first == type_contains_media(Head(tys), types, within)
         IN IF first = "plain" THEN AnyMedia(Tail(tys), types, within) ELSE first

Declared(name, types, within) ==
    IF name \notin Names(types) THEN "plain"
    ELSE IF name \in within THEN "endless"
    ELSE LET props == FieldsOf(types, name)
         IN AnyMedia([i \in DOMAIN props |-> props[i].ty], types, within \cup {name})

type_contains_media(ty, types, within) ==
    CASE ty.t \in MediaTypes -> "media"
      [] ty.t = "ref"    -> Declared(ty.name, types, within)
      [] ty.t = "array"  -> AnyMedia(<<ty.of>>, types, within)
      [] ty.t = "object" -> AnyMedia([i \in DOMAIN ty.fields |-> ty.fields[i].ty], types, within)
      [] ty.t = "union"  ->
           AnyMedia([i \in DOMAIN ty.options |->
                       IF ty.options[i] \in MediaNames THEN Ty("image") ELSE Ref(ty.options[i])],
                    types, within)
      [] OTHER -> "plain"

\* The types of a shape, in the order they are looked at.
ShapeTypes(shape) ==
    CASE shape.shape = "none"   -> <<>>
      [] shape.shape = "direct" -> <<shape.ty>>
      [] shape.shape = "properties" -> [i \in DOMAIN shape.fields |-> shape.fields[i].ty]
      [] shape.shape = "union"  -> [i \in DOMAIN shape.types |-> Ref(shape.types[i])]

agent_uses_media(file) ==
    AnyMedia(ShapeTypes(file.input) \o ShapeTypes(file.output), file.types, {})

\* The parameters share a scope with the fields of the input and the context.  Their
\* types are not looked up, nor is the result's.
check_workflow(wf, input, context, types) ==
    LET given == CASE input.shape = "properties" -> NamesOf(input.fields)
                   [] input.shape = "direct"     -> <<"input">>
                   [] OTHER                      -> <<>>
    IN /\ Unique(given \o NamesOf(context) \o NamesOf(wf.params))
       /\ \A i \in DOMAIN wf.tools : check_tool(wf.tools[i], types)

check_helper(helper, types) ==
    /\ check_input(helper.input, FALSE, types) /\ check_output(helper.output, types)
    /\ \A i \in DOMAIN helper.tools : check_tool(helper.tools[i], types)
    /\ \A i \in DOMAIN helper.workflows :
          check_workflow(helper.workflows[i], helper.input, <<>>, types)
    /\ helper.models # <<>>

check_agent(file) ==
    /\ Unique(NamesOf(file.tools))
    /\ \A i \in DOMAIN file.tools : check_tool(file.tools[i], file.types)
    /\ \A i \in DOMAIN file.workflows :
          check_workflow(file.workflows[i], file.input, file.context, file.types)
    /\ check_input(file.input, TRUE, file.types) /\ check_output(file.output, file.types)
    /\ check_properties(file.context, file.types)
    /\ \A i \in DOMAIN file.grants : file.grants[i].tools \subseteq Names(file.tools)
    /\ file.protocol = "block" => agent_uses_media(file) # "media"
    /\ file.models # <<>>

\* The declarations have no errors.
check(file) ==
    /\ register_top_level_name(file) /\ check_agent(file)
    /\ \A i \in DOMAIN file.types : check_type_decl(file.types[i], file.types)
    /\ \A i \in DOMAIN file.helpers : check_helper(file.helpers[i], file.types)
    /\ \A i \in DOMAIN file.components : check_component_decl(file.components[i], file)

-----------------------------------------------------------------------------
(* The lowering.                                                           *)

RECURSIVE lower_type_expr_value(_)
Lowered(p) == Obj(<< <<"type", lower_type_expr_value(p.ty)>>,
                     <<"optional", Bool(p.optional)>> >>)
FieldMap(props) == Obj([i \in DOMAIN props |-> <<props[i].name, Lowered(props[i])>>])

lower_type_expr_value(ty) ==
    CASE ty.t \in {"string", "text"} -> Str("string")
      [] ty.t = "array"  -> Obj(<< <<"type", Str("array")>>,
                                   <<"items", lower_type_expr_value(ty.of)>> >>)
      [] ty.t = "object" -> Obj(<< <<"type", Str("object")>>,
                                   <<"properties", FieldMap(ty.fields)>> >>)
      [] ty.t = "ref"    -> Obj(<< <<"type", Str("typeRef")>>, <<"name", Str(ty.name)>> >>)
      [] ty.t = "union"  -> Obj(<< <<"type", Str("union")>>,
                                   <<"options", List([i \in DOMAIN ty.options |->
                                                        Str(ty.options[i])])>> >>)
      [] OTHER -> Str(ty.t)

lower_properties(props) == IF props = <<>> THEN Null ELSE FieldMap(props)

MediaIR(name) == CASE name = "Image" -> "image" [] name = "File" -> "file"
                   [] name = "Audio" -> "audio" [] name = "Video" -> "video"

is_media_input_type(ty) ==
    \/ ty.t \in MediaTypes
    \/ ty.t = "union" /\ Range(ty.options) \subseteq ModalityNames
                      /\ Range(ty.options) \cap MediaNames # {}

lower_media_input_type(ty) ==
    LET isMedia(o) == o \in MediaNames
        media == SelectSeq(ty.options, isMedia)
        isFirst(i) == \A j \in 1..(i - 1) : media[j] # media[i]
        once  == SelectSeq([i \in DOMAIN media |-> i], isFirst)
        lowered == [i \in DOMAIN once |-> Str(MediaIR(media[once[i]]))]
    IN CASE ty.t # "union"    -> Str(ty.t)
         [] Len(lowered) = 1  -> lowered[1]
         [] OTHER -> Obj(<< <<"type", Str("union")>>, <<"options", List(lowered)>> >>)

lower_input(input) ==
    CASE input.shape = "none" -> Null
      [] input.shape = "properties" ->
           Obj(<< <<"kind", Str("properties")>>, <<"fields", lower_properties(input.fields)>> >>)
      [] input.ty.t \in {"string", "text"} -> Null
      [] is_media_input_type(input.ty)     -> lower_media_input_type(input.ty)
      [] OTHER -> Obj(<< <<"kind", Str("direct")>>,
                         <<"type", lower_type_expr_value(input.ty)>> >>)

Variants(names, types) ==
    Obj(<< <<"__variants", Obj([i \in DOMAIN names |->
                                  <<names[i], FieldMap(FieldsOf(types, names[i]))>>])>> >>)

lower_output(output, types) ==
    LET notText(n) == n \notin {"Text", "string"}
        named == SelectSeq(output.types, notText)
    IN CASE output.shape = "none" -> Null
         [] output.shape = "properties" -> lower_properties(output.fields)
         [] output.shape = "union" ->
              IF named = <<>> THEN Null
              ELSE IF Range(named) \subseteq Names(types) THEN Variants(named, types)
              ELSE lower_type_expr_value(Union(named))
         [] output.ty.t \in {"string", "text"} -> Null
         [] output.ty.t = "ref" /\ output.ty.name \in Names(types) ->
              FieldMap(FieldsOf(types, output.ty.name))
         [] OTHER -> Obj(<< <<"type", lower_type_expr_value(output.ty)>> >>)

lower_tool(tool) ==
    [name |-> tool.name, params |-> FieldMap(tool.params),
     returns |-> lower_type_expr_value(tool.returns)]

lower_workflow(wf) ==
    [name |-> wf.name, params |-> FieldMap(wf.params),
     returns |-> lower_type_expr_value(wf.returns),
     tools |-> [i \in DOMAIN wf.tools |-> lower_tool(wf.tools[i])],
     transfers |-> wf.transfers]

lower_intent_decl(decl) ==
    [name |-> decl.name,
     def |-> Obj(<< <<"name", Str(decl.name)>>, <<"description", Str("")>>,
                    <<"fields", lower_properties(decl.fields)>>, <<"examples", List(<<>>)>> >>)]

lower_target(target) ==
    Obj(<< <<"name", Str(target.name)>> >>
        \o IF target.params = <<>> THEN <<>> ELSE << <<"params", FieldMap(target.params)>> >>)

\* Without actions the key is there, with null: the typed IR writes every field.
lower_component(component) ==
    LET targets(i) == component.actions[i].targets
    IN [name |-> component.name, props |-> FieldMap(component.props),
        children |-> component.children,
        action |-> IF component.actions = <<>> THEN Null
                   ELSE Obj([i \in DOMAIN component.actions |->
                              <<component.actions[i].name,
                                List([j \in DOMAIN targets(i) |-> lower_target(targets(i)[j])])>>])]

lower_type_declaration(decl) ==
    [name |-> decl.name,
     def |-> Obj(<< <<"isOutput", Bool(FALSE)>>, <<"properties", FieldMap(decl.fields)>>,
                    <<"@examples", List(<<>>)>> >>)]

lower_helper(helper, types) ==
    [name |-> helper.name, input |-> lower_input(helper.input),
     output |-> lower_output(helper.output, types),
     tools |-> [i \in DOMAIN helper.tools |-> lower_tool(helper.tools[i])],
     workflows |-> [i \in DOMAIN helper.workflows |-> lower_workflow(helper.workflows[i])],
     intents |-> [i \in DOMAIN helper.intents |-> lower_intent_decl(helper.intents[i])],
     models |-> helper.models]

\* Every helper, type and component of the file goes into the IR.
lower(file) ==
    [name |-> file.name, models |-> file.models,
     input |-> lower_input(file.input), output |-> lower_output(file.output, file.types),
     context |-> lower_properties(file.context),
     tools |-> [i \in DOMAIN file.tools |-> lower_tool(file.tools[i])],
     workflows |-> [i \in DOMAIN file.workflows |-> lower_workflow(file.workflows[i])],
     helpers |-> [i \in DOMAIN file.helpers |-> lower_helper(file.helpers[i], file.types)],
     components |-> [i \in DOMAIN file.components |-> lower_component(file.components[i])],
     intents |-> [i \in DOMAIN file.intents |-> lower_intent_decl(file.intents[i])],
     handoff |-> {file.handoff[i] : i \in DOMAIN file.handoff}, grants |-> Range(file.grants),
     types |-> [i \in DOMAIN file.types |-> lower_type_declaration(file.types[i])]]

\* How the compiler ends: with an IR, out of stack on a type that contains itself,
\* or in a panic, since the typed IR cannot read what a transfer is lowered to.
Lowering(file) ==
    CASE file.protocol # "native" /\ agent_uses_media(file) = "endless" -> "overflow"
      [] \E i \in DOMAIN file.workflows : file.workflows[i].transfers # <<>> -> "panic"
      [] \E i \in DOMAIN file.helpers : \E j \in DOMAIN file.helpers[i].workflows :
             file.helpers[i].workflows[j].transfers # <<>> -> "panic"
      [] OTHER -> "ir"
=============================================================================

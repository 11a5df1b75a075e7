---------------------------- MODULE AgentEngine -----------------------------
(***************************************************************************)
(* An engine for a compiled agent or for one of its helpers, and a call    *)
(* that the model makes in it: what the prompt says of a callable, how the *)
(* model may write a call of it, and the arguments that reach the host     *)
(* (auwgent-engine, engine.rs, helper_runner.rs and prompt.rs;             *)
(* auwgent-prompt, intents.rs; auwgent-protocol, orchestrator.rs).         *)
(***************************************************************************)
EXTENDS AgentBindings, NativeCallables

VARIABLES
    engine,    \* the IR the engine was created with
    call       \* the model's call, and what became of it

engineVars == <<engine, call>>

-----------------------------------------------------------------------------
(* The engine.                                                             *)

\* A helper has the tools of its own and those the agent lends it.
build_sub_agent_context(parent, name) ==
    LET helper == CHOOSE h \in Range(parent.helpers) : h.name = name
        lent(tool) == \E g \in parent.grants : g.name = name /\ (g.all \/ tool.name \in g.tools)
    IN [helper EXCEPT !.tools = @ \o SelectSeq(parent.tools, lent)]
         @@ [helpers |-> <<>>, components |-> parent.components, types |-> parent.types]

\* The declared types that a shape mentions, in arrays or only outside them.
RECURSIVE Mentioned(_, _, _, _)
Mentioned(def, inArrays, types, found) ==
    LET tag   == At(def, "type")
        name  == At(def, "name").str
        below == IF StringIs(tag, "array") THEN IF inArrays THEN {At(def, "items")} ELSE {}
                 ELSE {def.obj[k] : k \in Keys(def)}
    IN IF ~StringIs(tag, "typeRef")
         THEN found \cup UNION {Mentioned(d, inArrays, types, found) : d \in below}
       ELSE IF name \in Names(types) \ found
         THEN Mentioned(TypeProperties(types, name), inArrays, types, found \cup {name})
       ELSE found \cup ({name} \cap Names(types))
Endless(def, inArrays, types) ==
    \E name \in Mentioned(def, inArrays, types, {}) :
        name \in Mentioned(TypeProperties(types, name), inArrays, types, {})

Callee(kind, name, shape) == [kind |-> kind, name |-> name, shape |-> shape]
OwnCallables(agent) ==
    {Callee("tool_call", t.name, t.params) : t \in Range(agent.tools)}
      \cup {Callee("workflow_call", w.name, w.params) : w \in Range(agent.workflows)}
      \cup {Callee("helper_call", h.name, h.input) : h \in Range(agent.helpers)}
      \cup {Callee("custom", i.name, At(i.def, "fields")) : i \in Range(agent.intents)}
      \cup {Callee("component", c.name, c.props) : c \in Range(agent.components)}

\* Registering the shape of a record that holds itself never ends.
Crashes(agent) ==
    \/ \E c \in OwnCallables(agent) : Endless(c.shape, FALSE, agent.types)
    \/ Endless(agent.output, FALSE, agent.types)

\* With the schemas of the output.
SchemasOf(agent) ==
    IF Given(agent.output) THEN DOMAIN flatten_output_specs(agent.output, agent.types) ELSE {}
Offered(agent) ==
    OwnCallables(agent) \cup {Callee("schema", n, agent.output) : n \in SchemasOf(agent)}

ComponentOf(c, agent) == CHOOSE component \in Range(agent.components) : component.name = c.name
Events(c, agent) == ComponentOf(c, agent).action
HasChildren(c, agent) == ComponentOf(c, agent).children # <<>>

\* The fields in the signature that the prompt gives.
Signature(c, agent) ==
    CASE c.kind = "helper_call" -> flatten_helper_input_specs(c.shape, agent.types)
      [] c.kind = "schema" -> flatten_output_specs(c.shape, agent.types)[c.name]
      [] OTHER -> flatten_named_field_specs(c.shape, agent.types)

build_component_shape(props, fields, events, withChildren) ==
    LET action(e) == "action_" \o e
    IN [aliases |-> [a \in {action(e) : e \in events} |->
                       <<"action", CHOOSE e \in events : action(e) = a>>]
                    @@ [a \in DOMAIN props |-> <<"props">> \o props[a]],
        template |-> {<< <<"props">> \o t[1], t[2]>> : t \in fields}
                     \cup {<< <<"action", e>>, pending_value>> : e \in events}
                     \cup (IF withChildren THEN {<< <<"children">>, EmptyList>>} ELSE {})]

Template(c, types) ==
    CASE c.kind = "helper_call" -> build_helper_input_template(c.shape, types)
      [] c.kind = "schema"      -> build_output_template(c.shape, c.name, types)
      [] OTHER                  -> build_template_fields(c.shape, types)

\* What the orchestrator registers for a callable: under which aliases its fields are
\* written, and how it looks before they arrive.
Shape(c, agent) ==
    LET shape == [aliases |-> alias_map_from_specs(Signature(c, agent)),
                  template |-> Template(c, agent.types)]
    IN IF c.kind # "component" THEN shape
       ELSE build_component_shape(alias_map_from_specs(flatten_named_field_specs(c.shape, agent.types)),
                                  build_template_fields(c.shape, agent.types),
                                  Keys(Events(c, agent)), HasChildren(c, agent))

-----------------------------------------------------------------------------
(* A call.                                                                 *)

\* Of a component's fields only these reach the intent, and an action without arguments
\* becomes one that has a name.
build_component_intent(fields) ==
    LET bare(leaf) == Len(leaf[1]) = 2 /\ leaf[1][1] = "action" /\ leaf[2] # pending_value
    IN {<<IF bare(leaf) THEN Append(leaf[1], "name") ELSE leaf[1], leaf[2]>> :
          leaf \in {leaf \in fields : leaf[1][1] \in {"props", "action", "children"}}}

IntentOf(c, fields) == IF c.kind = "component" THEN build_component_intent(fields) ELSE fields

\* The model's line for a field, in each of the ways in which it may write one.
Aliased(leaf) == [key |-> <<Joined(leaf[1], "_")>>, value |-> {<< <<>>, leaf[2]>>}]
Dotted(leaf)  == [key |-> leaf[1], value |-> {<< <<>>, leaf[2]>>}]
Nested(args, k) ==
    [key |-> <<k>>, value |-> {<<Tail(leaf[1]), leaf[2]>> : leaf \in {l \in args : l[1][1] = k}}]

\* The lines of an event's action: the arguments of what it calls are not looked up.
EventLine(e, callee, specs) ==
    LET name == <<At(callee, "name").str>>
    IN [key |-> <<"action_" \o e>>,
        value |-> IF specs = <<>> THEN {<< <<>>, name>>}
                  ELSE {<< <<"name">>, name>>}
                         \cup {<< <<"args", s.alias>>, s.path>> : s \in Range(specs)}]
EventLines(events, types) ==
    {EventLine(e, Head(events.obj[e].arr),
               flatten_named_field_specs(At(Head(events.obj[e].arr), "params"), types)) :
       e \in {e \in Keys(events) : events.obj[e].arr # <<>>}}
ChildrenLine == [key |-> <<"children">>, value |-> {<< <<>>, <<"child">> >>}]

Lines(c, agent, args, style) ==
    (CASE style = "alias"  -> {Aliased(leaf) : leaf \in args}
       [] style = "dotted" -> {Dotted(leaf) : leaf \in args}
       [] style = "nested" -> {Nested(args, k) : k \in {leaf[1][1] : leaf \in args}}
       [] style = "example" -> Range(flatten_example_object(args, Signature(c, agent))))
    \cup (IF c.kind # "component" THEN {}
          ELSE EventLines(Events(c, agent), agent.types)
               \cup (IF HasChildren(c, agent) THEN {ChildrenLine} ELSE {}))

EngineInit == BindInit /\ engine = <<>> /\ call = <<>>

\* An SDK is given the IR, with bindings or without; the helper's engine comes after
\* the agent's.
Load(who) ==
    /\ stage = "ir"
    /\ engine' = [name |-> who,
                  ir |-> IF who = file.name THEN ir ELSE build_sub_agent_context(ir, who)]
    /\ stage' = IF Crashes(ir) \/ Crashes(engine'.ir) THEN "crashed" ELSE "loaded"
    /\ UNCHANGED <<file, ir, target, bindings, host, call>>

\* What the author declared of a callable.
Author == IF engine.name = file.name THEN file
          ELSE CHOOSE h \in Range(file.helpers) : h.name = engine.name
AuthorTools ==
    Range(Author.tools) \cup
      {t \in Range(file.tools) : \E g \in Range(file.grants) :
          g.name = engine.name /\ engine.name # file.name /\ (g.all \/ t.name \in g.tools)}

\* The leaves of a field's value.
RECURSIVE Leaves(_, _, _)
Leaves(path, ty, optional) ==
    IF ty.t = "object" \/ (ty.t = "ref" /\ ty.name \in Names(file.types))
      THEN UNION {Leaves(Append(path, f.name), f.ty, optional \/ f.optional) :
                    f \in Range(IF ty.t = "object" THEN ty.fields ELSE FieldsOf(file.types, ty.name))}
      ELSE {[path |-> path, optional |-> optional, type |-> ty]}
LeavesOf(props) == UNION {Leaves(<<p.name>>, p.ty, p.optional) : p \in Range(props)}
LeavesOfShape(shape, name) ==
    CASE shape.shape = "properties" -> LeavesOf(shape.fields)
      [] shape.shape = "none"   -> {[path |-> <<name>>, optional |-> FALSE, type |-> Ty("string")]}
      [] shape.shape = "direct" ->
           LET inside == Leaves(<<>>, shape.ty, FALSE)
           IN {IF leaf.path = <<>> THEN [leaf EXCEPT !.path = <<name>>] ELSE leaf : leaf \in inside}
      [] shape.shape = "union"  -> LeavesOf(FieldsOf(file.types, name))

DeclaredLeaves(c) ==
    LET of(decls) == CHOOSE d \in decls : d.name = c.name
    IN CASE c.kind = "tool_call"     -> LeavesOf(of(AuthorTools).params)
         [] c.kind = "workflow_call" -> LeavesOf(of(Range(Author.workflows)).params)
         [] c.kind = "helper_call"   -> LeavesOfShape(of(Range(file.helpers)).input, "input")
         [] c.kind = "custom"        -> LeavesOf(of(Range(Author.intents)).fields)
         [] c.kind = "component"     -> LeavesOf(of(Range(file.components)).props)
         [] c.kind = "schema"        -> LeavesOfShape(Author.output, c.name)

\* The model gives the fields it chooses to, which may be null where they are optional;
\* the parsed block is a hash map, and gives its fields in any order.
Call(c, args, style) ==
    /\ stage = "loaded"
    /\ stage' = "called"
    /\ \E lines \in SetToSeqs(Lines(c, engine.ir, args, style)), shape \in {Shape(c, engine.ir)} :
        \E given \in {unflatten_object(lines, shape.aliases)} :
          call' = [callee |-> c, args |-> args, style |-> style, received |-> IntentOf(c, given),
                   snapshot |-> IntentOf(c, merge_template(shape.template, given))]
    /\ UNCHANGED <<file, ir, target, bindings, host, engine>>

Value(leaf) == <<leaf.path, leaf.path>>
NoValue(leaf) == <<leaf.path, <<>> >>
Arguments(c) ==
    LET leaves == DeclaredLeaves(c)
        demanded == {leaf \in leaves : ~leaf.optional}
    IN {{Value(leaf) : leaf \in leaves}, {Value(leaf) : leaf \in demanded},
        {Value(leaf) : leaf \in demanded} \cup {NoValue(leaf) : leaf \in leaves \ demanded}}

EngineNext ==
    \/ BindNext /\ UNCHANGED engineVars
    \/ \E who \in {file.name} \cup Names(file.helpers) : Load(who)
    \/ stage = "loaded" /\ \E c \in Offered(engine.ir), style \in {"alias", "dotted", "nested", "example"} :
          \E args \in Arguments(c) : Call(c, args, style)

EngineSpec == EngineInit /\ [][EngineNext]_<<bindingVars, engineVars>>

-----------------------------------------------------------------------------
(* Properties.                                                             *)

\* A type once its names are looked up: the prompt has a union's options in lower case and
\* names a record inside itself; a schema says of an unknown type that it is an object.
RECURSIVE Meaning(_, _, _)
Meaning(ty, inPrompt, within) ==
    LET fields(props, names) ==
            Object({<<f.name, Meaning(f.ty, inPrompt, names)>> : f \in Range(props)})
        option(o) == Ty(IF inPrompt THEN normalize_type_name(o) ELSE o)
    IN CASE ty.t = "array"  -> Array(Meaning(ty.of, inPrompt, within))
         [] ty.t = "object" -> fields(ty.fields, within)
         [] ty.t = "union"  -> Union([i \in DOMAIN ty.options |-> option(ty.options[i])])
         [] ty.t = "text"   -> Ty("string")
         [] ty.t = "ref" /\ ty.name \in Names(file.types) \ within ->
              fields(FieldsOf(file.types, ty.name), within \cup {ty.name})
         [] ty.t = "ref" /\ ~inPrompt -> Ty("object")
         [] OTHER -> ty

\* A function's schema in the same terms.
RECURSIVE SchemaType(_)
SchemaType(schema) ==
    IF "enum" \in DOMAIN schema THEN Union([i \in DOMAIN schema.enum |-> Ty(schema.enum[i])])
    ELSE IF "items" \in DOMAIN schema THEN Array(SchemaType(schema.items))
    ELSE IF "fields" \in DOMAIN schema
      THEN Object({<<k, SchemaType(schema.fields[k])>> : k \in DOMAIN schema.fields})
    ELSE Ty(schema.type)

AdmitsNull(schema) == "nullable" \in DOMAIN schema /\ "enum" \notin DOMAIN schema
RECURSIVE SchemaLeaves(_, _, _)
SchemaLeaves(path, schema, optional) ==
    IF "fields" \in DOMAIN schema
      THEN UNION {SchemaLeaves(Append(path, k), schema.fields[k],
                               optional \/ AdmitsNull(schema.fields[k])) : k \in schema.required}
      ELSE {[path |-> path, optional |-> optional, type |-> SchemaType(schema)]}

Prefix(kind) == CASE kind = "tool_call"     -> "tool_"
                  [] kind = "workflow_call" -> "workflow_"
                  [] kind = "helper_call"   -> "helper_"
FunctionSchema(c, agent) ==
    IF c.kind = "schema" THEN build_output_schemas(agent.output, agent.types)[c.name]
    ELSE LET entry == CHOOSE e \in Range(build(agent)) : e.name = Prefix(c.kind) \o c.name
         IN entry.input_schema

\* Where the engine reads a shape as its author wrote it: a field called type, or an
\* input or output that is not a record, has the keys of the IR's own.
ReadAsWritten(c) ==
    LET shape == CASE c.kind = "schema" -> Author.output
                   [] c.kind = "helper_call" ->
                        (CHOOSE h \in Range(file.helpers) : h.name = c.name).input
                   [] OTHER -> NoShape
        isRecord(ty) == ty.t = "object" \/ (ty.t = "ref" /\ ty.name \in Names(file.types))
    IN /\ \A leaf \in DeclaredLeaves(c) : Head(leaf.path) # "type" \/ c.kind # "schema"
       /\ \A leaf \in DeclaredLeaves(c) : Head(leaf.path) # "type" \/ Len(leaf.path) = 1
       /\ shape.shape = "direct" =>
             \/ isRecord(shape.ty)
             \/ c.kind = "helper_call" /\ ~is_media_input_type(shape.ty)
       /\ c.kind = "tool_call" => \A t, u \in AuthorTools : t.name = u.name => t = u

\* No two fields are spelled alike once their names are joined.
SpelledOnce(c) ==
    \A k, l \in DeclaredLeaves(c) : Joined(k.path, "_") = Joined(l.path, "_") => k = l

\* Whichever way the model writes a call that the prompt describes, and in whatever
\* order the block's fields come out of the parser, the host is handed each value under
\* the path that the author declared; and what it was shown of the call while that was
\* being written has every field of the shape, filled in or pending.
ArgumentsArrive ==
    LET c == call.callee
        under(path) == IF c.kind = "component" THEN <<"props">> \o path ELSE path
        pending(leaf) == IF leaf.type.t = "array" THEN EmptyList ELSE pending_value
        filled == {arg \in call.args : arg[2] # <<>>}
        Own(fields) == {leaf \in fields : c.kind = "component" => leaf[1][1] = "props"}
    IN stage = "called" /\ ReadAsWritten(c)
         /\ (SpelledOnce(c) \/ call.style = "example")
         /\ (c.kind = "component" => call.style \in {"alias", "example"}) =>
           /\ Own(call.received) = {<<under(arg[1]), arg[2]>> : arg \in call.args}
           /\ Own(call.snapshot) =
                 {<<under(arg[1]), arg[2]>> : arg \in filled}
                   \cup {<<under(leaf.path), pending(leaf)>> :
                           leaf \in {leaf \in DeclaredLeaves(c) : leaf.path \notin {arg[1] : arg \in filled}}}

\* The prompt and the native functions ask for the same fields of every callable: those
\* its author declared, optional where they are optional and of the same types.  A
\* function for a record that holds itself has no end, and an optional choice of names
\* is not optional in it.
OffersAgree ==
    stage = "loaded" =>
      \A c \in {c \in Offered(engine.ir) : ReadAsWritten(c)} :
        LET leaves == DeclaredLeaves(c)
            meant(inPrompt) == {[leaf EXCEPT !.type = Meaning(@, inPrompt, {})] : leaf \in leaves}
        IN /\ {[path |-> s.path, optional |-> s.optional, type |-> s.type] :
                  s \in Range(Signature(c, engine.ir))} = meant(TRUE)
           /\ \/ c.kind \in {"custom", "component"} \/ Endless(c.shape, TRUE, engine.ir.types)
              \/ \E leaf \in leaves : leaf.optional /\ leaf.type.t = "union"
              \/ {leaf \in SchemaLeaves(<<>>, FunctionSchema(c, engine.ir), FALSE) :
                    leaf.path # <<"__variant">>} = meant(FALSE)
=============================================================================

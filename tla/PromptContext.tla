---------------------------- MODULE PromptContext ----------------------------
(***************************************************************************)
(* An agent's prompt and its context: the prompt's source, its check       *)
(* (auwgent-checker, prompts.rs) and its lowering (auwgent-ir), the system *)
(* prompt that the evaluator makes of it, in which the context's fields    *)
(* are symbols, and the block that tells the model what the symbols stand  *)
(* for at every call (auwgent-engine, prompt.rs and runtime_loop.rs).      *)
(*                                                                         *)
(* A text is the sequence of its pieces: literals, symbols, and values     *)
(* shown.  White space, indentation and the intents' part are left out.    *)
(***************************************************************************)
EXTENDS WorkflowRun

CONSTANTS
    PromptFiles,  \* [prompt, named : name -> [params, body], native, hooks]
    Settings,     \* what a host sets the context to: name -> value
    SymbolName,   \* a context key as the binding block spells it: key -> name
    MaxSets,      \* bound: times the context is set
    MaxCalls      \* bound: model calls

VARIABLES
    file,     \* the file
    ir,       \* the agent's prompt in the IR
    at,       \* where the compiler or the engine is
    context,  \* the engine's context: field -> value
    system,   \* the session's system prompt, and the context it was made for
    keys,     \* binding_context_keys, and the context they were found for
    sent,     \* what the last model call was told, and the context it was sent in
    sets, calls

promptVars == <<file, ir, at, context, system, keys, sent, sets, calls>>

-----------------------------------------------------------------------------
(* The source: besides the expressions of workflows, templates with their  *)
(* tags, blocks of prompts, and examples.                                  *)

Template(parts)         == [e |-> "template", parts |-> parts]
Tag(path)               == [e |-> "tag", path |-> path]
TagIf(cond, then, else) == [e |-> "inlineIf", cond |-> cond, then |-> then, orelse |-> else]
SchemaTag(schema)       == [e |-> "schemaDirective", schema |-> schema]
InlinePrompt(parts)     == [e |-> "inlinePrompt", parts |-> parts]
PromptBlock(parts)      == [e |-> "block", parts |-> parts]
Example(messages)       == [e |-> "promptExamples", messages |-> messages]

IsStatement(node) == IsKind(node, "s")

-----------------------------------------------------------------------------
(* The checker.                                                            *)

ConditionRefs(cond) ==
    {o.path : o \in {o \in (IF cond.c = "boolean" THEN {cond.value} ELSE {cond.left, cond.right}) :
                       o.e = "tag"}}

\* In a template of a named prompt only its parameters have names.
RECURSIVE CheckTemplateVars(_, _)
CheckTemplateVars(parts, params) ==
    \A part \in Range(parts) :
        CASE part.e = "literal"         -> TRUE
          [] part.e = "tag"             -> part.path \in {<<p>> : p \in params}
          [] part.e = "schemaDirective" -> part.schema \in {"input", "output"}
          [] part.e = "inlineIf" ->
               /\ \A ref \in ConditionRefs(part.cond) : Head(ref) \in params
               /\ CheckTemplateVars(part.then, params) /\ CheckTemplateVars(part.orelse, params)

\* Of its body only the templates are looked at.
CheckNamedPrompt(p) ==
    LET names == [i \in DOMAIN p.params |-> p.params[i].name]
    IN /\ IsInjective(names)
       /\ \A part \in Range(p.body) :
            ~IsStatement(part) /\ part.e = "template" => CheckTemplateVars(part.parts, Range(names))

\* A prompt used as an expression: with arguments of its parameters' types.
RECURSIVE InferPrompt(_, _, _)
InferPrompt(x, named, env) ==
    LET infer(y) == InferPrompt(y, named, env)
    IN CASE x.e \in {"template", "inlinePrompt"} -> Inferred(TText, TRUE)
         [] x.e = "varRef" /\ x.name \in DOMAIN named \ DOMAIN env ->
              Inferred(TText, named[x.name].params = <<>>)
         [] x.e = "functionCall" /\ x.callee \in DOMAIN named ->
              LET args == [i \in DOMAIN x.args |-> infer(x.args[i])]
              IN Inferred(TText, /\ Len(args) = Len(named[x.callee].params) /\ AllOk(args)
                                 /\ CheckCallArgs(TypesOf(args), named[x.callee].params))
         [] x.e = "binaryOp" -> Inferred(TText, infer(x.left).ok /\ infer(x.right).ok)
         [] OTHER -> InferExpression(x, env)

\* In a block the context's fields are texts that have their bare names.
CheckPrompt(f) ==
    /\ \A name \in DOMAIN f.named : CheckNamedPrompt(f.named[name])
    /\ IF f.prompt.e = "block"
       THEN \A part \in Range(f.prompt.parts) :
              InferPrompt(part, f.named, [n \in DOMAIN Context |-> TText]).ok
       ELSE InferPrompt(f.prompt, f.named, <<>>).ok

-----------------------------------------------------------------------------
(* The lowering: a named prompt is put where it is used.                   *)

\* The prompts the lowering of an expression goes into: not those in the
\* arguments, nor those in the arms of a statement.
RECURSIVE GoesInto(_, _)
GoesInto(x, named) ==
    CASE IsStatement(x) -> {}
      [] x.e = "varRef" -> {x.name} \cap DOMAIN named
      [] x.e = "functionCall" -> {x.callee} \cap DOMAIN named
      [] x.e = "binaryOp" -> GoesInto(x.left, named) \cup GoesInto(x.right, named)
      [] x.e \in {"inlinePrompt", "block"} -> UNION {GoesInto(p, named) : p \in Range(x.parts)}
      [] OTHER -> {}

RECURSIVE PromptsBelow(_, _)
PromptsBelow(names, named) ==
    LET all == names \cup UNION {GoesInto(p, named) : p \in UNION {Range(named[n].body) : n \in names}}
    IN IF all = names THEN names ELSE PromptsBelow(all, named)

\* A prompt in itself has no end.
NeverEnds(f) ==
    \E n \in PromptsBelow(GoesInto(f.prompt, f.named), f.named) :
        n \in PromptsBelow(UNION {GoesInto(p, f.named) : p \in Range(f.named[n].body)}, f.named)

lower_template_reference(path) == IF Len(path) = 1 THEN Var(Head(path)) ELSE Member(Head(path), Tail(path))

lower_template_condition(cond) ==
    LET operand(o) == IF o.e = "tag" THEN lower_template_reference(o.path) ELSE o
    IN IF cond.c = "boolean" THEN [cond EXCEPT !.value = operand(@)]
       ELSE [cond EXCEPT !.left = operand(@), !.right = operand(@)]

RECURSIVE parse_template_segments(_)
parse_template_segments(parts) ==
    [i \in DOMAIN parts |->
       CASE parts[i].e = "tag" -> lower_template_reference(parts[i].path)
         [] parts[i].e = "inlineIf" ->
              TagIf(lower_template_condition(parts[i].cond), parse_template_segments(parts[i].then),
                    parse_template_segments(parts[i].orelse))
         [] OTHER -> parts[i]]

\* A user's message without an answer is lost.
lower_prompt_example_block(messages) ==
    LET next(pairs, m) == IF m.role = "user" THEN [pairs EXCEPT !.user = m.text]
                          ELSE [user |-> "", done |-> Append(pairs.done, <<pairs.user, m.text>>)]
    IN Example(FoldLeft(next, [user |-> "", done |-> <<>>], messages).done)

\* Values: in arguments, and in the arms of statements.
RECURSIVE LowerValue(_)
LowerValue(x) ==
    CASE x.e = "template" -> Template(parse_template_segments(x.parts))
      [] x.e = "binaryOp" -> [x EXCEPT !.left = LowerValue(@), !.right = LowerValue(@)]
      [] OTHER -> LowerExpression(x)

RECURSIVE LowerArm(_)
LowerArm(stmts) ==
    [i \in DOMAIN stmts |->
       IF stmts[i].s = "if"
       THEN If(LowerCondition(stmts[i].cond), LowerArm(stmts[i].then), LowerArm(stmts[i].orelse))
       ELSE [stmts[i] EXCEPT !.value = LowerValue(@)]]

PromptRef(p, args, parts) ==
    [e |-> "promptRef", params |-> [i \in DOMAIN p.params |-> p.params[i].name],
     args |-> args, parts |-> parts]

RECURSIVE lower_prompt_expr(_, _), lower_prompt_statement(_, _)
lower_prompt_statement(part, named) ==
    CASE IsStatement(part) -> LowerArm(<<part>>)[1]
      [] ~IsStatement(part) /\ part.e = "promptExamples" -> lower_prompt_example_block(part.messages)
      [] OTHER -> lower_prompt_expr(part, named)

lower_prompt_expr(x, named) ==
    LET all(parts) == [i \in DOMAIN parts |-> lower_prompt_statement(parts[i], named)]
    IN CASE x.e = "varRef" /\ x.name \in DOMAIN named ->
              PromptRef(named[x.name], <<>>, all(named[x.name].body))
         [] x.e = "functionCall" /\ x.callee \in DOMAIN named ->
              PromptRef(named[x.callee], [i \in DOMAIN x.args |-> LowerValue(x.args[i])],
                        all(named[x.callee].body))
         [] x.e = "binaryOp" -> Plus(lower_prompt_expr(x.left, named), lower_prompt_expr(x.right, named))
         [] x.e = "inlinePrompt" -> InlinePrompt(all(x.parts))
         [] x.e = "block" -> PromptBlock(all(x.parts))
         [] OTHER -> LowerValue(x)

-----------------------------------------------------------------------------
(* evaluate_prompt_with_context_symbols: the value, the scope after it,    *)
(* and the fields of the context it has made symbols of.                   *)

Rendering(v, sc, used) == [value |-> v, scope |-> sc, used |-> used]

context_symbol(path) == [symbol |-> path]

\* The pieces of a value in a text; a prompt used in another keeps only texts.
Pieces(v) ==
    CASE IsKind(v, "pieces") -> v.pieces
      [] v = Null -> <<>>
      [] OTHER -> <<v>>
IsText(v) == ~\E kind \in {"num", "bool", "obj", "list", "null"} : IsKind(v, kind)
TextPieces(v) == IF IsText(v) THEN Pieces(v) ELSE <<>>

RECURSIVE RenderPrompt(_, _), RenderParts(_, _)

\* What was evaluated as one text, and what a prompt in a prompt gives.
Together(all) ==
    Rendering(IF all.failed THEN Failure
              ELSE [pieces |-> FlattenSeq([i \in DOMAIN all.values |-> Pieces(all.values[i])])],
              all.scope, all.used)
TextsOnly(all) == Together([all EXCEPT !.values = [i \in DOMAIN @ |-> [pieces |-> TextPieces(@[i])]]])

\* Parts that are not all texts make a list, which is no prompt.
TogetherOrList(all) ==
    IF all.failed \/ \A i \in DOMAIN all.values : IsText(all.values[i]) THEN Together(all)
    ELSE Rendering(List(all.values), all.scope, all.used)

\* The last value of an arm.
LastOf(all) ==
    Rendering(IF all.failed THEN Failure ELSE IF all.values = <<>> THEN Null ELSE Last(all.values),
              all.scope, all.used)

NoParts(sc) == [values |-> <<>>, scope |-> sc, used |-> {}, failed |-> FALSE]
BeforeParts(first, others) ==
    [others EXCEPT !.values = <<first.value>> \o @, !.used = first.used \cup @,
                   !.failed = first.value = Failure \/ @]

\* The arm of a condition, which is decided on the context's values and uses no symbol.
RenderArm(test, x, sc) ==
    IF test = Failure THEN [NoParts(sc) EXCEPT !.failed = TRUE]
    ELSE RenderParts(IF test = Bool(TRUE) THEN x.then ELSE x.orelse, sc)

\* Mutant: a condition's arm is not looked at for symbols.
RenderInlineIfUntracked(x, sc) ==
    [Together(RenderArm(EvaluateCondition(x.cond, sc).value, x, sc)) EXCEPT !.used = {}]

RenderInlineIf(x, sc) == Together(RenderArm(EvaluateCondition(x.cond, sc).value, x, sc))

RenderLet(given, stmt, sc) == [given EXCEPT !.scope = Set(sc, stmt.name, given.value)]

RenderStatement(stmt, sc) ==
    CASE stmt.s = "if"     -> LastOf(RenderArm(EvaluateCondition(stmt.cond, sc).value, stmt, sc))
      [] stmt.s = "return" -> RenderPrompt(stmt.value, sc)
      [] stmt.s = "let"    -> RenderLet(RenderPrompt(stmt.value, sc), stmt, sc)

\* The scope with the parameters that are given.
WithParams(params, values, sc) ==
    [p \in {params[i] : i \in DOMAIN params \cap DOMAIN values} |->
       values[CHOOSE i \in DOMAIN params : params[i] = p]] @@ sc

\* What is outside of the prompt keeps its scope.
BackIn(rendering, args, sc) ==
    Rendering(IF args.failed THEN Failure ELSE rendering.value, sc, args.used \cup rendering.used)

\* Mutant: an argument is evaluated where the parameters before it are in scope.
RenderPromptRefInside(x, sc) ==
    LET bind(inner, i) ==
          IF i \in DOMAIN x.args THEN Set(inner, x.params[i], RenderPrompt(x.args[i], inner).value) ELSE inner
    IN BackIn(TextsOnly(RenderParts(x.parts, FoldLeft(bind, sc, [i \in DOMAIN x.params |-> i]))),
              RenderParts(x.args, sc), sc)

\* The parameters are added to the scope where the prompt is used.
RenderBody(x, args, sc) ==
    BackIn(TextsOnly(RenderParts(x.parts, WithParams(x.params, args.values, sc))), args, sc)
RenderPromptRef(x, sc) == RenderBody(x, RenderParts(x.args, sc), sc)

RenderRest(first, rest) == BeforeParts(first, RenderParts(rest, first.scope))
RenderParts(parts, sc) ==
    IF parts = <<>> THEN NoParts(sc)
    ELSE RenderRest(IF IsStatement(Head(parts)) THEN RenderStatement(Head(parts), sc)
                    ELSE RenderPrompt(Head(parts), sc), Tail(parts))

RenderPrompt(x, sc) ==
    CASE x.e = "contextRef" -> Rendering(context_symbol(<<x.property>>), sc, {x.property})
      [] x.e = "memberAccess" /\ x.object \in {"ctx", "context"} ->
           Rendering(context_symbol(x.path), sc, {Head(x.path)})
      [] x.e = "template"     -> Together(RenderParts(x.parts, sc))
      [] x.e = "inlinePrompt" -> TogetherOrList(RenderParts(x.parts, sc))
      [] x.e = "binaryOp"     -> Together(RenderParts(<<x.left, x.right>>, sc))
      [] x.e = "inlineIf"     -> RenderInlineIf(x, sc)
      [] x.e = "promptRef"    -> RenderPromptRef(x, sc)
      [] x.e = "schemaDirective" ->
           Rendering(IF x.schema \in {"input", "output", "context"} THEN [schema |-> x.schema] ELSE Failure, sc, {})
      [] x.e = "promptExamples" -> Rendering([examples |-> x.messages], sc, {})
      [] OTHER -> Rendering(Evaluate(x, sc).value, sc, {})

\* The block form is no expression of the IR.
generate_main_prompt(x, fields) ==
    IF x.e = "block" THEN Rendering(Failure, <<>>, {})
    ELSE RenderPrompt(x, [context |-> Obj(fields), ctx |-> Obj(fields)])

-----------------------------------------------------------------------------
(* The binding block.                                                      *)

is_empty_binding_value(v) == v \in {Null, Text(""), List(<<>>), Obj(<<>>)}

Line(section, key, v) == [section |-> section, name |-> SymbolName[key], value |-> v]

\* Every field that is not empty, apart the ones the prompt has symbols of.
render_binding_block(fields, used) ==
    {Line(IF key \in used THEN "binding" ELSE "injected_context", key, fields[key]) :
       key \in {key \in DOMAIN fields : ~is_empty_binding_value(fields[key])}}

-----------------------------------------------------------------------------
(* The steps.                                                              *)

Nothing == [nothing |-> {}]

PromptInit ==
    /\ file \in PromptFiles
    /\ ir = Nothing /\ at = "source" /\ context = <<>>
    /\ system = Nothing /\ keys = [used |-> {}, for |-> <<>>] /\ sent = Nothing
    /\ sets = 0 /\ calls = 0

\* The lowering is done whatever the checker said.
CompilePrompt ==
    /\ at = "source"
    /\ at' = CASE NeverEnds(file)     -> "crashed"
               [] ~NeverEnds(file) /\ ~CheckPrompt(file) -> "rejected"
               [] OTHER -> "idle"
    /\ ir' = IF NeverEnds(file) THEN Nothing ELSE lower_prompt_expr(file.prompt, file.named)
    /\ UNCHANGED <<file, context, system, keys, sent, sets, calls>>

Created == at \in {"idle", "run_start", "llm_start", "asking", "failed"}

\* At the start, by a hook, by a tool, or whenever else the host likes.
set_context(incoming) ==
    /\ Created /\ sets < MaxSets
    /\ context' = incoming @@ context
    /\ sets' = sets + 1
    /\ UNCHANGED <<file, ir, at, system, keys, sent, calls>>

\* generate_prompt, and set_system_prompt: an error ends the run.
Prompted(next) ==
    \E made \in {generate_main_prompt(ir, context)} :
        IF made.value = Failure THEN at' = "failed" /\ UNCHANGED <<system, keys>>
        ELSE /\ at' = next
             /\ system' = [pieces |-> TextPieces(made.value), for |-> context]
             /\ keys' = [used |-> made.used, for |-> context]

StartRun ==
    /\ at \in {"idle", "failed"} /\ calls < MaxCalls
    /\ Prompted(IF file.hooks THEN "run_start" ELSE "asking")
    /\ UNCHANGED <<file, ir, context, sent, sets, calls>>

\* After the run_start hook, and after the llm_start hook before the first call.
HookAnswered ==
    /\ at \in {"run_start", "llm_start"}
    /\ Prompted(IF at = "run_start" THEN "llm_start" ELSE "asking")
    /\ UNCHANGED <<file, ir, context, sent, sets, calls>>

CallModel ==
    /\ at = "asking" /\ calls < MaxCalls
    /\ sent' = [pieces |-> system.pieces, context |-> context,
                current |-> keys.for = system.for,
                lines |-> IF file.native THEN {} ELSE render_binding_block(context, keys.used)]
    /\ calls' = calls + 1
    /\ UNCHANGED <<file, ir, at, context, system, keys, sets>>

\* export_session, of the host's or at the end of the run: the exported prompt is
\* new and the session's is not, but the keys are those of the new one.
Exported ==
    \E made \in {generate_main_prompt(ir, context)} :
        keys' = IF made.value = Failure THEN keys ELSE [used |-> made.used, for |-> context]

ExportSession ==
    /\ Created /\ Exported
    /\ UNCHANGED <<file, ir, at, context, system, sent, sets, calls>>

EndRun ==
    /\ at = "asking" /\ calls > 0
    /\ at' = "idle" /\ Exported
    /\ UNCHANGED <<file, ir, context, system, sent, sets, calls>>

PromptNext ==
    \/ CompilePrompt \/ StartRun \/ HookAnswered \/ CallModel \/ ExportSession \/ EndRun
    \/ \E incoming \in Settings : set_context(incoming)
=============================================================================

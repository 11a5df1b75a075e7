---------------------------- MODULE PromptMeaning ----------------------------
(***************************************************************************)
(* What the source of a prompt says, against what the engine makes of it:  *)
(* the text with the context's fields as symbols, and where the source is  *)
(* outside of what the code gets right (sure is FALSE): a condition on a   *)
(* parameter that is given from the context, on a field that is not there  *)
(* or on no truth value, a let, a return that is not last, a prompt in the *)
(* arm of a statement or in a block, an unknown name.                      *)
(***************************************************************************)
EXTENDS PromptContext

Says(text, sure) == [text |-> text, sure |-> sure]
Unsure == Says(<<>>, FALSE)
All(ms) == Says(FlattenSeq([i \in DOMAIN ms |-> ms[i].text]), \A i \in DOMAIN ms : ms[i].sure)

\* A parameter is its argument's text, and a value where the argument is one.
ValueOf(o, env, fields) ==
    CASE o.e = "literal"    -> o.value
      [] o.e = "contextRef" -> Field(Obj(fields), <<o.property>>)
      [] o.e = "tag" /\ Head(o.path) = "ctx" -> Field(Obj(fields), Tail(o.path))
      [] o.e = "tag" /\ o.path \in {<<p>> : p \in DOMAIN env} -> env[Head(o.path)].value
      [] o.e = "varRef" /\ o.name \in DOMAIN env -> env[o.name].value
      [] OTHER -> Failure

\* The truth of a condition, or Failure.
RECURSIVE Truth(_, _, _)
Truth(cond, env, fields) ==
    LET l == ValueOf(cond.left, env, fields)
        r == ValueOf(cond.right, env, fields)
        one == ValueOf(cond.value, env, fields)
        both == {Truth(cond.left, env, fields), Truth(cond.right, env, fields)}
    IN CASE cond.c = "boolean" -> IF IsKind(one, "bool") THEN one ELSE Failure
         [] cond.c = "comparison" ->
              IF Failure \in {l, r} \/ (cond.op \in {"<", ">"} /\ ~(IsKind(l, "num") /\ IsKind(r, "num")))
              THEN Failure ELSE Bool(Comparison(cond.op, l, r))
         [] cond.c = "logical" ->
              IF Failure \in both THEN Failure
              ELSE IF cond.op = "&&" THEN Bool(Bool(FALSE) \notin both) ELSE Bool(Bool(TRUE) \in both)

RECURSIVE TextOf(_, _, _), TextOfArm(_, _, _)

Chosen(part, env, fields) == IF Truth(part.cond, env, fields) = Bool(TRUE) THEN part.then ELSE part.orelse

TextOfPrompt(p, args, env, fields) ==
    LET given == [i \in DOMAIN args |->
                    IF args[i].e \in {"literal", "contextRef", "template"}
                       \/ (args[i].e = "varRef" /\ args[i].name \in DOMAIN env)
                    THEN TextOf(args[i], env, fields) ELSE Unsure]
        inner == [name \in {p.params[i].name : i \in DOMAIN args} |->
                    LET i == CHOOSE i \in DOMAIN args : p.params[i].name = name
                    IN [text |-> given[i].text, value |-> ValueOf(args[i], env, <<>>)]]
    IN IF Len(args) # Len(p.params) THEN Unsure
       ELSE [All([i \in DOMAIN p.body |->
                    IF IsStatement(p.body[i]) THEN TextOfArm(<<p.body[i]>>, inner, fields)
                    ELSE TextOf(p.body[i], inner, fields)])
             EXCEPT !.sure = @ /\ (\A i \in DOMAIN given : given[i].sure)
                               /\ \A i \in DOMAIN p.body :
                                    IsStatement(p.body[i]) => p.body[i].s = "if" \/ i = Len(p.body)]

\* The statements of an arm: nothing, one return, or one more if.
TextOfArm(stmts, env, fields) ==
    CASE stmts = <<>> -> Says(<<>>, TRUE)
      [] Len(stmts) = 1 /\ Head(stmts).s = "return" ->
           IF Head(stmts).value.e \in {"literal", "template", "contextRef"}
           THEN TextOf(Head(stmts).value, env, fields) ELSE Unsure
      [] Len(stmts) = 1 /\ Head(stmts).s = "if" ->
           [TextOfArm(Chosen(Head(stmts), env, fields), env, fields)
             EXCEPT !.sure = @ /\ Truth(Head(stmts).cond, env, fields) # Failure]
      [] OTHER -> Unsure

TextOf(x, env, fields) ==
    LET all(parts) == All([i \in DOMAIN parts |-> TextOf(parts[i], env, fields)])
        \* a parameter of the prompt this one is used in is not in its text
        here(name) == IF name \in DOMAIN env THEN Says(env[name].text, TRUE) ELSE Unsure
    IN CASE x.e = "literal"    -> Says(<<x.value>>, TRUE)
         [] x.e = "contextRef" -> Says(<<context_symbol(<<x.property>>)>>, TRUE)
         [] x.e = "tag" ->
              IF Head(x.path) = "ctx" THEN Says(<<context_symbol(Tail(x.path))>>, Len(x.path) > 1)
              ELSE IF Len(x.path) = 1 THEN here(Head(x.path)) ELSE Unsure
         [] x.e = "varRef" ->
              IF x.name \in DOMAIN file.named THEN TextOfPrompt(file.named[x.name], <<>>, env, fields)
              ELSE here(x.name)
         [] x.e = "functionCall" ->
              IF x.callee \in DOMAIN file.named
              THEN TextOfPrompt(file.named[x.callee], x.args, env, fields) ELSE Unsure
         [] x.e = "binaryOp"     -> all(<<x.left, x.right>>)
         [] x.e \in {"template", "inlinePrompt"} -> all(x.parts)
         [] x.e = "inlineIf" ->
              [all(Chosen(x, env, fields)) EXCEPT !.sure = @ /\ Truth(x.cond, env, fields) # Failure]
         [] x.e = "schemaDirective" -> Says(<<[schema |-> x.schema]>>, TRUE)
         [] x.e = "promptExamples" ->
              LET ms == x.messages
              IN Says(<<[examples |-> [i \in 1..Len(ms) \div 2 |-> <<ms[2 * i - 1].text, ms[2 * i].text>>]]>>,
                      \A i \in DOMAIN ms : ms[i].role = IF i % 2 = 1 THEN "user" ELSE "assistant")
         [] OTHER -> Unsure

Meant == TextOf(file.prompt, [n \in {} |-> 0], context)

-----------------------------------------------------------------------------
(* Properties.                                                             *)

\* Whenever the system prompt is made, it is what the source says under the context of
\* that moment: each named prompt with its own arguments wherever it is used, the arms
\* that its conditions choose on the context's values, in the order written; and making
\* it fails only where the source is outside of what the module's head says
\* (lower_prompt_expr and evaluate_prompt_with_context_symbols).
PromptAsWritten ==
    [][\/ (at' = "failed" => at = "failed") /\ system' = system
       \/ \E meant \in {Meant} :
            meant.sure => at' # "failed" /\ (system' # system => system'.pieces = meant.text)]_promptVars

Spelled(path) == IF Len(path) = 1 THEN Head(path) ELSE Head(path) \o "_" \o path[2]

\* At every call of a model that speaks blocks, each symbol of the system prompt that is
\* one plain field, not empty, is told with the value it has in the context now, however
\* often the context was set since the prompt was made; as a binding, unless the host
\* exported the session meanwhile.  No symbol is told with the value of another field,
\* unless the two are spelled alike (render_binding_block against context_symbol).
SymbolsAreTold ==
    sent # Nothing /\ ~file.native =>
        \A path \in {piece.symbol : piece \in {p \in Range(sent.pieces) : IsKind(p, "symbol")}} :
            LET now == Field(Obj(sent.context), path)
                plain == path \in {<<key>> : key \in {key \in DOMAIN SymbolName : SymbolName[key] = key}}
                told == {line \in sent.lines : line.name = Spelled(path)}
                alike == {key \in DOMAIN sent.context : SymbolName[key] = Spelled(path)}
            IN /\ plain /\ now # Failure /\ ~is_empty_binding_value(now) =>
                     \E line \in told : /\ line.value = now
                                        /\ sent.current => line.section = "binding"
               /\ alike \subseteq {Head(path)} /\ Len(path) = 1 => \A line \in told : line.value = now
=============================================================================

----------------------------- MODULE WorkflowRun -----------------------------
(***************************************************************************)
(* A workflow call from its source to its result: check, lowering, and     *)
(* execute_workflow (auwgent-engine, execution/workflows.rs) which gives   *)
(* the statements of the body to the evaluator (auwgent-evaluator,         *)
(* evaluator.rs) one after the other.                                      *)
(*                                                                         *)
(* The evaluator is synchronous: what a statement computes depends on the  *)
(* world (what each tool and helper answers, and the context) and on the   *)
(* scope.  Evaluating it here gives its value, the scope after it and the  *)
(* work it makes: the tool calls in their order, where the branches of a   *)
(* parallel statement, each a thread, fork.  The calls of the work then    *)
(* happen one step at a time, in any order the threads may take.           *)
(***************************************************************************)
EXTENDS WorkflowCompiler

CONSTANTS Workflows,  \* the workflows that may be called: [params, returns, body, args]
          ParameterNames, \* every parameter's name, sorted
          Worlds      \* [answers : tool or helper -> value or Failure, context : field -> value,
                      \*  wasm : which of the two builds]

VARIABLES wf, world,
          body,    \* the statements left, in the IR
          scope,   \* the variables
          work,    \* tool calls of the statement under way
          value,   \* what the statement under way gives, once its work is done
          last,    \* last_result
          log,     \* the calls tools and helpers have received
          outcome  \* Pending, Rejected, Panicked, Failure or [result |-> value]

vars == <<wf, world, body, scope, work, value, last, log, outcome>>

Failure  == [failure |-> {}]
Pending  == [pending |-> {}]
Rejected == [rejected |-> {}]
Panicked == [panicked |-> {}]
Result(v) == [result |-> v]
IsValue(v) == ~IsKind(v, "failure")

-----------------------------------------------------------------------------
(* Work: calls and forks.  NextCalls are the calls a thread may make now,  *)
(* each with the work that is left after it.                               *)

CallOf(callee, args) == [to |-> callee, args |-> args]
Fork(branches) == [fork |-> branches]

RECURSIVE NextCalls(_)
NextCalls(w) ==
    CASE w = <<>> -> {}
      [] w # <<>> /\ IsKind(Head(w), "to") -> {[call |-> Head(w), rest |-> Tail(w)]}
      [] OTHER ->
           LET branches == Head(w).fork
               steps == UNION {{[call |-> n.call,
                                 rest |-> <<Fork([branches EXCEPT ![b] = n.rest])>> \o Tail(w)] :
                                  n \in NextCalls(branches[b])} : b \in DOMAIN branches}
           IN IF steps = {} THEN NextCalls(Tail(w)) ELSE steps

Done(w) == NextCalls(w) = {}

-----------------------------------------------------------------------------
(* The evaluator.  An evaluation is its value (or Failure), the scope      *)
(* after it and its work.                                                  *)

Evaluation(val, sc, wk) == [value |-> val, scope |-> sc, work |-> wk]

RECURSIVE Field(_, _)
Field(v, path) ==
    CASE path = <<>> -> v
      [] path # <<>> /\ IsKind(v, "obj") /\ Head(path) \in DOMAIN v.obj ->
           Field(v.obj[Head(path)], Tail(path))
      [] OTHER -> Failure

Lookup(sc, name) == IF name \in DOMAIN sc THEN sc[name] ELSE Failure

\* Mutant: positions are matched with the names sorted downwards.
ToolArgumentBackwards(tool, args) ==
    LET declared == IF tool \in DOMAIN Tools THEN {p.name : p \in Range(Tools[tool].params)} ELSE {}
        names    == Reverse(SelectSeq(ParameterNames, LAMBDA n : n \in declared))
    IN CASE names # <<>> -> Obj([p \in {names[i] : i \in DOMAIN names \cap DOMAIN args} |->
                                   args[CHOOSE i \in DOMAIN names : names[i] = p]])
         [] names = <<>> /\ Len(args) = 1 -> args[1]
         [] OTHER -> List(args)

\* What a tool is given: positions are matched with the sorted names of its
\* parameters; a tool the agent does not declare gets its arguments bare.
ToolArgument(tool, args) ==
    LET declared == IF tool \in DOMAIN Tools THEN {p.name : p \in Range(Tools[tool].params)} ELSE {}
        names    == SelectSeq(ParameterNames, LAMBDA n : n \in declared)
    IN CASE names # <<>> -> Obj([p \in {names[i] : i \in DOMAIN names \cap DOMAIN args} |->
                                   args[CHOOSE i \in DOMAIN names : names[i] = p]])
         [] names = <<>> /\ Len(args) = 1 -> args[1]
         [] OTHER -> List(args)

Shown(v) == IF IsKind(v, "text") THEN v.text ELSE ToString(v.num)

RECURSIVE Evaluate(_, _), EvaluateInOrder(_, _)

\* Values of expressions in order, up to the first that fails.
FirstThen(first, others) ==
    IF IsValue(first.value)
    THEN [values |-> <<first.value>> \o others.values,
          failed |-> others.failed, work |-> first.work \o others.work]
    ELSE [values |-> <<>>, failed |-> TRUE, work |-> first.work]

EvaluateInOrder(xs, sc) ==
    IF xs = <<>> THEN [values |-> <<>>, failed |-> FALSE, work |-> <<>>]
    ELSE FirstThen(Evaluate(Head(xs), sc), EvaluateInOrder(Tail(xs), sc))

ToolCalled(callee, args, sc) ==
    IF args.failed \/ callee \notin DOMAIN Tools \cup DOMAIN ScopedTools
    THEN Evaluation(Failure, sc, args.work)
    ELSE Evaluation(world.answers[callee], sc,
                    Append(args.work, CallOf(callee, ToolArgument(callee, args.values))))
EvaluateFunctionCall(x, sc) == ToolCalled(x.callee, EvaluateInOrder(x.args, sc), sc)

\* Nothing is called: the value asks the engine to do it.
HelperMarker(callee, args, sc) ==
    Evaluation(IF args.failed \/ callee \notin Helpers THEN Failure
               ELSE [marker |-> CallOf(callee, List(args.values))], sc, args.work)
EvaluateHelperCall(x, sc) == HelperMarker(x.callee, EvaluateInOrder(x.args, sc), sc)

ElementAt(from, index, sc) ==
    LET has == /\ IsKind(from, "list") /\ IsKind(index.value, "num")
               /\ index.value.num + 1 \in DOMAIN from.list
    IN Evaluation(IF has THEN from.list[index.value.num + 1] ELSE Failure, sc, index.work)
EvaluateIndexAccess(x, sc) == ElementAt(Lookup(sc, x.object), Evaluate(x.index, sc), sc)

\* Joined with a line break, numbers too.
JoinLines(sides, sc) ==
    Evaluation(IF sides.failed THEN Failure
               ELSE Text(Shown(sides.values[1]) \o "\n" \o Shown(sides.values[2])),
               sc, sides.work)
EvaluatePlus(x, sc) == JoinLines(EvaluateInOrder(<<x.left, x.right>>, sc), sc)

EvaluateMemberAccess(x, sc) ==
    IF x.object \in DOMAIN sc THEN Field(sc[x.object], x.path) ELSE Failure

Evaluate(x, sc) ==
    CASE x.e = "literal"      -> Evaluation(x.value, sc, <<>>)
      [] x.e = "varRef"       -> Evaluation(Lookup(sc, x.name), sc, <<>>)
      [] x.e = "memberAccess" -> Evaluation(EvaluateMemberAccess(x, sc), sc, <<>>)
      [] x.e = "contextRef"   -> Evaluation(Field(sc["context"], <<x.property>>), sc, <<>>)
      [] x.e = "indexAccess"  -> EvaluateIndexAccess(x, sc)
      [] x.e = "functionCall" -> EvaluateFunctionCall(x, sc)
      [] x.e = "helperCall"   -> EvaluateHelperCall(x, sc)
      [] x.e = "binaryOp"     -> EvaluatePlus(x, sc)

Truthy(v) ==
    CASE IsKind(v, "bool") -> v.bool
      [] IsKind(v, "text") -> v.text \notin {"", "false", "0"}
      [] IsKind(v, "num")  -> v.num # 0
      [] OTHER -> v # Null

\* An ordering is given for numbers, and for the symbols that stand for context fields in
\* a prompt: these are texts (@@field), greater than any number's.  No two of them are
\* ordered.
Comparison(op, l, r) ==
    LET symbol(v) == IsKind(v, "symbol")
    IN CASE op = "==" -> l = r
         [] op = "!=" -> l # r
         [] op = "<"  -> symbol(r) \/ (~symbol(l) /\ l.num < r.num)
         [] op = ">"  -> symbol(l) \/ (~symbol(r) /\ l.num > r.num)

\* A condition is parsed when it is evaluated; one that does not parse fails.
RECURSIVE Parses(_)
Parses(cond) ==
    CASE cond.c = "boolean" -> ReadsBack(cond.value)
      [] cond.c = "comparison" -> ReadsBack(cond.left) /\ ReadsBack(cond.right)
      [] cond.c = "logical" -> Parses(cond.left) /\ Parses(cond.right)

Compared(op, sides, sc) ==
    Evaluation(IF sides.failed THEN Failure
               ELSE Bool(Comparison(op, sides.values[1], sides.values[2])), sc, sides.work)
TruthOf(one, sc) ==
    Evaluation(IF IsValue(one.value) THEN Bool(Truthy(one.value)) ELSE Failure, sc, one.work)
ShortCircuit(op, left, right, sc) ==
    IF left.value \in {Failure, Bool(op = "||")} THEN left
    ELSE Evaluation(right.value, sc, left.work \o right.work)

RECURSIVE EvaluateCondition(_, _)
EvaluateCondition(cond, sc) ==
    CASE cond.c = "comparison" -> Compared(cond.op, EvaluateInOrder(<<cond.left, cond.right>>, sc), sc)
      [] cond.c = "boolean" -> TruthOf(Evaluate(cond.value, sc), sc)
      [] cond.c = "logical" ->
           ShortCircuit(cond.op, EvaluateCondition(cond.left, sc), EvaluateCondition(cond.right, sc), sc)

\* Statements.  A return gives its value and stops nothing; a let outlives
\* the arm it is in; an assignment is not supported.
RECURSIVE EvaluateStatement(_, _), EvaluateBlock(_, _)

Assigned(name, given, sc) ==
    IF IsValue(given.value) THEN Evaluation(Null, Set(sc, name, given.value), given.work) ELSE given
EvaluateLet(stmt, sc) == Assigned(stmt.name, Evaluate(stmt.value, sc), sc)

EvaluateArm(stmt, test, sc) ==
    IF IsValue(test.value)
    THEN EvaluateBlock(IF test.value.bool THEN stmt.then ELSE stmt.orelse,
                       Evaluation(Null, sc, test.work))
    ELSE test
EvaluateIf(stmt, sc) ==
    EvaluateArm(stmt, IF Parses(stmt.cond) THEN EvaluateCondition(stmt.cond, sc)
                      ELSE Evaluation(Failure, sc, <<>>), sc)

\* Each branch is a thread on a copy of the scope, and all are joined.
EvaluateParallel(stmt, sc) ==
    LET branches == [b \in DOMAIN stmt.body |-> EvaluateStatement(stmt.body[b], sc)]
    IN Evaluation(IF \E b \in DOMAIN branches : ~IsValue(branches[b].value) THEN Failure
                  ELSE List([b \in DOMAIN branches |-> branches[b].value]),
                  sc, <<Fork([b \in DOMAIN branches |-> branches[b].work])>>)

EvaluateStatement(stmt, sc) ==
    CASE stmt.s = "let"      -> EvaluateLet(stmt, sc)
      [] stmt.s = "assign"   -> Evaluation(Failure, sc, <<>>)
      [] stmt.s = "return"   -> Evaluate(stmt.value, sc)
      [] stmt.s = "if"       -> EvaluateIf(stmt, sc)
      [] stmt.s = "parallel" -> EvaluateParallel(stmt, sc)

EvaluateBlock(stmts, so) ==
    IF stmts = <<>> \/ ~IsValue(so.value) THEN so
    ELSE EvaluateBlock(Tail(stmts), [EvaluateStatement(Head(stmts), so.scope) EXCEPT !.work = so.work \o @])

-----------------------------------------------------------------------------
(* The wasm build awaits the tool calls itself, those of a let, of a       *)
(* return and of the arguments of such a call; the rest goes to an         *)
(* evaluator that has no tools, where a tool call fails.                   *)

WithoutTools(e) == IF Done(e.work) THEN e ELSE Evaluation(Failure, e.scope, <<>>)

RECURSIVE WasmCall(_, _)
WasmExpression(x, sc) ==
    IF x.e = "functionCall" THEN WasmCall(x, sc) ELSE WithoutTools(Evaluate(x, sc))

WasmCall(x, sc) ==
    LET args    == [i \in DOMAIN x.args |-> WasmExpression(x.args[i], sc)]
        failing == {i \in DOMAIN args : ~IsValue(args[i].value)}
        upTo    == IF failing = {} THEN Len(args) ELSE CHOOSE i \in failing : \A j \in failing : i <= j
        before  == FlattenSeq([i \in 1..upTo |-> args[i].work])
        given   == ToolArgument(x.callee, [i \in DOMAIN args |-> args[i].value])
    IN IF failing # {} \/ x.callee \notin DOMAIN Tools \cup DOMAIN ScopedTools
       THEN Evaluation(Failure, sc, before)
       ELSE Evaluation(world.answers[x.callee], sc, Append(before, CallOf(x.callee, given)))

WasmStatement(stmt, sc) ==
    CASE stmt.s = "let"    -> Assigned(stmt.name, WasmExpression(stmt.value, sc), sc)
      [] stmt.s = "return" -> WasmExpression(stmt.value, sc)
      [] OTHER -> WithoutTools(EvaluateStatement(stmt, sc))

-----------------------------------------------------------------------------
(* execute_workflow.                                                       *)

NoValue == [none |-> {}]  \* no statement is under way

Init ==
    /\ wf \in Workflows /\ world \in Worlds
    /\ body = <<>> /\ scope = <<>> /\ work = <<>>
    /\ value = NoValue /\ last = Null /\ log = <<>>
    /\ outcome = [source |-> {}]

Source == outcome = [source |-> {}]

Compiles == \A i \in DOMAIN wf.body : ReadsBack(LowerWorkflow(wf)[i])

\* The lowering is done whatever the checker said.
Crash ==
    /\ Source /\ ~Compiles
    /\ outcome' = Panicked
    /\ UNCHANGED <<wf, world, body, scope, work, value, last, log>>

Reject ==
    /\ Source /\ Compiles /\ ~CheckWorkflow(wf)
    /\ outcome' = Rejected
    /\ UNCHANGED <<wf, world, body, scope, work, value, last, log>>

\* The model's call: its arguments and the context are the scope.
Start ==
    /\ Source /\ Compiles /\ CheckWorkflow(wf)
    /\ body' = LowerWorkflow(wf)
    /\ scope' = Set(wf.args, "context", Obj(world.context))
    /\ outcome' = Pending
    /\ UNCHANGED <<wf, world, work, value, last, log>>

Idle == outcome = Pending /\ value = NoValue

Take(e) == value' = e.value /\ scope' = e.scope /\ work' = e.work

BeginStatement ==
    /\ Idle /\ body # <<>>
    /\ Take(IF world.wasm THEN WasmStatement(Head(body), scope)
            ELSE EvaluateStatement(Head(body), scope))
    /\ body' = Tail(body)
    /\ UNCHANGED <<wf, world, last, log, outcome>>

\* A thread of the statement makes its next call.
CallTool(n) ==
    /\ log' = Append(log, n.call)
    /\ work' = n.rest
    /\ UNCHANGED <<wf, world, body, scope, value, last, outcome>>

Settled == outcome = Pending /\ value # NoValue /\ Done(work)

\* Mutant: a statement without a value keeps the result before it.
EndStatementOfValue ==
    /\ Settled /\ IsValue(value) /\ ~IsKind(value, "marker")
    /\ last' = (IF value = Null THEN last ELSE value)
    /\ value' = NoValue /\ work' = <<>>
    /\ UNCHANGED <<wf, world, body, scope, log, outcome>>

EndStatement ==
    /\ Settled /\ IsValue(value) /\ ~IsKind(value, "marker")
    /\ last' = value /\ value' = NoValue /\ work' = <<>>
    /\ UNCHANGED <<wf, world, body, scope, log, outcome>>

\* The value asks for a helper: the engine runs it now.
CallHelper ==
    /\ Settled /\ IsKind(value, "marker")
    /\ log' = Append(log, value.marker)
    /\ IF IsValue(world.answers[value.marker.to])
       THEN last' = world.answers[value.marker.to] /\ outcome' = outcome
       ELSE last' = last /\ outcome' = Failure
    /\ value' = NoValue /\ work' = <<>>
    /\ UNCHANGED <<wf, world, body, scope>>

FailWorkflow ==
    /\ Settled /\ ~IsValue(value)
    /\ outcome' = Failure /\ value' = NoValue /\ work' = <<>>
    /\ UNCHANGED <<wf, world, body, scope, last, log>>

Finish ==
    /\ Idle /\ body = <<>>
    /\ outcome' = Result(last)
    /\ UNCHANGED <<wf, world, body, scope, work, value, last, log>>

\* A workflow that is over stays so.
Over ==
    /\ ~Source /\ outcome # Pending
    /\ UNCHANGED vars

Next ==
    \/ Reject \/ Crash \/ Start \/ BeginStatement
    \/ outcome = Pending /\ value # NoValue /\ \E n \in NextCalls(work) : CallTool(n)
    \/ EndStatement \/ CallHelper \/ FailWorkflow \/ Finish \/ Over

Spec == Init /\ [][Next]_vars
=============================================================================

--------------------------- MODULE WorkflowMeaning ---------------------------
(***************************************************************************)
(* What a workflow says: names are scoped by blocks, a return ends the     *)
(* workflow, a helper call is a call like that of a tool, a tool receives  *)
(* its arguments under the names it declares, and the branches of a        *)
(* parallel statement run together.  And the fragment of the language in   *)
(* which the program does what the workflow says.                          *)
(***************************************************************************)
EXTENDS WorkflowRun

-----------------------------------------------------------------------------
(* Meaning of expressions, with the work they make.                        *)

Means(val, wk) == [value |-> val, work |-> wk]

Declared(tool) == IF tool \in DOMAIN Tools THEN Tools[tool].params ELSE ScopedTools[tool].params

ByName(tool, args) ==
    IF Declared(tool) = <<>> THEN List(args)
    ELSE Obj([p \in {Declared(tool)[i].name : i \in DOMAIN args} |->
                args[CHOOSE i \in DOMAIN args : Declared(tool)[i].name = p]])

Sum(l, r) ==
    IF IsKind(l, "num") /\ IsKind(r, "num") THEN Num(l.num + r.num)
    ELSE Text(Shown(l) \o Shown(r))

RECURSIVE MeaningOf(_, _), MeaningsOf(_, _)
MeaningsOf(xs, env) ==
    IF xs = <<>> THEN Means(List(<<>>), <<>>)
    ELSE LET first == MeaningOf(Head(xs), env)
             others == MeaningsOf(Tail(xs), env)
         IN CASE first.value = Failure -> first
              [] first.value # Failure /\ others.value = Failure ->
                   Means(Failure, first.work \o others.work)
              [] OTHER -> Means(List(<<first.value>> \o others.value.list),
                                first.work \o others.work)

MeaningOf(x, env) ==
    LET all == MeaningsOf(IF x.e = "binaryOp" THEN <<x.left, x.right>> ELSE x.args, env)
    IN CASE x.e = "literal" -> Means(x.value, <<>>)
         [] x.e = "varRef" -> Means(env[x.name], <<>>)
         [] x.e = "memberAccess" -> Means(Field(env[x.object], x.path), <<>>)
         [] x.e = "indexAccess" ->
              LET at == MeaningOf(x.index, env)
              IN Means(Field(env[x.object].list[at.value.num + 1], x.path), at.work)
         [] x.e = "contextRef" -> Means(world.context[x.property], <<>>)
         [] x.e = "binaryOp" ->
              Means(IF all.value = Failure THEN Failure ELSE Sum(all.value.list[1], all.value.list[2]), all.work)
         [] x.e = "object" ->
              LET names == SetToSeq(DOMAIN x.fields)
                  of == MeaningsOf([i \in DOMAIN names |-> x.fields[names[i]]], env)
              IN Means(IF of.value = Failure THEN Failure
                       ELSE Obj([f \in DOMAIN x.fields |->
                                  of.value.list[CHOOSE i \in DOMAIN names : names[i] = f]]), of.work)
         [] x.e \in {"functionCall", "helperCall"} ->
              IF all.value = Failure THEN all
              ELSE Means(world.answers[x.callee],
                         all.work \o <<CallOf(x.callee,
                            IF x.e = "helperCall" THEN all.value
                            ELSE ByName(x.callee, all.value.list))>>)

RECURSIVE MeaningOfCondition(_, _)
MeaningOfCondition(cond, env) ==
    CASE cond.c = "boolean" -> MeaningOf(cond.value, env)
      [] cond.c = "comparison" ->
           LET sides == MeaningsOf(<<cond.left, cond.right>>, env)
           IN Means(IF sides.value = Failure THEN Failure
                    ELSE Bool(Comparison(cond.op, sides.value.list[1], sides.value.list[2])), sides.work)
      [] cond.c = "logical" ->
           LET left  == MeaningOfCondition(cond.left, env)
               right == MeaningOfCondition(cond.right, env)
           IN IF left.value = Failure \/ left.value = Bool(cond.op = "||") THEN left
              ELSE Means(right.value, left.work \o right.work)

-----------------------------------------------------------------------------
(* Meaning of statements: `returned` is the value of a return, a Failure,  *)
(* or NoValue when the next statement is reached.                          *)

Reached(returned, env, wk) == [returned |-> returned, env |-> env, work |-> wk]

RECURSIVE MeaningOfBlock(_, _)

MeaningOfIf(stmt, test, env) ==
    LET arm == MeaningOfBlock(IF test.value.bool THEN stmt.then ELSE stmt.orelse, env)
    IN IF test.value = Failure THEN Reached(Failure, env, test.work)
       ELSE Reached(arm.returned, [n \in DOMAIN env |-> arm.env[n]], test.work \o arm.work)

MeaningOfStatement(stmt, env) ==
    LET given == MeaningOf(stmt.value, env)
        branches == [b \in DOMAIN stmt.body |-> MeaningOfBlock(<<stmt.body[b]>>, env)]
        bound == [b \in DOMAIN branches |-> DOMAIN branches[b].env \ DOMAIN env]
    IN CASE stmt.s \in {"let", "assign"} ->
              IF given.value = Failure THEN Reached(Failure, env, given.work)
              ELSE Reached(NoValue, Set(env, stmt.name, given.value), given.work)
         [] stmt.s = "return" -> Reached(given.value, env, given.work)
         [] stmt.s = "if" -> MeaningOfIf(stmt, MeaningOfCondition(stmt.cond, env), env)
         [] stmt.s = "parallel" ->
              Reached(IF \E b \in DOMAIN branches : branches[b].returned = Failure
                      THEN Failure ELSE NoValue,
                      [n \in DOMAIN env \cup UNION Range(bound) |->
                         IF n \in DOMAIN env THEN env[n]
                         ELSE branches[CHOOSE b \in DOMAIN bound : n \in bound[b]].env[n]],
                      <<Fork([b \in DOMAIN branches |-> branches[b].work])>>)

MeaningOfBlock(stmts, env) ==
    IF stmts = <<>> THEN Reached(NoValue, env, <<>>)
    ELSE LET first == MeaningOfStatement(Head(stmts), env)
             others == MeaningOfBlock(Tail(stmts), first.env)
         IN IF first.returned # NoValue THEN first
            ELSE [others EXCEPT !.work = first.work \o @]

\* The context's fields are in scope under their own names.
Ended(so) ==
    [result |-> CASE so.returned = NoValue -> Result(Null)
                  [] so.returned = Failure -> Failure
                  [] OTHER -> Result(so.returned),
     work |-> so.work]

Meaning ==
    LET names == DOMAIN world.context \cup DOMAIN wf.args
    IN Ended(MeaningOfBlock(wf.body, [n \in names |-> IF n \in DOMAIN wf.args THEN wf.args[n]
                                                      ELSE world.context[n]]))

-----------------------------------------------------------------------------
(* The fragment.                                                           *)

Children(node) ==
    IF IsKind(node, "s")
    THEN CASE node.s = "if" -> {node.cond} \cup Range(node.then) \cup Range(node.orelse)
           [] node.s = "parallel" -> Range(node.body)
           [] node.s = "transfer" -> {}
           [] OTHER -> {node.value}
    ELSE IF IsKind(node, "c")
    THEN IF node.c = "boolean" THEN {node.value} ELSE {node.left, node.right}
    ELSE CASE node.e \in {"functionCall", "helperCall"} -> Range(node.args)
           [] node.e = "binaryOp" -> {node.left, node.right}
           [] node.e = "object" -> Range(node.fields)
           [] node.e = "indexAccess" -> {node.index}
           [] OTHER -> {}

RECURSIVE Nodes(_)
Nodes(node) == {node} \cup UNION {Nodes(child) : child \in Children(node)}

AllNodes(stmts) == UNION {Nodes(stmts[i]) : i \in DOMAIN stmts}
Expressions(stmts) == {node \in AllNodes(stmts) : IsKind(node, "e")}
Statements(stmts) == {node \in AllNodes(stmts) : IsKind(node, "s")}

\* Returns, and the values that are no statement's, only where nothing follows.
RECURSIVE ReturnsLast(_)
ReturnsLast(stmts) ==
    stmts # <<>> =>
      /\ \A node \in Statements(Front(stmts)) : node.s # "return"
      /\ Last(stmts).s # "parallel"
      /\ Last(stmts).s = "if" => ReturnsLast(Last(stmts).then) /\ ReturnsLast(Last(stmts).orelse)

InOrder(names) ==
    \A i, j \in DOMAIN names : i < j =>
        IndexFirstSubSeq(<<names[i]>>, ParameterNames) < IndexFirstSubSeq(<<names[j]>>, ParameterNames)

\* A tool whose arguments reach it under their names.
CallableTool(tool) ==
    \/ tool \in DOMAIN Tools /\ InOrder([i \in DOMAIN Tools[tool].params |-> Tools[tool].params[i].name])
    \/ tool \in DOMAIN ScopedTools /\ ScopedTools[tool].params = <<>>

\* An element that the list given as an argument has.
SureElement(w, x) ==
    /\ x.path = <<>> /\ x.index.e = "literal" /\ IsKind(x.index.value, "num")
    /\ x.object \in DOMAIN w.args /\ x.index.value.num + 1 \in DOMAIN w.args[x.object].list

\* A field that every value of a parameter's type has.
SureField(w, x) ==
    \E i \in DOMAIN w.params :
        /\ w.params[i].name = x.object /\ Len(x.path) = 1
        /\ IsKind(w.params[i].ty, "record") /\ Head(x.path) \notin w.params[i].ty.optional

CallsTool(node) == \E x \in Nodes(node) : IsKind(x, "e") /\ x.e = "functionCall"

\* In the wasm build no tool is called in an arm, a test or a branch, nor in
\* an argument of a helper.
WasmFragment(w) ==
    \A i \in DOMAIN w.body :
        \/ ~CallsTool(w.body[i])
        \/ w.body[i].s \in {"let", "return"} /\ w.body[i].value.e = "functionCall"

InFragment(w) ==
    /\ world.wasm => WasmFragment(w)
    /\ ReturnsLast(w.body)
    /\ \A node \in AllNodes(w.body) : \A child \in Children(node) :
         IsKind(child, "e") /\ child.e = "helperCall" => IsKind(node, "s") /\ node.s = "return"
    /\ \A x \in Expressions(w.body) :
         CASE x.e = "functionCall" -> CallableTool(x.callee)
           [] x.e = "memberAccess" -> SureField(w, x)
           [] x.e = "indexAccess"  -> SureElement(w, x)
           \* the evaluator has neither the input's nor the context's fields in its scope
           [] x.e = "varRef"       -> x.name \notin DOMAIN Context \cup DOMAIN Input
           [] OTHER -> x.e \notin {"object", "binaryOp"}
    /\ \A stmt \in Statements(w.body) :
         /\ stmt.s \notin {"assign", "transfer"}
         /\ stmt.s = "parallel" => \A b \in Range(stmt.body) : b.s = "let" =>
              \A x \in Expressions(w.body) : x.e = "varRef" => x.name # b.name

-----------------------------------------------------------------------------
(* Properties.                                                             *)

\* The work left after some calls, in any order the threads may have taken.
RECURSIVE LeftAfter(_, _)
LeftAfter(calls, w) ==
    IF calls = <<>> THEN {w}
    ELSE UNION {LeftAfter(Tail(calls), n.rest) : n \in {m \in NextCalls(w) : m.call = Head(calls)}}

\* Tools and helpers are called as the workflow says at every moment of its
\* execution: in that order, with those arguments, none that a test or a
\* return above it keeps from being reached, and in a parallel statement each
\* branch in its own order whatever the others do (execute_workflow's loop and
\* evaluate_parallel's threads).
CallsAsWritten == log # <<>> => LeftAfter(log, Meaning.work) # {}

\* The same in the fragment.
FragmentCallsAsWritten == log # <<>> /\ InFragment(wf) => CallsAsWritten

\* A workflow of the fragment that has ended made all the calls it says, those of the slowest
\* branch included, and its result is what it says: the value returned, or a
\* failure (last_result, and the join of every thread before an error).
ResultAsWritten ==
    (outcome = Failure \/ IsKind(outcome, "result")) /\ InFragment(wf) =>
        /\ outcome = Meaning.result
        /\ \E w \in LeftAfter(log, Meaning.work) : Done(w)

\* A workflow that the checker accepts in the fragment compiles, and fails only when a
\* tool or a helper it called did: no field is missing from its object, no callee from the
\* registry, and of the names it uses none is missing from the scope, save the bare fields
\* of the agent's input and context, which the checker declares and the evaluator does not
\* know (check_workflow against execute_workflow).
FailsOnlyWithItsTools ==
    outcome \in {Panicked, Failure} /\ InFragment(wf) =>
        /\ outcome = Failure
        /\ \E i \in DOMAIN log : world.answers[log[i].to] = Failure
=============================================================================

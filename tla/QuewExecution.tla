---------------------------- MODULE QuewExecution ----------------------------
(***************************************************************************)
(* The Quew graph executor (quew-runtime, execution.rs and eval.rs): a     *)
(* program is checked, lowered and its last function run, one node of one  *)
(* graph at a time.  A frame is one call of run_graph; the frame below it  *)
(* waits at the node that made the call.                                   *)
(*                                                                         *)
(* A value is a record whose one field is its kind.  A result that is not  *)
(* a value is Failure (every error: which one is abstracted) or, within a  *)
(* step, a call whose result the expression waits for.  Expressions call   *)
(* functions: the results a node's expression has had so far are kept in   *)
(* `answers`, and the expression is evaluated again when the next arrives. *)
(***************************************************************************)
EXTENDS QuewCompiler

CONSTANTS Programs,       \* the programs that may be run
          MaxIterations,  \* limits.max_loop_iterations
          MaxDepth        \* limits.max_call_depth

ASSUME LimitsAssumption == MaxIterations \in Nat /\ MaxDepth \in Nat \ {0}

VARIABLES program, graphs, frames, outcome

vars == <<program, graphs, frames, outcome>>

-----------------------------------------------------------------------------
(* Values.                                                                 *)

Str(s) == [str |-> s]
Num(n) == [num |-> n]
Bool(b) == [bool |-> b]
Arr(s) == [arr |-> s]
Obj(f) == [obj |-> f]
Null == [null |-> {}]
Failure == [failure |-> {}]
Pending == [pending |-> {}]      \* the outcome of a run that is not over
Rejected == [rejected |-> {}]    \* the outcome of a program with errors
Wait(callee, args) == [wait |-> <<callee, args>>]

IsKind(v, kind) == kind \in DOMAIN v
IsValue(v) == ~IsKind(v, "failure") /\ ~IsKind(v, "wait")

FieldOf(v, field) ==
  IF IsKind(v, "obj") /\ field \in DOMAIN v.obj THEN v.obj[field] ELSE Failure

\* Integer division truncates toward zero.
Quotient(a, b) ==
  LET abs(n) == IF n < 0 THEN -n ELSE n
      q == abs(a) \div abs(b)
  IN IF (a < 0) = (b < 0) THEN q ELSE -q

Both(kind, l, r) == IsKind(l, kind) /\ IsKind(r, kind)

\* A value as text.  Arrays and objects cannot be in a text.
Display(v) ==
  CASE IsKind(v, "str")  -> v.str
    [] IsKind(v, "num")  -> ToString(v.num)
    [] IsKind(v, "bool") -> IF v.bool THEN "true" ELSE "false"
    [] IsKind(v, "null") -> "null"

\* With a text on either side the other becomes text too.
Add(l, r) ==
  CASE Both("num", l, r)                     -> Num(l.num + r.num)
    [] IsKind(l, "str") \/ IsKind(r, "str") -> Str(Display(l) \o Display(r))
    [] OTHER                                 -> Failure

\* A remainder has the sign of the dividend.
Arithmetic(op, a, b) ==
  CASE op = "-" -> Num(a - b)
    [] op = "*" -> Num(a * b)
    [] b = 0    -> Failure
    [] op = "/" -> Num(Quotient(a, b))
    [] op = "%" -> Num(a - b * Quotient(a, b))

Compare(op, a, b) ==
  CASE op = "<" -> a < b [] op = "<=" -> a <= b [] op = ">" -> a > b [] op = ">=" -> a >= b

\* Both sides are evaluated, whatever the first is.
Logical(op, l, r) == IF op = "and" THEN l /\ r ELSE l \/ r

Negated(v) == IF IsKind(v, "bool") THEN Bool(~v.bool) ELSE Failure

\* Values of different types are not equal, which is no error.
Equality(op, l, r) == (l = r) = (op = "==")

\* What does not fit the operator is an error.
Apply(op, l, r) ==
  CASE op \in {"==", "!="} -> Bool(Equality(op, l, r))
    [] op = "+"  -> Add(l, r)
    [] op \in {"and", "or"} /\ Both("bool", l, r) -> Bool(Logical(op, l.bool, r.bool))
    [] op \in {"-", "*", "/", "%"} /\ Both("num", l, r) -> Arithmetic(op, l.num, r.num)
    [] op \in {"<", "<=", ">", ">="} /\ Both("num", l, r) -> Bool(Compare(op, l.num, r.num))
    [] OTHER -> Failure

-----------------------------------------------------------------------------
(* References and expressions over a frame's outputs.                      *)

ResolveDataRef(ref, outputs) ==
  CASE ref.node \notin DOMAIN outputs -> Failure
    [] ref.slot = NoSlot -> outputs[ref.node]
    [] OTHER -> FieldOf(outputs[ref.node], ref.slot)

\* The results of a sequence of evaluations, up to the first that is no value.
FirstBad(results) ==
  LET bad == {i \in DOMAIN results : ~IsValue(results[i])}
  IN IF bad = {} THEN Null
     ELSE results[CHOOSE i \in bad : \A j \in bad : i <= j]

RECURSIVE EvalExpr(_, _, _)
EvalExpr(x, outputs, answers) ==
  LET value(y) == EvalExpr(y, outputs, answers)
      \* the operands are evaluated in order, and all of them
      with(ys, Use(_)) == LET vs  == [i \in DOMAIN ys |-> value(ys[i])]
                              bad == FirstBad(vs)
                          IN IF IsValue(bad) THEN Use(vs) ELSE bad
  IN CASE x.e = "lit"  -> x.value
       [] x.e = "ref"  -> ResolveDataRef(x.ref, outputs)
       [] x.e = "bin"  -> with(<<x.left, x.right>>, LAMBDA vs : Apply(x.op, vs[1], vs[2]))
       [] x.e = "mem"  -> with(<<x.object>>, LAMBDA vs : FieldOf(vs[1], x.field))
       [] x.e = "not"  -> with(<<x.operand>>, LAMBDA vs : Negated(vs[1]))
       [] x.e = "arr"  -> with(x.elements, LAMBDA vs : Arr(vs))
       [] x.e = "obj"  -> LET names == SetToSeq(DOMAIN x.fields)
                          IN with([i \in DOMAIN names |-> x.fields[names[i]]],
                                  LAMBDA vs : Obj([n \in DOMAIN x.fields |->
                                    vs[CHOOSE i \in DOMAIN names : names[i] = n]]))
       [] x.e = "call" -> with(x.args, LAMBDA vs :
                            IF <<x.callee, vs>> \in DOMAIN answers
                            THEN answers[<<x.callee, vs>>]
                            ELSE Wait(x.callee, vs))
       [] x.e = "cond" -> with(<<x.cond>>, LAMBDA vs :
                            CASE ~IsKind(vs[1], "bool") -> Failure
                              [] vs[1].bool -> value(x.then)
                              [] OTHER -> value(x.orelse))

-----------------------------------------------------------------------------
(* Frames.                                                                 *)

NoAnswers == << >>

Frame(graph, input) ==
  [graph |-> graph, pc |-> 2, outputs |-> (1 :> input), unreachable |-> {},
   control |-> "none", returned |-> Failure, answers |-> NoAnswers,
   entered |-> FALSE, items |-> <<>>, turn |-> 0]

Params(function) ==
  (CHOOSE f \in Range(program.functions) : f.name = function).params

\* A call's arguments are keyed by the callee's parameters, by position.
CallFrame(function, args) ==
  Frame(FunctionGraph(function),
        Obj([p \in Range(Params(function)) |->
               args[CHOOSE i \in DOMAIN args : Params(function)[i] = p]]))

Running == frames # <<>>
Top     == Last(frames)
Nodes   == graphs[Top.graph].nodes
Node    == Nodes[Top.pc]

\* After a break, a continue or a return only the merges, the temporaries
\* and the Output node still run.
RunsAfterLeaving(node) ==
  \/ node.kind = "LetBind" /\ (node.name = "_" \/ node.value.e = "cond")
  \/ node.kind = "Output"

Skipped ==
  \/ Top.pc \in Top.unreachable \cup DOMAIN Top.outputs
  \/ Top.control # "none" /\ ~RunsAfterLeaving(Node)

Active(kinds) == Running /\ Top.pc <= Len(Nodes) /\ ~Skipped /\ Node.kind \in kinds

Replace(f) == [frames EXCEPT ![Len(frames)] = f]

\* The node has its output: go on to the next.
Advance(f, value) ==
  [f EXCEPT !.outputs = (f.pc :> value) @@ @, !.pc = @ + 1, !.answers = NoAnswers,
            !.entered = FALSE, !.items = <<>>, !.turn = 0]

Produce(f, value) == frames' = Replace(Advance(f, value)) /\ UNCHANGED outcome

\* Any error ends every frame up to the run.
Fail == frames' = <<>> /\ outcome' = Failure

\* run_graph: one level deeper, unless that exceeds the limit.
Enter(below, frame) ==
  IF Len(frames) >= MaxDepth THEN Fail
  ELSE frames' = Append(Replace(below), frame) /\ UNCHANGED outcome

-----------------------------------------------------------------------------
(* The executor's steps.                                                   *)

\* lower() runs only on a program without errors.
Compile ==
  /\ outcome = Pending /\ frames = <<>>
  /\ IF Checked(program)
     THEN LET main == Last(program.functions).name
          IN /\ graphs' = Lowered(program)
             /\ frames' = << Frame(FunctionGraph(main), Obj(program.input)) >>
             /\ UNCHANGED outcome
     ELSE outcome' = Rejected /\ UNCHANGED <<graphs, frames>>
  /\ UNCHANGED program

SkipNode ==
  /\ Running /\ Top.pc <= Len(Nodes) /\ Skipped
  /\ frames' = Replace([Top EXCEPT !.pc = @ + 1])
  /\ UNCHANGED <<program, graphs, outcome>>

RunLetBind ==
  /\ Active({"LetBind"})
  /\ LET v == EvalExpr(Node.value, Top.outputs, Top.answers)
     IN CASE IsKind(v, "wait")    -> Enter(Top, CallFrame(v.wait[1], v.wait[2]))
          [] IsKind(v, "failure") -> Fail
          [] OTHER                -> Produce(Top, v)
  /\ UNCHANGED <<program, graphs>>

\* The whole span of the arm not taken becomes unreachable.
RunBranch ==
  /\ Active({"Branch"})
  /\ LET c == ResolveDataRef(Node.condition, Top.outputs)
         untaken == IF c.bool THEN Node.else ELSE Node.then
     IN IF IsKind(c, "bool")
        THEN Produce([Top EXCEPT !.unreachable = @ \cup untaken], Null)
        ELSE Fail
  /\ UNCHANGED <<program, graphs>>

RunFuncCall ==
  /\ Active({"FuncCall"})
  /\ LET args == [i \in DOMAIN Node.args |-> ResolveDataRef(Node.args[i], Top.outputs)]
     IN IF IsValue(FirstBad(args)) THEN Enter(Top, CallFrame(Node.function, args)) ELSE Fail
  /\ UNCHANGED <<program, graphs>>

\* The body's input: the captured variables, read afresh for each turn.
Captures == [i \in DOMAIN Node.captured |-> ResolveDataRef(Node.captured[i].ref, Top.outputs)]
CapturedInput ==
  [n \in SlotNames(Node.captured) |->
     Captures[CHOOSE i \in DOMAIN Node.captured : Node.captured[i].name = n]]

EnterBody(below, loopInput) ==
  IF IsValue(FirstBad(Captures))
  THEN Enter(below, Frame(Node.body, Obj(CapturedInput @@ loopInput)))
  ELSE Fail

LoopInput(items, k) ==
  (Node.value :> items[k]) @@ (IF Node.index = "" THEN <<>> ELSE (Node.index :> Num(k - 1)))

\* The array is read once; each turn runs the body on its next element.
RunLoop ==
  /\ Active({"Loop"})
  /\ LET array == ResolveDataRef(Node.iterable, Top.outputs)
         items == IF Top.entered THEN Top.items ELSE array.arr
     IN CASE ~Top.entered /\ ~IsKind(array, "arr") -> Fail
          [] Top.turn < Len(items) ->
               EnterBody([Top EXCEPT !.entered = TRUE, !.items = items],
                         LoopInput(items, Top.turn + 1))
          [] OTHER -> Produce(Top, Null)
  /\ UNCHANGED <<program, graphs>>

RunWhileLoop ==
  /\ Active({"WhileLoop"})
  /\ EnterBody(Top, <<>>)
  /\ UNCHANGED <<program, graphs>>

Leave ==
  /\ Active({"Break", "Continue"})
  /\ Produce([Top EXCEPT !.control = IF Node.kind = "Break" THEN "break" ELSE "continue"], Null)
  /\ UNCHANGED <<program, graphs>>

RunReturn ==
  /\ Active({"Return"})
  /\ LET v == ResolveDataRef(Node.value, Top.outputs)
     IN IF IsValue(v) THEN Produce([Top EXCEPT !.control = "returned", !.returned = v], Null)
        ELSE Fail
  /\ UNCHANGED <<program, graphs>>

RunOutput ==
  /\ Active({"Output"})
  /\ LET v == ResolveDataRef(Node.value, Top.outputs)
     IN IF IsValue(v) THEN Produce(Top, v) ELSE Fail
  /\ UNCHANGED <<program, graphs>>

-----------------------------------------------------------------------------
(* A frame that has walked its graph gives its result to the one below.    *)

Finished   == Running /\ Top.pc > Len(Nodes)
Caller     == frames[Len(frames) - 1]
CallerNode == graphs[Caller.graph].nodes[Caller.pc]
Resume(f)  == frames' = Append(SubSeq(frames, 1, Len(frames) - 2), f) /\ UNCHANGED outcome
Called(kinds) == Finished /\ Len(frames) > 1 /\ CallerNode.kind \in kinds

\* An early return goes before the control sentinels and the Output node.
Result(f) ==
  CASE IsValue(f.returned)  -> f.returned
    [] f.control = "none"   -> f.outputs[Len(graphs[f.graph].nodes)]
    [] OTHER                -> Failure

FinishRun ==
  /\ Finished /\ Len(frames) = 1
  /\ frames' = <<>> /\ outcome' = Result(Top)
  /\ UNCHANGED <<program, graphs>>

\* A call node takes the result as its output; if the callee was left by a
\* break or a continue the caller is left by it too.
FinishFuncCall ==
  /\ Called({"FuncCall"})
  /\ LET v == Result(Top)
     IN IF IsValue(v) THEN Resume(Advance(Caller, v))
        ELSE Resume([Caller EXCEPT !.control = Top.control,
                                   !.pc = Len(graphs[Caller.graph].nodes) + 1])
  /\ UNCHANGED <<program, graphs>>

\* The call an expression waited for: the expression goes on.
FinishExprCall ==
  /\ Called({"LetBind"})
  /\ LET wait == EvalExpr(CallerNode.value, Caller.outputs, Caller.answers).wait
         v == Result(Top)
     IN IF IsValue(v) THEN Resume([Caller EXCEPT !.answers = (wait :> v) @@ @]) ELSE Fail
  /\ UNCHANGED <<program, graphs>>

\* Mutant: nothing is written back from a turn that was left.
WriteBackIfWhole ==
  FoldLeft(LAMBDA outputs, k :
             LET v == ResolveDataRef(Slot(graphs[Top.graph].bindings, k.name), Top.outputs)
             IN IF IsValue(v) /\ Top.control \notin {"break", "continue"}
                THEN (k.ref.node :> v) @@ outputs ELSE outputs,
           Caller.outputs, CallerNode.captured)

\* Each captured variable is written back to the NODE the parent reads it
\* from, when the body's last binding of its name has an output.
WriteBack ==
  FoldLeft(LAMBDA outputs, k :
             LET v == ResolveDataRef(Slot(graphs[Top.graph].bindings, k.name), Top.outputs)
             IN IF IsValue(v) THEN (k.ref.node :> v) @@ outputs ELSE outputs,
           Caller.outputs, CallerNode.captured)

\* Only a break ends a `for` loop early: any result goes on with the next.
FinishTurn ==
  /\ Called({"Loop"})
  /\ LET below == [Caller EXCEPT !.outputs = WriteBack]
     IN IF Top.control = "break" THEN Resume(Advance(below, Null))
        ELSE Resume([below EXCEPT !.turn = @ + 1])
  /\ UNCHANGED <<program, graphs>>

\* Mutant: the turns are not counted.
FinishIterationUncounted ==
  /\ Called({"WhileLoop"})
  /\ LET below == [Caller EXCEPT !.outputs = WriteBack]
         held  == FieldOf(Result(Top), "__cond") = Bool(TRUE)
     IN IF Top.control = "break" \/ ~held THEN Resume(Advance(below, Null)) ELSE Resume(below)
  /\ UNCHANGED <<program, graphs>>

\* The condition is a field of the body's result; a turn counts toward the
\* limit when the body was not left and its condition held.
FinishIteration ==
  /\ Called({"WhileLoop"})
  /\ LET below == [Caller EXCEPT !.outputs = WriteBack]
         held  == FieldOf(Result(Top), "__cond") = Bool(TRUE)
     IN CASE Top.control = "continue"            -> Resume(below)
          [] Top.control = "break" \/ ~held      -> Resume(Advance(below, Null))
          [] below.turn + 1 > MaxIterations      -> Fail
          [] OTHER                               -> Resume([below EXCEPT !.turn = @ + 1])
  /\ UNCHANGED <<program, graphs>>

-----------------------------------------------------------------------------

Init ==
  /\ program \in Programs
  /\ graphs = <<>> /\ frames = <<>> /\ outcome = Pending

Step ==
  \/ Compile \/ SkipNode \/ RunLetBind \/ RunBranch \/ RunFuncCall \/ RunLoop
  \/ RunWhileLoop \/ Leave \/ RunReturn \/ RunOutput \/ FinishRun \/ FinishFuncCall
  \/ FinishExprCall \/ FinishTurn \/ FinishIteration

Done == outcome # Pending /\ UNCHANGED vars

Next == Step \/ Done

\* The executor is one thread that does not stop before the run is over:
\* weak fairness of Step, written out since a step is possible exactly when
\* the run is not over.
Fairness == []<>(outcome # Pending) \/ []<><<Step>>_vars

Spec == Init /\ [][Next]_vars /\ Fairness
=============================================================================

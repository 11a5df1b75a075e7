---------------------------- MODULE QuewCompiler ----------------------------
(***************************************************************************)
(* The Quew compiler between its parser and its runtime: the checker's     *)
(* walk over a function body (quew-checker, lib.rs) and the lowering of    *)
(* checked bodies into execution graphs (quew-ir, graph_lower.rs, expr.rs).*)
(* A program is                                                            *)
(*   [functions |-> <<[name, params, body], ...>>, input |-> args]         *)
(* in declaration order; the last function is the one that is run.  Types  *)
(* are left out: the checker is modelled for names and control only.       *)
(* Calls to agents, tools, native functions and extension methods, `reply` *)
(* and `with turns` are left out: the deterministic executor runs user     *)
(* functions.  A graph's nodes are numbered from 1, the Input node first.  *)
(***************************************************************************)
EXTENDS Integers, Sequences, SequencesExt, FiniteSets

CONSTANT NoSlot          \* a reference to a whole output, not to a field

-----------------------------------------------------------------------------
(* The syntax: expressions, then statements, as the parser builds them.    *)

Lit(value)             == [e |-> "lit", value |-> value]
Var(name)              == [e |-> "var", name |-> name]
Binary(op, left, right) == [e |-> "bin", op |-> op, left |-> left, right |-> right]
Member(object, field)  == [e |-> "mem", object |-> object, field |-> field]
Call(callee, args)     == [e |-> "call", callee |-> callee, args |-> args]
Object(fields)         == [e |-> "obj", fields |-> fields]
Array(elements)        == [e |-> "arr", elements |-> elements]
Not(operand)           == [e |-> "not", operand |-> operand]
\* a text with expressions in it; its plain parts are literals
Interpolated(segments) == [e |-> "str", segments |-> segments]
PostfixIf(cond, then, orelse) ==
  [e |-> "cond", cond |-> cond, then |-> then, orelse |-> orelse]

Let(name, init)    == [s |-> "let", name |-> name, init |-> init]
Assign(name, init) == [s |-> "assign", name |-> name, init |-> init]
Return(value)      == [s |-> "return", value |-> value]
ReturnNothing      == [s |-> "bare return"]
Eval(expr)         == [s |-> "expr", expr |-> expr]
Break              == [s |-> "break"]
Continue           == [s |-> "continue"]
While(cond, body)  == [s |-> "while", cond |-> cond, body |-> body]
For(value, index, iterable, body) ==     \* index is "" when there is none
  [s |-> "for", value |-> value, index |-> index, iterable |-> iterable, body |-> body]
If(cond, then, orelse) ==
  [s |-> "if", cond |-> cond, then |-> then, orelse |-> orelse, chained |-> FALSE]
\* `if .. else if ..`: the else clause is another if statement
ElseIf(cond, then, nested) ==
  [s |-> "if", cond |-> cond, then |-> then, orelse |-> <<nested>>, chained |-> TRUE]

LoopNames(s) == IF s.index = "" THEN <<s.value>> ELSE <<s.value, s.index>>

-----------------------------------------------------------------------------
(* The checker.  A scope is a stack of frames of declared names.           *)

\* What an expression is made of, in the order in which it is checked.
Parts(x) ==
  CASE x.e = "bin"  -> <<x.left, x.right>>
    [] x.e = "not"  -> <<x.operand>>
    [] x.e = "mem"  -> <<x.object>>
    [] x.e = "call" -> x.args
    [] x.e = "arr"  -> x.elements
    [] x.e = "obj"  -> x.fields
    [] x.e = "str"  -> x.segments
    [] x.e = "cond" -> <<x.cond, x.then, x.orelse>>
    [] OTHER        -> <<>>

RECURSIVE ExprDefined(_, _, _)
\* Every name an expression uses is a local or a global (a function).
ExprDefined(x, scope, globals) ==
  /\ x.e = "var"  => x.name \in UNION Range(scope) \cup globals
  /\ x.e = "call" => x.callee \in globals
  /\ \A i \in DOMAIN Parts(x) : ExprDefined(Parts(x)[i], scope, globals)

\* Declares a name in the innermost frame; declaring it twice is an error.
Define(acc, name) ==
  [acc EXCEPT !.scope[Len(acc.scope)] = @ \cup {name},
              !.ok = @ /\ name \notin Last(acc.scope)]

RECURSIVE CheckBody(_, _, _, _)

\* A loop's body has a frame of its own, in which a `for` declares its names.
LoopOk(acc, s, globals, loops) ==
  LET frame == [acc EXCEPT !.scope = Append(@, {})]
      inner == IF s.s = "for" THEN FoldLeft(Define, frame, LoopNames(s)) ELSE frame
  IN /\ ExprDefined(IF s.s = "for" THEN s.iterable ELSE s.cond, acc.scope, globals)
     /\ inner.ok
     /\ CheckBody(s.body, inner.scope, globals, loops + 1)

CheckStmt(acc, s, globals, loops) ==
  LET defined(x)  == ExprDefined(x, acc.scope, globals)
      block(b)    == CheckBody(b, Append(acc.scope, {}), globals, loops)
      require(ok) == [acc EXCEPT !.ok = @ /\ ok]
      \* of an else-if only the condition and the first arm are checked
      elseOk      == IF s.chained
                     THEN defined(s.orelse[1].cond) /\ block(s.orelse[1].then)
                     ELSE block(s.orelse)
  IN CASE acc.unreachable    -> require(FALSE)
       [] s.s = "let"        -> Define(require(defined(s.init)), s.name)
       [] s.s = "assign"     -> require(s.name \in UNION Range(acc.scope) /\ defined(s.init))
       [] s.s = "expr"       -> require(defined(s.expr))
       [] s.s = "return"     -> [require(defined(s.value)) EXCEPT !.unreachable = TRUE]
       [] s.s = "bare return" -> [acc EXCEPT !.unreachable = TRUE]
       [] s.s \in {"break", "continue"} -> require(loops > 0)
       [] s.s \in {"for", "while"} -> require(LoopOk(acc, s, globals, loops))
       [] s.s = "if"         -> require(defined(s.cond) /\ block(s.then) /\ elseOk)

CheckBody(stmts, scope, globals, loops) ==
  FoldLeft(LAMBDA acc, s : CheckStmt(acc, s, globals, loops),
           [scope |-> scope, ok |-> TRUE, unreachable |-> FALSE], stmts).ok

FunctionNames(program) == {program.functions[i].name : i \in DOMAIN program.functions}

\* The program has no error diagnostic, so it is lowered.
Checked(program) ==
  \A i \in DOMAIN program.functions :
    LET f      == program.functions[i]
        params == FoldLeft(Define, [scope |-> << {} >>, ok |-> TRUE], f.params)
    IN params.ok /\ CheckBody(f.body, params.scope, FunctionNames(program), 0)

-----------------------------------------------------------------------------
(* References and slots.  Slots keep their order of insertion.             *)

Ref(node)          == [node |-> node, slot |-> NoSlot]
Field(node, field) == [node |-> node, slot |-> field]
Unresolved         == Ref(0)         \* where the lowering would panic

SlotNames(slots) == {slots[i].name : i \in DOMAIN slots}
Slot(slots, name) ==
  IF name \in SlotNames(slots)
  THEN (CHOOSE k \in Range(slots) : k.name = name).ref
  ELSE Unresolved

Bind(b, name, ref) ==
  [b EXCEPT !.slots =
     IF name \in SlotNames(@)
     THEN [i \in DOMAIN @ |-> IF @[i].name = name THEN [name |-> name, ref |-> ref] ELSE @[i]]
     ELSE Append(@, [name |-> name, ref |-> ref])]

Push(b, node) == [b EXCEPT !.nodes = Append(@, node)]
Newest(b)     == Ref(Len(b.nodes))
LetBind(name, value) == [kind |-> "LetBind", name |-> name, value |-> value]

-----------------------------------------------------------------------------
(* Expressions.                                                            *)

RECURSIVE LowerExpr(_, _)

\* A text with expressions in it becomes a sum of its parts.
LowerInterpolated(slots, segments) ==
  FoldLeft(LAMBDA sum, y : Binary("+", sum, LowerExpr(slots, y)),
           LowerExpr(slots, Head(segments)), Tail(segments))

LowerExpr(slots, x) ==
  CASE x.e = "lit"  -> x
    [] x.e = "var"  -> [e |-> "ref", ref |-> Slot(slots, x.name)]
    [] x.e = "bin"  -> [x EXCEPT !.left = LowerExpr(slots, @), !.right = LowerExpr(slots, @)]
    [] x.e = "mem"  -> [x EXCEPT !.object = LowerExpr(slots, @)]
    [] x.e = "not"  -> [x EXCEPT !.operand = LowerExpr(slots, @)]
    [] x.e = "arr"  -> [x EXCEPT !.elements = [i \in DOMAIN @ |-> LowerExpr(slots, @[i])]]
    [] x.e = "str"  -> LowerInterpolated(slots, x.segments)
    [] x.e = "obj"  -> [x EXCEPT !.fields = [f \in DOMAIN @ |-> LowerExpr(slots, @[f])]]
    [] x.e = "call" -> [x EXCEPT !.args = [i \in DOMAIN @ |-> LowerExpr(slots, @[i])]]
    [] x.e = "cond" -> [x EXCEPT !.cond = LowerExpr(slots, @),
                                 !.then = LowerExpr(slots, @),
                                 !.orelse = LowerExpr(slots, @)]

RECURSIVE LowerExprAsRef(_, _)
\* A member of a name becomes a field of the NODE the name is bound to: the
\* field the name itself may stand for is dropped.
LowerExprAsRef(slots, x) ==
  CASE x.e = "var" -> Slot(slots, x.name)
    [] x.e = "mem" -> Field(LowerExprAsRef(slots, x.object).node, x.field)
    [] OTHER       -> Unresolved

\* The builder and the reference at which an expression's value is found.
EnsureRef(b, x) ==
  IF x.e \in {"var", "mem"}
  THEN [b |-> b, ref |-> LowerExprAsRef(b.slots, x)]
  ELSE LET p == Push(b, LetBind("_", LowerExpr(b.slots, x)))
       IN [b |-> p, ref |-> Newest(p)]

\* A call of a function lowered before is a node of its own; any other
\* expression, a call of the function itself included, is a `_` binding.
LowerValueNode(b, x) ==
  IF x.e = "call" /\ x.callee \in b.known
  THEN LET args == FoldLeft(LAMBDA acc, arg : LET r == EnsureRef(acc.b, arg)
                                              IN [b |-> r.b, refs |-> Append(acc.refs, r.ref)],
                            [b |-> b, refs |-> <<>>], x.args)
       IN Push(args.b, [kind |-> "FuncCall", function |-> x.callee, args |-> args.refs])
  ELSE Push(b, LetBind("_", LowerExpr(b.slots, x)))

-----------------------------------------------------------------------------
(* Statements.                                                             *)

RECURSIVE AssignedVars(_)
AssignedVars(body) ==
  UNION {LET s == body[i] IN
         CASE s.s = "assign" -> {s.name}
           [] s.s = "if"     -> AssignedVars(s.then) \cup AssignedVars(s.orelse)
           [] s.s \in {"while", "for"} -> AssignedVars(s.body)
           [] OTHER -> {} : i \in DOMAIN body}

LowerLet(b, s) == LET v == LowerValueNode(b, s.init) IN Bind(v, s.name, Newest(v))

LowerAssignment(b, s) ==
  LET v == IF s.init.e = "call"
           THEN LowerValueNode(b, s.init)
           ELSE Push(b, LetBind(s.name, LowerExpr(b.slots, s.init)))
  IN Bind(v, s.name, Newest(v))

LowerReturn(b, s) ==
  LET v == LowerValueNode(b, s.value)
  IN Push(v, [kind |-> "Return", value |-> Newest(v)])

RECURSIVE LowerBody(_, _)

\* One merge node: after the branch the name is what the arm that ran made it.
Merge(b, name, condition, thenSlots, elseSlots) ==
  LET arm(slots) == [e |-> "ref", ref |-> Slot(slots, name)]
      p == Push(b, LetBind(name, PostfixIf([e |-> "ref", ref |-> condition],
                                           arm(thenSlots), arm(elseSlots))))
  IN Bind(p, name, Newest(p))

\* The nodes of an arm are the span of ids pushed while it was lowered.
LowerIf(b, s) ==
  LET c      == EnsureRef(b, s.cond)
      branch == Len(c.b.nodes) + 1
      then   == LowerBody(Push(c.b, [kind |-> "Branch"]), s.then)
      orelse == LowerBody([then EXCEPT !.slots = b.slots], s.orelse)
      hasElse == s.chained => s.orelse[1].then # <<>>
      node   == [kind |-> "Branch", condition |-> c.ref,
                 then |-> (branch + 1) .. Len(then.nodes),
                 else |-> IF hasElse THEN (Len(then.nodes) + 1) .. Len(orelse.nodes) ELSE {}]
      merged == {n \in (AssignedVars(s.then) \cup AssignedVars(s.orelse)) \cap SlotNames(b.slots) :
                   \/ Slot(then.slots, n) # Slot(b.slots, n)
                   \/ Slot(orelse.slots, n) # Slot(b.slots, n)}
  IN FoldLeft(LAMBDA acc, n : Merge(acc, n, c.ref, then.slots, orelse.slots),
              [orelse EXCEPT !.nodes[branch] = node, !.slots = b.slots],
              SetToSeq(merged))

\* Every parameter is bound as a field of the Input node.
LowerFunctionGraph(id, params, body, graphs, known) ==
  LET start == [id |-> id, nodes |-> << [kind |-> "Input"] >>,
                slots |-> [i \in DOMAIN params |->
                             [name |-> params[i], ref |-> Field(1, params[i])]],
                graphs |-> graphs, known |-> known]
      b == LowerBody(start, body)
  IN [b EXCEPT !.graphs = (id :> [nodes    |-> Append(b.nodes, [kind |-> "Output", value |-> Ref(1)]),
                                  bindings |-> b.slots]) @@ @]

NamesOf(slots) == [i \in DOMAIN slots |-> slots[i].name]

\* The body graph is named for the graph and the loop variable, no more.
LowerForLoop(b, s) ==
  LET it       == EnsureRef(b, s.iterable)
      captured == SelectSeq(b.slots, LAMBDA k : k.name \notin Range(LoopNames(s)))
      id       == b.id \o <<"for", s.value>>
      body     == LowerFunctionGraph(id, LoopNames(s) \o NamesOf(captured), s.body,
                                     it.b.graphs, b.known)
  IN Push([it.b EXCEPT !.graphs = body.graphs],
          [kind |-> "Loop", iterable |-> it.ref, body |-> id, value |-> s.value,
           index |-> s.index, captured |-> captured])

\* The condition is the first binding of the body graph, which returns it
\* with every captured variable.
LowerWhileLoop(b, s) ==
  LET id   == b.id \o <<"while">>
      back == Object([n \in SlotNames(b.slots) \cup {"__cond"} |-> Var(n)])
      body == LowerFunctionGraph(id, NamesOf(b.slots),
                << Let("__cond", s.cond), If(Var("__cond"), s.body, <<>>), Return(back) >>,
                b.graphs, b.known)
  IN Push([b EXCEPT !.graphs = body.graphs],
          [kind |-> "WhileLoop", body |-> id, captured |-> b.slots])

LowerStmt(b, s) ==
  CASE s.s = "let"      -> LowerLet(b, s)
    [] s.s = "assign"   -> LowerAssignment(b, s)
    [] s.s = "return"   -> LowerReturn(b, s)
    [] s.s = "bare return" -> b
    [] s.s = "expr"     -> EnsureRef(b, s.expr).b
    [] s.s = "break"    -> Push(b, [kind |-> "Break"])
    [] s.s = "continue" -> Push(b, [kind |-> "Continue"])
    [] s.s = "if"       -> LowerIf(b, s)
    [] s.s = "for"      -> LowerForLoop(b, s)
    [] s.s = "while"    -> LowerWhileLoop(b, s)

LowerBody(b, stmts) == FoldLeft(LowerStmt, b, stmts)

FunctionGraph(name) == <<"function", name>>

\* The functions are lowered in order; each knows the ones before it.
Lowered(program) ==
  FoldLeft(LAMBDA acc, f :
             [graphs |-> LowerFunctionGraph(FunctionGraph(f.name), f.params, f.body,
                                            acc.graphs, acc.known).graphs,
              known  |-> acc.known \cup {f.name}],
           [graphs |-> <<>>, known |-> {}], program.functions).graphs
=============================================================================

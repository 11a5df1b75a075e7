----------------------------- MODULE QuewMeaning -----------------------------
(***************************************************************************)
(* What a Quew program means, as its syntax says: statements in order, a   *)
(* block's names end with it, a return ends the function, a break or a     *)
(* continue the loop or the turn, a loop sees the latest value of every    *)
(* variable.  It knows nothing of graphs; the executor is checked against  *)
(* it.  An environment is a stack of scopes; `d` is the depth of nested    *)
(* executions, which the executor's limit counts: a function's body and a  *)
(* loop's body each add one.                                               *)
(***************************************************************************)
EXTENDS QuewExecution

LOCAL Holder(env, name) == CHOOSE i \in DOMAIN env :
                             /\ name \in DOMAIN env[i]
                             /\ \A j \in DOMAIN env : name \in DOMAIN env[j] => j <= i
ValueOf(env, name)       == env[Holder(env, name)][name]
SetValue(env, name, v)   == [env EXCEPT ![Holder(env, name)][name] = v]
Declare(env, name, v)    == [env EXCEPT ![Len(env)] = (name :> v) @@ @]

RECURSIVE MeanBody(_, _, _, _)
RECURSIVE MeanExpr(_, _, _, _)

\* A function without a return gives its arguments back.
MeanCall(prog, function, args, d) ==
  LET f     == CHOOSE g \in Range(prog.functions) : g.name = function
      input == [p \in Range(f.params) |-> args[CHOOSE i \in DOMAIN args : f.params[i] = p]]
      end   == MeanBody(prog, f.body, <<input>>, d)
  IN CASE d > MaxDepth           -> Failure
       [] end.signal = "return"  -> end.value
       [] end.signal = "go"      -> Obj(input)
       [] OTHER                  -> Failure

MeanExpr(prog, x, env, d) ==
  LET value(y) == MeanExpr(prog, y, env, d)
      \* what is made of the values of all parts
      of(ys, Use(_)) == LET vs == [i \in DOMAIN ys |-> value(ys[i])]
                        IN IF \A i \in DOMAIN vs : IsValue(vs[i]) THEN Use(vs) ELSE Failure
  IN CASE x.e = "lit" -> x.value
       [] x.e = "var" -> ValueOf(env, x.name)
       [] x.e = "mem" -> FieldOf(value(x.object), x.field)
       [] x.e = "bin" -> of(<<x.left, x.right>>, LAMBDA vs : Apply(x.op, vs[1], vs[2]))
       [] x.e = "not" -> of(<<x.operand>>, LAMBDA vs : Negated(vs[1]))
       [] x.e = "arr" -> of(x.elements, Arr)
       [] x.e = "obj" -> of(x.fields, Obj)
       \* a text, whatever is in it
       [] x.e = "str" -> of(x.segments, LAMBDA vs :
                            Str(FoldLeft(LAMBDA text, v : text \o Display(v), "", vs)))
       [] x.e = "call" -> of(x.args, LAMBDA vs : MeanCall(prog, x.callee, vs, d + 1))
       [] x.e = "cond" -> LET c == value(x.cond)
                          IN CASE ~IsKind(c, "bool") -> Failure
                               [] c.bool -> value(x.then)
                               [] OTHER  -> value(x.orelse)

\* How a statement list ends: it goes on, or is left by a signal.
End(signal, env, v) == [signal |-> signal, env |-> env, value |-> v]
OutOfBlock(end) == [end EXCEPT !.env = Front(@)]

RECURSIVE MeanWhile(_, _, _, _, _)
MeanWhile(prog, s, env, d, turns) ==
  LET c    == MeanExpr(prog, s.cond, env, d + 1)
      body == OutOfBlock(MeanBody(prog, s.body, Append(env, <<>>), d + 1))
  IN CASE d + 1 > MaxDepth \/ ~IsKind(c, "bool") -> End("fail", env, Failure)
       [] ~c.bool                                -> End("go", env, Null)
       [] body.signal = "break"                  -> [body EXCEPT !.signal = "go"]
       [] body.signal \in {"return", "fail"}     -> body
       [] turns + 1 > MaxIterations              -> End("fail", env, Failure)
       [] OTHER                                  -> MeanWhile(prog, s, body.env, d, turns + 1)

RECURSIVE MeanFor(_, _, _, _, _, _)
MeanFor(prog, s, items, k, env, d) ==
  LET scope == (s.value :> items[k])
               @@ (IF s.index = "" THEN <<>> ELSE (s.index :> Num(k - 1)))
      body  == OutOfBlock(MeanBody(prog, s.body, Append(env, scope), d + 1))
  IN CASE k > Len(items)                     -> End("go", env, Null)
       [] d + 1 > MaxDepth                   -> End("fail", env, Failure)
       [] body.signal = "break"              -> [body EXCEPT !.signal = "go"]
       [] body.signal \in {"return", "fail"} -> body
       [] OTHER                              -> MeanFor(prog, s, items, k + 1, body.env, d)

MeanStmt(prog, s, env, d) ==
  LET value(x)  == MeanExpr(prog, x, env, d)
      block(b)  == OutOfBlock(MeanBody(prog, b, Append(env, <<>>), d))
      after(x, signal, Env(_)) ==
        IF IsValue(value(x)) THEN End(signal, Env(value(x)), value(x))
        ELSE End("fail", env, Failure)
      same(v)   == env
  IN CASE s.s = "let"      -> after(s.init, "go", LAMBDA v : Declare(env, s.name, v))
       [] s.s = "assign"   -> after(s.init, "go", LAMBDA v : SetValue(env, s.name, v))
       [] s.s = "expr"     -> after(s.expr, "go", same)
       [] s.s = "return"   -> after(s.value, "return", same)
       [] s.s = "bare return" -> End("return", env, Null)
       [] s.s = "break"    -> End("break", env, Null)
       [] s.s = "continue" -> End("continue", env, Null)
       [] s.s = "while"    -> MeanWhile(prog, s, env, d, 0)
       [] s.s = "for"      -> LET array == value(s.iterable)
                              IN IF IsKind(array, "arr")
                                 THEN MeanFor(prog, s, array.arr, 1, env, d)
                                 ELSE End("fail", env, Failure)
       [] s.s = "if"       -> LET c == value(s.cond)
                              IN CASE ~IsKind(c, "bool") -> End("fail", env, Failure)
                                   [] c.bool -> block(s.then)
                                   [] OTHER  -> block(s.orelse)

MeanBody(prog, stmts, env, d) ==
  FoldLeft(LAMBDA acc, s : IF acc.signal = "go" THEN MeanStmt(prog, s, acc.env, d) ELSE acc,
           End("go", env, Null), stmts)

\* What running the program gives.
Meaning(prog) ==
  LET main == Last(prog.functions)
  IN MeanCall(prog, main.name,
              [i \in DOMAIN main.params |-> prog.input[main.params[i]]], 1)

-----------------------------------------------------------------------------
(* The fragment of the language that the compiler and the executor get     *)
(* right.  Each rule keeps out a construct that they get wrong in some     *)
(* program: the README says what happens to it.                            *)

RECURSIVE Within(_)
\* The statements of a body at every depth.
Within(body) ==
  UNION {{body[i]} \cup
         CASE body[i].s = "if" -> Within(body[i].then) \cup Within(body[i].orelse)
           [] body[i].s \in {"for", "while"} -> Within(body[i].body)
           [] OTHER -> {} : i \in DOMAIN body}

RECURSIVE Declared(_)
\* The names a body declares at every depth, one entry for each declaration.
Declared(body) ==
  FlattenSeq([i \in DOMAIN body |->
    LET s == body[i] IN
    CASE s.s = "let"   -> <<s.name>>
      [] s.s = "if"    -> Declared(s.then) \o Declared(s.orelse)
      [] s.s = "for"   -> LoopNames(s) \o Declared(s.body)
      [] s.s = "while" -> Declared(s.body)
      [] OTHER -> <<>>])

Kinds(body) == {s.s : s \in Within(body)}
IsLoop(s)   == s.s \in {"for", "while"}
HasLoop(body) == \E s \in Within(body) : IsLoop(s)

RECURSIVE Leaves(_)
\* A statement after which its list may not go on.
Leaves(s) ==
  \/ s.s \in {"break", "continue", "return"}
  \/ s.s = "if" /\ \E t \in Range(s.then) \cup Range(s.orelse) : Leaves(t)

RECURSIVE Total(_)
\* An expression that cannot fail and calls nothing.
Total(x) ==
  CASE x.e \in {"lit", "var"} -> TRUE
    [] x.e = "bin" -> x.op \notin {"/", "%"} /\ Total(x.left) /\ Total(x.right)
    [] x.e = "obj" -> \A f \in DOMAIN x.fields : Total(x.fields[f])
    [] OTHER       -> FALSE

Arms(body) == UNION {{s.then, s.orelse} : s \in {t \in Within(body) : t.s = "if"}}
LeavesLast(body) == \A i \in 1 .. (Len(body) - 1) : ~Leaves(body[i])

\* What may follow a statement that may leave: in a function, returns of
\* expressions that cannot fail; in a `for` body, one assignment to a
\* variable the body does not assign before, of a call only if the function
\* called is lowered before this one.
TotalReturn(s) == s.s = "return" /\ Total(s.value)
Harmless(s) == \/ TotalReturn(s)
               \/ /\ s.s = "if" /\ Total(s.cond) /\ s.orelse = <<>>
                  /\ \A t \in Range(s.then) : TotalReturn(t)
FunctionLeaves(body) ==
  \A i, j \in DOMAIN body : i < j /\ Leaves(body[i]) => Harmless(body[j])
ForLeaves(body, known) ==
  \A i \in 1 .. (Len(body) - 1) : Leaves(body[i]) =>
    LET s == body[i + 1] IN
    /\ i + 1 = Len(body) /\ s.s = "assign" /\ s.init.e # "cond"
    /\ s.init.e = "call" => /\ s.init.callee \in known
                            /\ \A a \in Range(s.init.args) : Total(a)
    /\ s.name \notin AssignedVars(Front(body))

LoopFits(s, known) ==
  /\ Kinds(s.body) \cap {"for", "while", "return"} = {}
  /\ IF s.s = "for"
     THEN ForLeaves(s.body, known)
     ELSE LeavesLast(s.body) /\ "continue" \notin Kinds(s.body)

\* The expressions the lowering turns into references.
Referred(body) ==
  UNION {CASE s.s = "if"   -> {s.cond}
           [] s.s = "for"  -> {s.iterable}
           [] s.s = "expr" -> {s.expr}
           [] s.s \in {"let", "assign"} /\ s.init.e = "call" -> Range(s.init.args)
           [] s.s = "return" /\ s.value.e = "call" -> Range(s.value.args)
           [] OTHER -> {} : s \in Within(body)}

\* The expressions of a statement itself.
Exprs(s) ==
  CASE s.s \in {"let", "assign"} -> <<s.init>>
    [] s.s = "return"             -> <<s.value>>
    [] s.s = "expr"               -> <<s.expr>>
    [] s.s = "for"                -> <<s.iterable>>
    [] s.s \in {"if", "while"}    -> <<s.cond>>
    [] OTHER                      -> <<>>

IsText(x) == x.e = "lit" /\ IsKind(x.value, "str")

RECURSIVE AddsToText(_)
\* Plain text is one of the first two parts of every text, so that the sum
\* of its parts is text and not a number.
AddsToText(x) ==
  /\ x.e = "str" => \E i \in DOMAIN x.segments \cap {1, 2} : IsText(x.segments[i])
  /\ \A i \in DOMAIN Parts(x) : AddsToText(Parts(x)[i])

FunctionFits(f, known) ==
  LET all == Within(f.body)
  IN /\ IsInjective(f.params \o Declared(f.body))
     /\ "bare return" \notin Kinds(f.body)
     /\ \A s \in all : \A i \in DOMAIN Exprs(s) : AddsToText(Exprs(s)[i])
     /\ HasLoop(f.body) => f.params = <<>>
     /\ Cardinality({s \in all : s.s = "while"}) <= 1
     /\ \A s \in all : IsLoop(s) => LoopFits(s, known)
     /\ \A s \in all : s.s = "if" =>
          /\ s.chained => s.orelse[1].then # <<>>
          /\ HasLoop(s.then \o s.orelse) => s.cond.e # "var"
     /\ FunctionLeaves(f.body) /\ \A arm \in Arms(f.body) : LeavesLast(arm)
     /\ \A x \in Referred(f.body) : x.e = "mem" =>
          /\ x.object.e = "var" /\ x.object.name \notin Range(f.params)
          /\ ~HasLoop(f.body)

Fragment(prog) ==
  \A i \in DOMAIN prog.functions :
    FunctionFits(prog.functions[i], {prog.functions[j].name : j \in 1 .. (i - 1)})

-----------------------------------------------------------------------------
(* Properties.                                                             *)

\* Running a program gives what its text says: the graph, its merges, the
\* captures of its loops and the limits change nothing of its meaning.
RunsWhatItSays == outcome \notin {Pending, Rejected} => outcome = Meaning(program)

\* Every run ends, by a result, an error or a limit.
RunEnds == <>(outcome # Pending)
=============================================================================

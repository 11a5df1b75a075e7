------------------------------- MODULE MCQuew -------------------------------
(***************************************************************************)
(* Small Quew programs.  Each family combines the statements of one part   *)
(* of the language in every way up to a length; FragmentPrograms keeps     *)
(* those that are in the fragment.                                         *)
(***************************************************************************)
EXTENDS QuewMeaning

N(n)      == Lit(Num(n))
Plus(a, b) == Binary("+", a, b)
Less(a, b) == Binary("<", a, b)
Is(a, n)   == Binary("==", a, N(n))
x == Var("x")
y == Var("y")
p == Var("p")
v == Var("v")

Main(params, body, input) == [name |-> "main", params |-> params, body |-> body, input |-> input]
Program(helpers, main) ==
  [functions |-> Append(helpers, [name |-> "main", params |-> main.params, body |-> main.body]),
   input |-> main.input]

\* Lists of at most two of some statements.
UpToTwo(S) == {<<>>} \cup {<<a>> : a \in S} \cup {<<a, b>> : a, b \in S}

-----------------------------------------------------------------------------
(* Branches over a parameter: merges, nesting, early returns.              *)

ArmAtoms == {Assign("x", Plus(x, N(2))), Assign("x", p), Return(Plus(x, x))}
ArmBodies == {<<>>} \cup {<<a>> : a \in ArmAtoms} \cup {<<Assign("x", p), a>> : a \in ArmAtoms}
Conditions == {Is(p, 0), Less(p, N(2))}
InnerIfs == {If(Is(p, 0), a, b) : a, b \in {<<s>> : s \in ArmAtoms} \cup {<<>>}}
Ifs == {If(c, a, b) : c \in Conditions, a, b \in ArmBodies}
       \cup {If(Less(p, N(2)), <<i>>, b) : i \in InnerIfs, b \in ArmBodies}
       \cup {ElseIf(Is(p, 0), a, If(Less(p, N(2)), b, c)) :
               a, b, c \in {<<>>} \cup {<<s>> : s \in ArmAtoms}}
Tails == {<<>>, <<Assign("x", Plus(x, x))>>, <<If(Is(x, 2), <<Return(N(7))>>, <<>>)>>,
          <<If(Less(x, N(2)), <<Assign("x", N(5))>>, <<Assign("x", Plus(x, N(1)))>>)>>}
BranchPrograms ==
  {Program(<<>>, Main(<<"p">>, <<Let("x", N(1)), s>> \o tail \o <<Return(x)>>, [p |-> Num(n)])) :
     s \in Ifs, tail \in Tails, n \in {0, 2}}

-----------------------------------------------------------------------------
(* Loops: write-back of captures, break and continue, the iteration limit. *)

LoopAtoms == {Assign("x", Plus(x, N(1))), Assign("y", Plus(y, x)),
              If(Is(x, 2), <<Break>>, <<>>), If(Is(y, 1), <<Continue>>, <<>>),
              If(Less(x, N(2)), <<Assign("y", x)>>, <<Assign("x", y), Break>>)}
LoopBodies == UpToTwo(LoopAtoms)
              \cup {<<Assign("x", Plus(x, N(1)))>> \o b : b \in UpToTwo(LoopAtoms)}
OneTwoThree == Lit(Arr(<<Num(1), Num(2), Num(3)>>))
Loops == {For("v", "", OneTwoThree, b \o c) :
            b \in LoopBodies, c \in {<<>>, <<Assign("y", Plus(y, v))>>}}
         \cup {For("v", "i", OneTwoThree, <<Assign("y", Plus(Var("i"), y))>> \o b) : b \in UpToTwo(LoopAtoms)}
         \cup {While(Less(x, N(n)), b) : n \in {2, 5}, b \in LoopBodies}
LoopPrograms ==
  {Program(<<>>, Main(<<>>, <<Let("x", N(0)), Let("y", N(0))>> \o before \o <<l>>
                             \o <<Return(Object([x |-> x, y |-> y]))>>, <<>>)) :
     l \in Loops, before \in {<<>>, <<If(Is(x, 0), <<Assign("y", N(1))>>, <<>>)>>}}
  \cup {Program(<<>>, Main(<<>>, <<Let("x", N(0)), Let("y", N(1)),
                                   If(Is(x, n), <<l>>, <<Assign("x", y)>>), Return(Plus(x, y))>>, <<>>)) :
          l \in {k \in Loops : k.s = "while"}, n \in {0, 1}}

-----------------------------------------------------------------------------
(* Calls: in nodes and in expressions, recursion, the depth limit.         *)

Half  == [name |-> "half", params |-> <<"n">>,
          body |-> <<If(Less(Var("n"), N(2)), <<Return(N(0))>>, <<Return(Binary("/", Var("n"), N(2)))>>),
                     Return(N(9))>>]
Spin  == [name |-> "spin", params |-> <<"n">>,
          body |-> <<If(Less(N(0), Var("n")),
                        <<Return(Plus(N(1), Call("spin", <<Binary("-", Var("n"), N(1))>>)))>>, <<>>),
                     Return(N(0))>>]
Point == [name |-> "point", params |-> <<"a", "b">>,
          body |-> <<Return(Object([left |-> Var("a"), right |-> Call("half", <<Var("b")>>)]))>>]
CallExprs == {Call("half", <<Plus(x, N(3))>>), Plus(Call("half", <<x>>), Call("half", <<N(4)>>)),
              Call("spin", <<x>>), Call("spin", <<Call("half", <<N(5)>>)>>),
              Call("spin", <<N(4)>>), Plus(x, Binary("/", N(4), x))}
CallPrograms ==
  {Program(<<Half, Spin, Point>>,
           Main(<<>>, <<Let("x", N(n)), Let("y", a), Assign("x", b), Eval(Call("half", <<y>>)),
                        Let("o", Call("point", <<x, y>>)),
                        If(Is(Member(Var("o"), "right"), 1), <<Assign("x", Member(Var("o"), "left"))>>, <<>>),
                        Return(PostfixIf(Less(y, x), Var("o"), Plus(x, y)))>>, <<>>)) :
     n \in 0 .. 2, a, b \in CallExprs}
  \cup {Program(<<Half, Spin>>,
                Main(<<>>, <<Let("x", N(0)), For("v", "", OneTwoThree, <<Assign("x", Plus(x, a))>>),
                             Return(x)>>, <<>>)) :
          a \in {Call("half", <<v>>), Call("spin", <<v>>)}}
  \cup {Program(<<Half, Spin>>,
                Main(<<>>, <<Let("x", N(5)), For("v", "", OneTwoThree, <<If(Is(v, n), <<l>>, <<>>), Assign("x", a)>>),
                             Return(x)>>, <<>>)) :
          n \in 1 .. 3, l \in {Break, Continue}, a \in {Call("half", <<Plus(v, x)>>), Call("spin", <<v>>)}}

-----------------------------------------------------------------------------
(* Values: operators, arrays, texts with expressions in them.              *)

T(text) == Lit(Str(text))
Numbers == {Binary("%", Binary("-", x, N(5)), N(2)), Binary("*", x, p), Binary("%", N(3), p)}
Tests == {Binary("and", Binary("<=", x, p), Not(Binary("!=", p, N(2)))),
          Binary("or", Is(x, 1), Binary(">", x, p)), Binary("and", Binary(">=", x, p), x), Not(p)}
Texts == {Interpolated(<<T("n: "), x, p, T("!")>>), Interpolated(<<p, T("-"), Binary("<", x, p)>>),
          Plus(x, T("s")), Interpolated(<<x, p>>), Interpolated(<<p>>)}
ValuePrograms ==
  {Program(<<>>, Main(<<"p">>, <<Let("x", N(3)), Assign("x", a), If(c, <<Assign("x", N(1))>>, <<>>),
                                 Let("s", t),
                                 Return(Array(<<x, Var("s"), Binary("==", Var("s"), T("n: 12!"))>>))>>,
                      [p |-> Num(n)])) :
     a \in Numbers, c \in Tests, t \in Texts, n \in {0, 2}}
  \cup {Program(<<>>, Main(<<>>, <<Let("x", N(3)), Let("s", T("")),
                                   For("v", "i", Array(<<x, Plus(x, N(1)), e>>),
                                       <<Assign("s", t), Assign("x", Plus(x, v))>>),
                                   Return(Object([x |-> x, s |-> Var("s")]))>>, <<>>)) :
          e \in {N(0), Var("s"), Is(x, 3)},
          t \in {Interpolated(<<Var("s"), T(","), v>>), Plus(Var("s"), Var("i"))}}

-----------------------------------------------------------------------------
(* Programs with errors of names and of control, and some without.         *)

Suspects == {Let("x", N(2)), Let("z", x), Assign("z", x), Assign("x", Var("z")), Break,
             Return(x), Eval(Call("none", <<x>>)), Let("a", Array(<<x, Var("z")>>)),
             Let("t", Interpolated(<<T("x"), Var("z")>>)), If(Is(Var("z"), 0), <<Break>>, <<>>),
             If(Is(x, 0), <<Let("z", x)>>, <<Assign("x", Var("z"))>>),
             ElseIf(Is(x, 0), <<>>, If(Is(Var("w"), 1), <<Assign("x", N(3))>>, <<>>)),
             For("x", "", OneTwoThree, <<Assign("x", N(2)), Break>>),
             For("v", "v", OneTwoThree, <<>>), For("v", "", Var("z"), <<>>),
             While(Less(Var("z"), N(2)), <<Assign("z", N(2)), Return(x)>>)}
SuspectPrograms ==
  {Program(<<>>, Main(<<>>, <<Let("x", N(1))>> \o b \o <<Return(x)>>, <<>>)) : b \in UpToTwo(Suspects)}

-----------------------------------------------------------------------------

AllPrograms == BranchPrograms \cup LoopPrograms \cup CallPrograms
               \cup ValuePrograms \cup SuspectPrograms
FragmentPrograms == {prog \in AllPrograms : ~Checked(prog) \/ Fragment(prog)}
=============================================================================

----------------------------- MODULE MCWorkflow -----------------------------
(***************************************************************************)
(* Small workflows of one agent: the statements of the fragment in         *)
(* combination, statements on either side of its edges, and EarlyReturns,  *)
(* the shape of the documentation's examples: a check that returns before  *)
(* the rest.                                                               *)
(***************************************************************************)
EXTENDS WorkflowMeaning, PromptMeaning

Param(name, ty) == [name |-> name, ty |-> ty]

MCTools == [look |-> [params |-> <<>>, returns |-> TText],
            pay  |-> [params |-> <<Param("amount", TNum), Param("to", TText)>>, returns |-> TText],
            send |-> [params |-> <<Param("to", TText), Param("amount", TNum)>>, returns |-> TText]]
MCScopedTools == [wipe  |-> [params |-> <<>>, returns |-> TBool],
                  erase |-> [params |-> <<Param("id", TText)>>, returns |-> TText]]
MCContext == [admin |-> TBool, name |-> TText, age |-> TNum, user |-> TRecord([name |-> TText], {})]
MCInput == [topic |-> TText, order |-> TRecord([name |-> TText], {})]
MCNames == <<"amount", "id", "to">>

Item == TRecord([name |-> TText, note |-> TText], {"note"})
Params == <<Param("n", TNum), Param("item", Item), Param("rows", TList(Item))>>
AnItem == Obj([name |-> Text("a")])
Args == [n |-> Num(0), item |-> AnItem, rows |-> List(<<AnItem>>)]
Workflow(stmts) == [params |-> Params, returns |-> TText, body |-> stmts, args |-> Args]

Answers == [look |-> Text("a"), pay |-> Text("p"), send |-> Text("s"), wipe |-> Bool(TRUE),
            erase |-> Text("e"), ask |-> Text("h")]
MCWorlds ==
  {[answers |-> answers, context |-> [admin |-> Bool(admin)], wasm |-> FALSE] :
     answers \in {Answers} \cup {[Answers EXCEPT ![tool] = Failure] :
                                 tool \in {"look", "pay", "wipe", "ask"}},
     admin \in BOOLEAN}
  \cup {[answers |-> [Answers EXCEPT !.pay = paid], context |-> [admin |-> Bool(TRUE)], wasm |-> TRUE] :
          paid \in {Text("p"), Failure}}

-----------------------------------------------------------------------------
n == Var("n")
x == Var("x")
y == Var("y")
A == Lit(Text("a"))
Name == Member("item", <<"name">>)
Look == Call("look", <<>>)
Pay(v) == Call("pay", <<n, v>>)

Texts == {A, Name, x, Look, Pay(x), Pay(Look)}
Tests == {Compare("<", n, Lit(Num(1))), Holds(Ctx("admin")),
          Logical("&&", Holds(Ctx("admin")), Compare("==", Look, A)),
          Logical("||", Holds(Call("wipe", <<>>)), Compare("!=", x, A))}
Lets(name) == {Let(name, t) : t \in Texts}
Returns == {Return(t) : t \in {Name, x, Pay(Look)}} \cup {Return(Ask("ask", <<t>>)) : t \in {x, Look}}

Forks == {Parallel(<<a, b>>) : a \in Lets("y"), b \in {Let("z", t) : t \in {x, Look, Pay(Look)}}}
         \cup {Parallel(<<If(c, <<a>>, <<>>), Let("z", Look), b>>) :
                 c \in Tests, a \in {Let("y", Pay(x))}, b \in {Let("w", A), Let("w", Pay(A))}}
Ifs == {If(c, then, else) : c \in Tests, then \in {<<a>> : a \in Lets("y")},
                            else \in {<<>>, <<Let("y", Look)>>}}
Nested == {If(c, <<If(d, <<Let("y", Pay(x))>>, <<>>), f>>, <<>>) :
             c, d \in Tests, f \in {Let("w", Look), Parallel(<<Let("z", Look), Let("w", Pay(x))>>)}}
Ends == {<<r>> : r \in Returns}
        \cup {<<If(c, <<r>>, <<Let("v", Look), q>>)>> :
                c \in Tests, r \in {Return(Ask("ask", <<x>>))}, q \in {Return(Pay(x)), Return(Var("v"))}}
        \cup {<<If(Holds(Ctx("admin")), <<Let("y", Look)>>, <<>>)>>, <<Let("y", Pay(x))>>}

Plain == {Workflow(<<Let("x", Look)>> \o middle \o end) :
            middle \in {<<m>> : m \in Forks \cup Ifs \cup Nested} \cup {<<>>}, end \in Ends}

\* Statements on either side of the fragment's edges.
Edges ==
  {Let("y", v) : v \in {Call("send", <<A, n>>), Call("erase", <<A>>), Call("gone", <<A>>),
                        Member("item", <<"note">>), Member("x", <<"name">>), Member("gone", <<"name">>),
                        Member("item", <<"gone">>), Index("rows", Lit(Num(0)), <<>>),
                        Index("rows", Lit(Num(0)), <<"name">>), Index("rows", Lit(Num(1)), <<>>),
                        Var("admin"), Var("topic"), Member("order", <<"name">>), Member("order", <<"gone">>),
                        Ctx("gone"), Ctx("topic"), Ask("ask", <<x>>), Ask("gone", <<x>>),
                        Plus(n, n), Plus(x, A), Object([name |-> x]), Call("pay", <<x, n>>),
                        Call("pay", <<n>>), Call("look", <<A>>)}}
  \cup {Assign("x", A), Assign("gone", A), Assign("topic", A), Let("topic", A), Transfer("ask"), Return(A),
        Parallel(<<Let("y", Look), Let("z", Pay(y))>>), Parallel(<<Return(A), Let("y", Look)>>),
        If(Compare("==", n, A), <<>>, <<>>), If(Compare("<", x, A), <<>>, <<>>), If(Holds(x), <<>>, <<>>),
        If(Compare("==", Var("topic"), A), <<Let("y", Look)>>, <<>>),
        If(Holds(Call("erase", <<A>>)), <<Let("y", Look)>>, <<>>),
        If(Holds(Object([name |-> x])), <<Let("y", Look)>>, <<>>),
        If(Holds(Ctx("admin")), <<Return(A)>>, <<>>), Let("x", A), Let("n", A)}
EdgeWorkflows == {Workflow(<<Let("x", Look), stmt>> \o end) :
                    stmt \in Edges, end \in {<<Return(y)>>, <<Return(Pay(x))>>, <<>>}}

AllWorkflows == Plain \cup EdgeWorkflows

EarlyReturns ==
  {Workflow(<<If(c, <<Return(A)>>, <<>>), Let("x", t), Return(x)>>) : c \in Tests, t \in {Look, Pay(A)}}

-----------------------------------------------------------------------------
(* Prompts.                                                                *)

CtxTag(path) == Tag(<<"ctx">> \o path)
Old == Compare(">", CtxTag(<<"age">>), Lit(Num(1)))
AdminTag == Holds(CtxTag(<<"admin">>))

MCNamed ==
  [Welcome |-> [params |-> <<>>,
     body |-> <<A, Example(<<[role |-> "user", text |-> "q"], [role |-> "assistant", text |-> "r"]>>)>>],
   Greet   |-> [params |-> <<Param("name", TText), Param("vip", TBool)>>,
     body |-> <<Template(<<Tag(<<"name">>),
                           TagIf(Compare("==", Tag(<<"vip">>), Lit(Bool(TRUE))), <<Lit(Text("v"))>>, <<A>>)>>)>>],
   Serve   |-> [params |-> <<Param("vip", TBool)>>,
     body |-> <<If(Holds(Var("vip")), <<Return(Lit(Text("v")))>>, <<Return(A)>>), Lit(Text("e"))>>],
   Aged    |-> [params |-> <<Param("years", TNum)>>,
     body |-> <<If(Compare(">", Var("years"), Lit(Num(1))), <<Return(Lit(Text("v")))>>, <<>>)>>],
   Admins  |-> [params |-> <<>>,
     body |-> <<If(Holds(Ctx("admin")), <<If(Holds(Ctx("gone")), <<>>, <<Return(Ctx("name"))>>)>>,
                                        <<Return(Template(<<CtxTag(<<"age">>)>>))>>), A>>],
   Outer   |-> [params |-> <<Param("a", TText), Param("b", TText)>>, body |-> <<Call("Inner", <<Var("b"), Var("a")>>)>>],
   Inner   |-> [params |-> <<Param("a", TText), Param("b", TText)>>, body |-> <<Template(<<Tag(<<"a">>), A, Tag(<<"b">>)>>)>>],
   Let_    |-> [params |-> <<Param("a", TText)>>, body |-> <<Let("c", Var("a")), If(Holds(Var("c")), <<Return(Var("c"))>>, <<>>)>>],
   Early   |-> [params |-> <<>>, body |-> <<Return(A), SchemaTag("output")>>],
   Armed   |-> [params |-> <<>>, body |-> <<If(Holds(Ctx("admin")), <<Return(Var("Welcome"))>>, <<>>)>>],
   Round   |-> [params |-> <<>>, body |-> <<Plus(A, Var("Circle"))>>],
   Circle  |-> [params |-> <<>>, body |-> <<A, Var("Round")>>],
   Lost    |-> [params |-> <<>>, body |-> <<Example(<<[role |-> "user", text |-> "q"], [role |-> "user", text |-> "r"]>>),
                                            Var("gone")>>]]
MisNamed == [Welcome |-> [params |-> <<>>, body |-> <<Template(<<CtxTag(<<"name">>)>>)>>]]

Tags == {CtxTag(<<"name">>), CtxTag(<<"user", "name">>), CtxTag(<<"first-name">>), CtxTag(<<"gone">>),
         Tag(<<"name">>), SchemaTag("output"),
         TagIf(Old, <<CtxTag(<<"age">>)>>, <<A>>), TagIf(AdminTag, <<CtxTag(<<"name">>)>>, <<TagIf(Old, <<>>, <<A>>)>>),
         TagIf(Compare("!=", CtxTag(<<"user", "name">>), Lit(Text(""))), <<CtxTag(<<"user">>)>>, <<>>)}
Uses == {Var(name) : name \in {"Welcome", "Greet", "Admins", "Early", "Armed", "Circle", "Lost", "gone"}}
        \cup {Call("Greet", <<a, b>>) : a \in {Ctx("name"), A}, b \in {Ctx("admin"), Lit(Bool(TRUE)), A}}
        \cup {Call("Serve", <<b>>) : b \in {Ctx("admin"), Lit(Bool(FALSE))}}
        \cup {Call("Aged", <<b>>) : b \in {Ctx("age"), Lit(Num(2))}}
        \cup {Call("Outer", <<Ctx("name"), a>>) : a \in {A, Template(<<CtxTag(<<"user", "name">>)>>)}}
        \cup {Call("Let_", <<Ctx("name")>>), Call("Outer", <<Var("Welcome"), A>>), Call("Aged", <<Lit(Num(2)), A>>)}

AnAgentPrompt(p, named, native, hooks) == [prompt |-> p, named |-> named, native |-> native, hooks |-> hooks]
MCPrompts ==
  {Template(<<t, A, CtxTag(<<"name">>)>>) : t \in Tags}
  \cup {Plus(u, Template(<<CtxTag(<<"name">>)>>)) : u \in Uses}
  \cup {InlinePrompt(<<u, Template(<<TagIf(AdminTag, <<CtxTag(<<"user", "name">>)>>, <<A>>)>>)>>) : u \in Uses}
MCPromptFiles ==
  {AnAgentPrompt(p, MCNamed, FALSE, FALSE) : p \in MCPrompts}
  \cup {AnAgentPrompt(Template(<<t>>), MCNamed, native, ~native) : t \in Tags, native \in BOOLEAN}
  \cup {AnAgentPrompt(PromptBlock(<<p>>), MCNamed, FALSE, FALSE) : p \in Uses}
  \cup {AnAgentPrompt(Ctx("name"), MisNamed, FALSE, FALSE)}

MCSettings == {[name |-> Text("a"), admin |-> Bool(TRUE), age |-> Num(2), user |-> Obj([name |-> Text("b")])],
               ("name" :> Text("") @@ "admin" :> Bool(FALSE) @@ "first-name" :> Text("c")
                  @@ "user_name" :> Text("d")),
               [admin |-> Bool(TRUE), age |-> Num(0), gone |-> Bool(FALSE)]}
MCSymbolName == [key \in {"name", "admin", "age", "user", "gone", "first-name", "user_name"} |->
                   IF key = "first-name" THEN "first_name" ELSE key]

-----------------------------------------------------------------------------
(* The agent runs a workflow, or it is run itself.                         *)

AgentInit ==
    \/ /\ Init
       /\ file = Nothing /\ ir = Nothing /\ at = "none" /\ context = <<>> /\ system = Nothing
       /\ keys = Nothing /\ sent = Nothing /\ sets = 0 /\ calls = 0
    \/ /\ PromptInit
       /\ wf = Nothing /\ world = Nothing /\ body = <<>> /\ scope = <<>> /\ work = <<>>
       /\ value = NoValue /\ last = Null /\ log = <<>> /\ outcome = Nothing
AgentNext == (Next /\ UNCHANGED promptVars) \/ (PromptNext /\ UNCHANGED vars)
AgentSpec == AgentInit /\ [][AgentNext]_<<vars, promptVars>>
=============================================================================

--------------------------- MODULE MCAgentBindings ---------------------------
(***************************************************************************)
(* Small agent files: what an agent may declare, two features at a time    *)
(* beside each set of types, with the names on which the languages differ. *)
(***************************************************************************)
EXTENDS AgentEngine

\* A word in its spellings: with an upper and a lower first letter, as a title, small.
Spellings ==
    {<<w, w, w, w, w>> : w \in {"7"}} \cup
    {<<"Person", "Person", "person", "Person", "person">>,
     <<"UserProfile", "UserProfile", "userProfile", "Userprofile", "userprofile">>,
     <<"Node", "Node", "node", "Node", "node">>, <<"Scout", "Scout", "scout", "Scout", "scout">>,
     <<"Text", "Text", "text", "Text", "text">>, <<"High", "High", "high", "High", "high">>,
     <<"Account", "Account", "account", "Account", "account">>,
     <<"Ghost", "Ghost", "ghost", "Ghost", "ghost">>,
     <<"Local", "Local", "local", "Local", "local">>, <<"Demo", "Demo", "demo", "Demo", "demo">>,
     <<"Card", "Card", "card", "Card", "card">>, <<"Up", "Up", "up", "Up", "up">>,
     <<"lookUp", "LookUp", "lookUp", "Lookup", "lookup">>,
     <<"typeRef", "TypeRef", "typeRef", "Typeref", "typeref">>}
    \cup {<<pair[1], pair[2], pair[1], pair[2], pair[1]>> :
            pair \in {<<"string", "String">>, <<"number", "Number">>, <<"boolean", "Boolean">>,
                      <<"image", "Image">>, <<"text", "Text">>, <<"low", "Low">>,
                      <<"look", "Look">>, <<"up", "Up">>, <<"pay", "Pay">>, <<"wipe", "Wipe">>,
                      <<"tool", "Tool">>, <<"flow", "Flow">>, <<"web", "Web">>,
                      <<"search", "Search">>, <<"note", "Note">>, <<"pass", "Pass">>,
                      <<"function", "Function">>, <<"error", "Error">>, <<"id", "Id">>, <<"user", "User">>,
                      <<"name", "Name">>, <<"type", "Type">>, <<"next", "Next">>,
                      <<"openai", "Openai">>, <<"my", "My">>, <<"llm", "Llm">>,
                      <<"response", "Response">>, <<"schema", "Schema">>, <<"call", "Call">>,
                      <<"result", "Result">>, <<"skipped", "Skipped">>,
                      <<"workflow", "Workflow">>, <<"helper", "Helper">>,
                      <<"to", "To">>, <<"union", "Union">>, <<"array", "Array">>, <<"object", "Object">>, <<"any", "Any">>,
                      <<"component", "Component">>, <<"render", "Render">>}}
Spelled(i) == [w \in {s[1] : s \in Spellings} |-> (CHOOSE s \in Spellings : s[1] = w)[i]]
MCUpper == Spelled(2)
MCLower == Spelled(3)
MCTitle == Spelled(4)
MCSmall == Spelled(5)

Compounds ==
    ("look_up" :> <<"look", "up">>) @@ ("look_tool" :> <<"look", "tool">>) @@
    ("user_name" :> <<"user", "name">>) @@ ("web_search" :> <<"web", "search">>) @@
    ("my-llm" :> <<"my", "llm">>) @@ ("my.llm" :> <<"my", "llm">>) @@
    ("response_text" :> <<"response", "text">>) @@ ("response_schema" :> <<"response", "schema">>) @@
    ("tool_call" :> <<"tool", "call">>) @@ ("tool_result" :> <<"tool", "result">>) @@
    ("tool_error" :> <<"tool", "error">>) @@ ("tool_skipped" :> <<"tool", "skipped">>) @@
    ("workflow_call" :> <<"workflow", "call">>) @@ ("workflow_result" :> <<"workflow", "result">>) @@
    ("helper_call" :> <<"helper", "call">>) @@ ("helper_result" :> <<"helper", "result">>) @@
    ("render_component" :> <<"render", "component">>)
MCWordsOf == [n \in DOMAIN MCSmall \cup DOMAIN Compounds |->
                IF n \in DOMAIN Compounds THEN Compounds[n] ELSE <<n>>]
MCDashed == [id \in {"my-llm", "my.llm", "Local", "openai"} |->
               IF id = "my-llm" THEN "my_llm" ELSE id]

-----------------------------------------------------------------------------
\* Every name of a field, and the keys of the IR's own.
MCAlphabet == <<"id", "items", "name", "next", "note", "optional", "options", "press", "properties",
                "text", "to", "type", "user", "user_name">>

S == Ty("string")
Id == Field("id", S)
Person == [name |-> "Person", fields |-> <<Field("name", S)>>]
Profile == [name |-> "UserProfile", fields |-> <<Field("name", Ref("Person"))>>]
Node == [name |-> "Node", fields |-> <<Maybe("next", Ref("Node"))>>]
Tree == [name |-> "Node", fields |-> <<Field("next", Array(Ref("Node")))>>]
Account == [name |-> "Account", fields |-> <<Field("type", Union(<<"low", "High">>))>>]

Look == Tool("look", <<>>, S)
Wipe == Tool("wipe", <<Id>>, Ty("boolean"))
Pay == Tool("pay", <<Field("to", Ref("Person")),
                     Maybe("note", Object(<<Field("text", Array(S)), Maybe("id", S)>>))>>, S)
Flow(tools, transfers) == Workflow("flow", <<Id>>, S, tools, transfers)
Scout(input, output) == Helper("Scout", input, output, <<>>, <<>>, <<>>)

Features ==
    [types |-> {<<Person, Profile>>, <<Person, Account>>, <<Person, Node>>, <<Person, Tree>>},
     input |-> {Direct(Ty("image")), Direct(Union(<<"Text", "Image">>))},
     output |-> {Properties(<<Id>>), Properties(<<Maybe("id", Array(S))>>), Direct(Ref("Person")),
                 Either(<<"Person", "Account">>), Direct(Ref("Node")), Direct(Union(<<"low", "High">>)),
                 Direct(Ty("number"))},
     context |-> {<<Field("id", Ref("Person"))>>},
     tools |-> {<<Look>>, <<Tool("pay", <<Maybe("id", S), Field("name", Ref("Person"))>>, Ref("Person"))>>,
                <<Tool("look", <<Field("id", Array(Ref("Account")))>>, Array(S))>>,
                <<Tool("look_up", <<Id>>, S), Tool("lookUp", <<Field("name", S)>>, S)>>,
                <<Wipe, Tool("look", <<Id>>, S), Tool("look_tool", <<Field("name", S)>>, S)>>,
                <<Tool("look", <<Field("type", S)>>, S)>>, <<Pay>>,
                <<Tool("look", <<Field("user", Ref("Person")), Field("user_name", S)>>, S)>>,
                <<Tool("look", <<Field("id", Array(Ref("Ghost")))>>, S)>>},
     workflows |-> {<<Workflow("flow", <<>>, S, <<>>, <<>>)>>, <<Flow(<<Wipe>>, <<>>)>>,
                    <<Flow(<<Tool("look", <<Field("name", S)>>, S)>>, <<>>)>>,
                    <<Flow(<<>>, <<"Scout">>)>>,
                    <<Workflow("flow", <<Field("type", S)>>, Ref("Person"), <<>>, <<>>)>>,
                    <<Workflow("flow", <<Maybe("name", Array(Ref("Ghost")))>>, S, <<>>, <<>>)>>},
     intents |-> {<<Intent("note", <<Id>>)>>, <<Intent("note", <<>>)>>, <<Intent("pass", <<Id>>)>>,
                  <<Intent("function", <<Id>>)>>, <<Intent("error", <<Id>>)>>,
                  <<Intent("note", <<Maybe("name", Ref("Person"))>>)>>,
                  <<Intent("look_up", <<Id>>), Intent("lookUp", <<Id>>)>>},
     helpers |-> {<<Scout(NoShape, NoShape)>>, <<Scout(Properties(<<Id>>), Properties(<<Id>>))>>,
                  <<Scout(Direct(S), Either(<<"Person", "Account">>))>>,
                  <<Scout(Direct(Ref("Person")), NoShape)>>,
                  <<Helper("web_search", Direct(S), Direct(Ref("Person")), <<>>, <<>>, <<>>)>>,
                  <<Helper("Scout", NoShape, NoShape, <<Wipe>>, <<>>, <<Intent("note", <<Id>>)>>)>>,
                  <<Helper("Scout", NoShape, NoShape, <<>>, <<Flow(<<Wipe>>, <<>>)>>, <<>>)>>},
     components |-> {<<Component("Card", <<>>, <<>>, <<>>)>>,
                     <<Component("Card", <<Id>>, <<Event("press", <<Tool("wipe", <<Id>>, S)>>)>>, <<"Card">>)>>,
                     <<Component("Card", <<Maybe("user", Ref("Person")), Id>>,
                                 <<Event("press", <<Look>>)>>, AllChildren)>>},
     models |-> {<<Provider("custom", id)>> : id \in DOMAIN MCDashed}
                  \cup {<<Provider("openai", ""), Provider("custom", "openai")>>, <<>>},
     grants |-> {<<GrantAll("Scout")>>, <<Grant("Scout", {"wipe"})>>},
     handoff |-> {<<"Scout">>},
     protocol |-> {"native", "block"}]

Rich == [EmptyFile EXCEPT !.types = <<Person>>, !.tools = <<Wipe>>,
                          !.context = <<Field("user", S)>>, !.output = Properties(<<Id>>)]
Team == [Rich EXCEPT !.workflows = <<Flow(<<>>, <<>>)>>, !.handoff = <<"Scout">>,
                     !.helpers = <<Scout(Properties(<<Id>>), Properties(<<Id>>))>>]
MCFiles ==
    LET given == UNION {{<<d, v>> : v \in Features[d]} : d \in DOMAIN Features}
        With(base, feature) == [base EXCEPT ![feature[1]] = feature[2]]
    IN {With(With(base, f), g) :
          base \in {EmptyFile, Rich, Team}, f, g \in given}
=============================================================================

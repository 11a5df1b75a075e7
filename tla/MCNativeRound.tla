---------------------------- MODULE MCNativeRound ----------------------------
(* Instances of NativeRound for TLC. *)
EXTENDS NativeRound

Line(words, ds, reason) == [good |-> TRUE, text |-> words, deltas |-> ds, finish |-> reason]
Noise == Line(<<>>, <<>>, "")
Unreadable(line) == [line EXCEPT !.good = FALSE]
Tool(n, name) == [id |-> Given(n), name |-> name, args |-> <<"{", "}">>]

(* A call in two deltas, the first with its id and name. *)
Begins(i, c) == Line(<<>>, <<[index |-> i, id |-> c.id, name |-> c.name, args |-> <<"{">>]>>, "")
Goes(i) == Line(<<>>, <<[index |-> i, id |-> NoId, name |-> "", args |-> <<"}">>]>>, "")
Whole(c) == [index |-> 0, id |-> c.id, name |-> c.name, args |-> c.args]

Answer(says, lines) == [says |-> says, lines |-> lines]
End == Line(<<>>, <<>>, "tool_calls")
Words == Line(<<"w">>, <<>>, "")

TwoCalls(a, b) ==
    {Answer(<<a, b>>, lines \o <<End>>) :
        lines \in {<<Begins(1, b), Begins(0, a), Goes(1), Goes(0)>>,
                   <<Begins(0, a), Begins(1, b), Goes(0), Goes(1)>>}}

(* No tool is called twice in a round: see ResultsFindTheirCalls. *)
ByOpenAI ==
    TwoCalls(Tool(1, "tool_a"), Tool(2, "tool_b"))
    \cup {Answer(<<Tool(1, "tool_a")>>, <<Words, Begins(0, Tool(1, "tool_a")), Goes(0), End, Noise>>),
          Answer(<<Tool(1, "stray")>>, <<Begins(0, Tool(1, "stray")), Goes(0), End>>),
          Answer(<<Tool(1, "tool_a")>>, <<Begins(0, Tool(1, "tool_a")), Unreadable(Goes(0)), End>>),
          Answer(<<>>, <<Words, Line(<<>>, <<>>, "stop")>>),
          Answer(<<>>, <<Noise>>)}

Anonymous(name) == [id |-> NoId, name |-> name, args |-> <<"{", "}">>]

ByGemini ==
    {Answer(<<Tool(1, "tool_a"), Anonymous("tool_b")>>,
            <<Line(<<"w">>, <<Whole(Tool(1, "tool_a"))>>, ""),
              Line(<<>>, <<Whole(Anonymous("tool_b"))>>, "stop")>>),
     Answer(<<Anonymous("tool_a")>>, <<Line(<<>>, <<Whole(Anonymous("tool_a"))>>, "stop"), Unreadable(Noise)>>),
     Answer(<<>>, <<Words>>)}

Mixed == [openai |-> ByOpenAI, gemini |-> ByGemini]

ASSUME AllHonest == \A p \in Providers : \A a \in Mixed[p] : Honest(p, a)
===============================================================================

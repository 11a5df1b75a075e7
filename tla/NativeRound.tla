----------------------------- MODULE NativeRound -----------------------------
(***************************************************************************)
(* A native tool call on its way: from the provider's stream of bytes      *)
(* through the driver (auwgent-drivers/src/openai.rs, gemini.rs) to the    *)
(* engine that acts on it (runtime_loop.rs), and back as a result in the   *)
(* messages of the next request (auwgent-session/src/state.rs and again   *)
(* the drivers).                                                           *)
(*                                                                         *)
(* The provider sends an answer line by line.  What arrives is cut into    *)
(* chunks anywhere: a unit is half a line, and the second half carries the *)
(* newline.                                                                *)
(***************************************************************************)
EXTENDS Integers, Sequences, FiniteSets

CONSTANTS
    Answers,    \* what a provider may answer, by provider
    Outcomes,   \* what may become of a call
    MaxEmpty,   \* MAX_EMPTY_COMPLETION_RETRIES
    MaxRounds   \* bound: requests

S == INSTANCE SequencesExt

Providers == {"openai", "gemini"}

(* Ids: the model's, those the session makes up, and none. *)
Given(n) == [by |-> "model", turn |-> 0, at |-> n]
MadeUp(t, n) == [by |-> "session", turn |-> t, at |-> n]
NoId == [by |-> "none", turn |-> 0, at |-> 0]

IsSequence(s) == s \in Seq(S!Range(s))
IsCalls(s) == IsSequence(s) /\ \A i \in DOMAIN s : IsSequence(s[i].args)

ASSUME AnswersAssumption ==
    \A p \in Providers : \A a \in Answers[p] :
        /\ IsCalls(a.says) /\ IsSequence(a.lines)
        /\ \A i \in DOMAIN a.lines :
              /\ a.lines[i].good \in BOOLEAN
              /\ a.lines[i].finish \in {"", "stop", "tool_calls"}
              /\ IsSequence(a.lines[i].text) /\ IsCalls(a.lines[i].deltas)
              /\ \A j \in DOMAIN a.lines[i].deltas : a.lines[i].deltas[j].index \in 0..9
ASSUME OutcomesAssumption == Outcomes \subseteq {"done", "skipped", "failed", "handoff"}
ASSUME BoundsAssumption == MaxRounds \in Nat /\ MaxEmpty \in Nat

VARIABLES
    phase,     \* "idle", "asking", "streaming"
    provider,  \* who is asked in this round
    answer,    \* what it means to say
    sent,      \* units of the answer that have arrived
    parsed,    \* lines the driver has taken out of its buffer
    deltas,    \* tool_call_buffer
    events,    \* what the driver gathered and the engine has not heard
    text,      \* current_raw_response
    calls,     \* native_tool_calls
    results,   \* pending_tool_results
    acted,     \* actions_performed
    finish,    \* turn_finish_reason
    empties,   \* empty_completion_retries
    turns,     \* session.turns
    request,   \* the messages of the last request
    rounds,    \* history: requests
    heard      \* history: the calls the engine heard in this round

vars == <<phase, provider, answer, sent, parsed, deltas, events, text, calls, results,
          acted, finish, empties, turns, request, rounds, heard>>
roundVars == <<deltas, events, text, calls, results, acted, finish, heard>>

-----------------------------------------------------------------------------
(* The driver. *)

Text == [kind |-> "text", id |-> NoId, name |-> "", args |-> <<>>]
Call(c) == [kind |-> "call", id |-> c.id, name |-> c.name, args |-> c.args]
Finish(reason) ==
    IF reason = "" THEN <<>>
    ELSE <<[kind |-> "finish", id |-> NoId, name |-> reason, args |-> <<>>]>>

Blank == [id |-> NoId, name |-> "", args |-> <<>>]

(* Mutant: the pieces of a call replace one another. *)
AccumulateLast(buffer, d) ==
    [i \in DOMAIN buffer \cup {d.index} |->
        IF i = d.index THEN [id |-> d.id, name |-> d.name, args |-> d.args] ELSE buffer[i]]

(* The pieces of a call come with its index: id and name once, arguments in *)
(* parts.                                                                  *)
Accumulate(buffer, d) ==
    LET old == IF d.index \in DOMAIN buffer THEN buffer[d.index] ELSE Blank
        new == [id   |-> IF d.id = NoId THEN old.id ELSE d.id,
                name |-> IF d.name = "" THEN old.name ELSE d.name,
                args |-> old.args \o d.args]
    IN  [i \in DOMAIN buffer \cup {d.index} |-> IF i = d.index THEN new ELSE buffer[i]]

AccumulateAll(buffer, ds) ==
    LET upto[i \in 0..Len(ds)] == IF i = 0 THEN buffer ELSE Accumulate(upto[i - 1], ds[i])
    IN  upto[Len(ds)]

InOrder(numbers) ==
    CHOOSE s \in [1..Cardinality(numbers) -> numbers] :
        /\ S!Range(s) = numbers
        /\ \A i, j \in DOMAIN s : i < j => s[i] < s[j]

(* In the order of their indices; without an id or a name a call is lost. *)
Flush(buffer) ==
    LET IsComplete(i) == buffer[i].id # NoId /\ buffer[i].name # ""
        order == InOrder({i \in DOMAIN buffer : IsComplete(i)})
    IN  [k \in DOMAIN order |-> Call(buffer[order[k]])]

Texts(line) == [i \in DOMAIN line.text |-> Text]

(* OpenAI sends a call in deltas; they become calls with the finish reason  *)
(* "tool_calls" only.                                                      *)
ReadOpenAI(state, line) ==
    LET buffer == AccumulateAll(state.deltas, line.deltas)
        flush == line.finish = "tool_calls"
    IN  [deltas |-> IF flush THEN <<>> ELSE buffer,
         events |-> state.events \o Texts(line) \o Finish(line.finish)
                    \o (IF flush THEN Flush(buffer) ELSE <<>>)]

(* Gemini sends a call in one piece. *)
ReadGemini(state, line) ==
    [deltas |-> state.deltas,
     events |-> state.events \o Texts(line)
                \o [i \in DOMAIN line.deltas |-> Call(line.deltas[i])] \o Finish(line.finish)]

Read(state, line) ==
    IF provider = "openai" THEN ReadOpenAI(state, line) ELSE ReadGemini(state, line)

Lines == answer.lines
Units == 2 * Len(Lines)

(* Lines that ended with what has arrived. *)
Complete(units) == units \div 2

(* What lines give one after the other. *)
ReadLines(from, to) ==
    LET upto[i \in from..to] == IF i = from THEN [deltas |-> deltas, events |-> <<>>]
                                ELSE Read(upto[i - 1], Lines[i])
    IN  upto[to]

(* The lines that n more units complete, up to the first that cannot be     *)
(* read.                                                                   *)
Bad(from, to) == {i \in from..to : ~Lines[i].good}

Chunk ==
    /\ phase = "streaming" /\ events = <<>>
    /\ \E units \in (sent + 1)..Units :
          /\ sent' = units
          /\ Bad(parsed + 1, Complete(units)) = {}
          /\ parsed' = Complete(units)
    /\ LET read == ReadLines(parsed, parsed')
       IN  deltas' = read.deltas /\ events' = read.events
    /\ UNCHANGED <<phase, provider, answer, text, calls, results, acted, finish,
                   empties, turns, request, rounds, heard>>

Current == turns[Len(turns)]
OnCurrent(turn) == [turns EXCEPT ![Len(turns)] = turn]

RunEnds ==
    /\ phase' = "idle"
    /\ UNCHANGED <<provider, answer, sent, parsed, deltas, events, text, calls, results,
                   acted, finish, empties, request, rounds, heard>>

(* A line that cannot be read: what came with it in the same chunk is lost, *)
(* and so are the calls of this round, which were made.                    *)
StreamError ==
    /\ phase = "streaming" /\ events = <<>>
    /\ \E units \in (sent + 1)..Units : Bad(parsed + 1, Complete(units)) # {}
    /\ turns' = OnCurrent([Current EXCEPT !.response = "error"])
    /\ RunEnds

-----------------------------------------------------------------------------
(* The engine. *)

HearText ==
    /\ phase = "streaming" /\ events # <<>> /\ Head(events).kind = "text"
    /\ text' = "said" /\ events' = Tail(events)
    /\ UNCHANGED <<phase, provider, answer, sent, parsed, deltas, calls, results, acted,
                   finish, empties, turns, request, rounds, heard>>

HearFinish ==
    /\ phase = "streaming" /\ events # <<>> /\ Head(events).kind = "finish"
    /\ finish' = Head(events).name /\ events' = Tail(events)
    /\ UNCHANGED <<phase, provider, answer, sent, parsed, deltas, text, calls, results,
                   acted, empties, turns, request, rounds, heard>>

Routed(name) == name # "stray"

(* A name without a known prefix is nobody's. *)
HearStray ==
    /\ phase = "streaming" /\ events # <<>> /\ Head(events).kind = "call"
    /\ ~Routed(Head(events).name)
    /\ events' = Tail(events) /\ heard' = Append(heard, Head(events))
    /\ UNCHANGED <<phase, provider, answer, sent, parsed, deltas, text, calls, results,
                   acted, finish, empties, turns, request, rounds>>

Record(call) == [id |-> call.id, name |-> call.name]
Result(call) == [id |-> NoId, name |-> call.name, of |-> call.id]

(* A call is acted on where it stands in the stream.  A helper that hands   *)
(* over ends the stream and is not recorded as a call.                     *)
HearCall ==
    /\ phase = "streaming" /\ events # <<>> /\ Head(events).kind = "call"
    /\ Routed(Head(events).name)
    /\ \E outcome \in Outcomes \ {"failed"} :
          /\ results' = IF outcome = "skipped" THEN results
                        ELSE Append(results, Result(Head(events)))
          /\ acted' = (acted \/ outcome # "skipped")
          /\ calls' = IF outcome = "handoff" THEN calls ELSE Append(calls, Record(Head(events)))
          /\ IF outcome = "handoff"
               THEN events' = <<>> /\ sent' = Units + 1
               ELSE events' = Tail(events) /\ UNCHANGED sent
    /\ heard' = Append(heard, Head(events))
    /\ UNCHANGED <<phase, provider, answer, parsed, deltas, text, finish, empties,
                   turns, request, rounds>>

Answered == IF text = "" THEN Current ELSE [Current EXCEPT !.response = text]

(* process_intents fails: the run returns, and the calls of this round are  *)
(* not recorded.                                                           *)
CallFails ==
    /\ phase = "streaming" /\ events # <<>> /\ Head(events).kind = "call"
    /\ Routed(Head(events).name) /\ "failed" \in Outcomes
    /\ turns' = OnCurrent(IF text = "" THEN [Current EXCEPT !.response = "error"] ELSE Answered)
    /\ RunEnds

(* Mutant: as if every result belonged to the last call. *)
CallIdOfLast(name) ==
    LET same == {i \in DOMAIN calls : calls[i].name = name}
    IN  IF same = {} THEN NoId ELSE calls[Len(calls)].id

(* A result belongs to the first call of its tool. *)
CallId(name) ==
    LET same == {i \in DOMAIN calls : calls[i].name = name}
    IN  IF same = {} THEN NoId ELSE calls[S!Min(same)].id

NewTurn(input) ==
    [input |-> input, response |-> "", said |-> "", calls |-> <<>>, results |-> <<>>]

(* The results go to the turn that made the calls, and an empty turn begins. *)
NextTurn(recorded, matched) ==
    Append(OnCurrent([recorded EXCEPT !.results = matched]), NewTurn(""))

(* The stream is over, or it broke off without a word: what was left of a   *)
(* line is not read.                                                       *)
Drained == phase = "streaming" /\ events = <<>>

Recorded ==
    IF calls = <<>> THEN Answered ELSE [Answered EXCEPT !.calls = calls, !.said = text]

RoundEnds ==
    /\ UNCHANGED <<provider, answer, sent, parsed, roundVars, request, rounds>>

(* The model said nothing and gave no reason: it is asked again. *)
EmptyCompletion == text = "" /\ ~acted /\ finish \in {"", "stop"}

RetryEmpty ==
    /\ Drained /\ EmptyCompletion /\ empties < MaxEmpty
    /\ turns' = OnCurrent(Recorded) /\ phase' = "asking" /\ empties' = empties + 1
    /\ RoundEnds

EndRun ==
    /\ Drained /\ ~acted /\ ~(EmptyCompletion /\ empties < MaxEmpty)
    /\ turns' = OnCurrent(IF Recorded.response = "" THEN [Recorded EXCEPT !.response = "marker"]
                          ELSE Recorded)
    /\ phase' = "idle" /\ empties' = 0
    /\ RoundEnds

NextRound ==
    /\ Drained /\ acted
    /\ LET Matched(r) == [r EXCEPT !.id = CallId(r.name)]
       IN  turns' = NextTurn(Recorded, [i \in DOMAIN results |-> Matched(results[i])])
    /\ phase' = "asking" /\ empties' = 0
    /\ RoundEnds

-----------------------------------------------------------------------------
(* The messages of a request. *)

Message(role, content) ==
    [role |-> role, content |-> content, calls |-> <<>>, id |-> NoId, of |-> NoId]

IdOf(t, n, call) == IF call.id = NoId THEN MadeUp(t, n) ELSE call.id

Assistant(t) ==
    LET turn == turns[t]
    IN  [Message("assistant", IF turn.said # "" THEN turn.said ELSE turn.response)
         EXCEPT !.calls = [n \in DOMAIN turn.calls |-> IdOf(t, n, turn.calls[n])]]

Results(t) ==
    LET Told(r) == [Message("tool", "result") EXCEPT !.id = r.id, !.of = r.of]
    IN  [n \in DOMAIN turns[t].results |-> Told(turns[t].results[n])]

(* to_messages_native_openai, for every provider. *)
Messages ==
    S!FlattenSeq([t \in DOMAIN turns |->
        <<Message("user", turns[t].input), Assistant(t)>> \o Results(t)])

(* A result without an id is sent as if the user had said it. *)
OpenAI(messages) ==
    LET Sent(m) == IF m.role = "tool" /\ m.id = NoId THEN [m EXCEPT !.role = "user"] ELSE m
    IN  [i \in DOMAIN messages |-> Sent(messages[i])]

Role(m) == IF m.role = "assistant" THEN "model" ELSE "user"

(* Mutant: one user after another. *)
GeminiAsIs(messages) == [i \in DOMAIN messages |-> Role(messages[i])]

(* Gemini knows two roles, and a word of the model is put between two of the *)
(* user's.                                                                 *)
Gemini(messages) ==
    S!FlattenSeq([i \in DOMAIN messages |->
        IF i > 1 /\ Role(messages[i]) = "user" /\ Role(messages[i - 1]) = "user"
          THEN <<"model", "user">> ELSE <<Role(messages[i])>>])

Init ==
    /\ phase = "idle" /\ provider = "openai" /\ answer = [says |-> <<>>, lines |-> <<>>]
    /\ sent = 0 /\ parsed = 0 /\ deltas = <<>> /\ events = <<>> /\ text = ""
    /\ calls = <<>> /\ results = <<>> /\ acted = FALSE /\ finish = "" /\ empties = 0
    /\ turns = <<>> /\ request = <<>> /\ rounds = 0 /\ heard = <<>>

StartRun ==
    /\ phase = "idle" /\ rounds < MaxRounds
    /\ turns' = Append(turns, NewTurn("given")) /\ phase' = "asking" /\ empties' = 0
    /\ UNCHANGED <<provider, answer, sent, parsed, roundVars, request, rounds>>

(* A request, of any provider: middleware may choose. *)
Ask ==
    /\ phase = "asking" /\ rounds < MaxRounds
    /\ phase' = "streaming" /\ rounds' = rounds + 1
    /\ request' = Messages
    /\ \E p \in Providers : \E a \in Answers[p] : provider' = p /\ answer' = a
    /\ sent' = 0 /\ parsed' = 0 /\ deltas' = <<>> /\ events' = <<>>
    /\ text' = "" /\ calls' = <<>> /\ results' = <<>> /\ acted' = FALSE /\ finish' = "" /\ heard' = <<>>
    /\ UNCHANGED <<turns, empties>>

Next ==
    \/ StartRun \/ Ask \/ Chunk \/ StreamError
    \/ HearText \/ HearFinish \/ HearStray \/ HearCall \/ CallFails
    \/ RetryEmpty \/ EndRun \/ NextRound

Spec == Init /\ [][Next]_vars
-----------------------------------------------------------------------------
(* Properties. *)

Calls(cs) == [i \in DOMAIN cs |-> Call(cs[i])]
Said == Calls(answer.says)
Unbroken == sent = Units /\ \E i \in DOMAIN Lines : Lines[i].finish = "tool_calls"

(* However the stream is cut into chunks and the pieces of its calls are    *)
(* mixed, the engine acts on the calls the model made, each whole and in   *)
(* their order; on all of them if the stream comes to its end, and on no   *)
(* piece of a call if it breaks off.                                       *)
CallsArriveWhole ==
    phase = "streaming" =>
        /\ S!IsPrefix(heard, Said)
        /\ Unbroken /\ events = <<>> => heard = Said

(* A stream tells the calls that the model says.  OpenAI's in pieces, in any *)
(* order between calls, as long as those of a call have an index of its own *)
(* and the indices the order of the calls; all are told with the line that  *)
(* ends them.                                                              *)
Pieces(ds, x) == [n \in DOMAIN ds |-> IF ds[n].index = x THEN ds[n].args ELSE <<>>]

TellsInPieces(says, ds) ==
    \E index \in [DOMAIN says -> 0..9] :
        /\ \A k, l \in DOMAIN says : k < l => index[k] < index[l]
        /\ \A n \in DOMAIN ds : \E k \in DOMAIN says :
              /\ ds[n].index = index[k]
              /\ ds[n].id \in {NoId, says[k].id} /\ ds[n].name \in {"", says[k].name}
        /\ \A k \in DOMAIN says :
              /\ \E n \in DOMAIN ds : ds[n].index = index[k] /\ ds[n].id # NoId
              /\ \E n \in DOMAIN ds : ds[n].index = index[k] /\ ds[n].name # ""
              /\ S!FlattenSeq(Pieces(ds, index[k])) = says[k].args

EndsOf(lines) == {i \in DOMAIN lines : lines[i].finish = "tool_calls"}

Honest(p, a) ==
    IF p = "openai"
      THEN \A f \in EndsOf(a.lines) :
              /\ EndsOf(a.lines) = {f}
              /\ TellsInPieces(a.says, S!FlattenSeq([i \in 1..f |-> a.lines[i].deltas]))
      ELSE S!FlattenSeq([i \in DOMAIN a.lines |-> Calls(a.lines[i].deltas)]) = Calls(a.says)

(* The message that has the call of a result, if only results come between. *)
CallerOf(messages, i) ==
    {k \in 1..(i - 1) : messages[k].role = "assistant"
                        /\ \A j \in (k + 1)..i : messages[j].role = "tool"}

FindsItsCall(messages, i) ==
    /\ messages[i].id = messages[i].of
    /\ \E k \in CallerOf(messages, i) : messages[i].id \in S!Range(messages[k].calls)

(* Each result that OpenAI is sent as one follows the calls it is an answer *)
(* to, under the id of its own.  For models that call no tool twice in a    *)
(* round: the second result would be sent under the first call's id.       *)
ResultsFindTheirCalls ==
    phase = "streaming" =>
        \A i \in DOMAIN request :
            OpenAI(request)[i].role = "tool" => FindsItsCall(OpenAI(request), i)

(* Gemini hears user and model in turn, whatever results, markers and       *)
(* errors the session holds.                                               *)
RolesAlternate ==
    \A i \in 2..Len(Gemini(request)) : Gemini(request)[i] # Gemini(request)[i - 1]
===============================================================================

----------------------------- MODULE BlockStream -----------------------------
(***************************************************************************)
(* BlockOrchestrator (auwgent-protocol/src/orchestrator.rs) and its        *)
(* BlockScanner (function-parser/src/block_scanner.rs), with what the      *)
(* engine keeps of them (auwgent-engine/src/engine.rs).                    *)
(*                                                                         *)
(* The model writes a document of blocks, turn by turn.  Its text comes in *)
(* chunks that may end anywhere, in the middle of a header too.  After     *)
(* every chunk the whole text is scanned again and shown to the host as    *)
(* partials; when the stream has ended it is scanned once more, and its    *)
(* blocks become the intents that the engine acts on.                      *)
(*                                                                         *)
(* Text is a sequence of pieces: a word, a line with a field, a newline,   *)
(* or a part of a header.  Headers are cut where the scanner tells one     *)
(* unfinished header from another.                                         *)
(***************************************************************************)
EXTENDS Integers, Sequences, FiniteSets

CONSTANTS
    Documents,  \* documents a model may write
    MaxTurns,   \* bound: turns
    MaxBlocks   \* bound: blocks of all turns

S == INSTANCE SequencesExt

Kinds == {"text", "call", "schema"}
Fields == <<"k: 1", "j: 2">>

(* "[response_text]", "[tool_call: t]" and "[schema: s]", in parts.  A call  *)
(* stands for workflows, helpers and components too.                        *)
Opener == [text   |-> <<"[res", "ponse_text]">>,
           call   |-> <<"[to", "ol_call: t", "]">>,
           schema |-> <<"[sch", "ema: s", "]">>]
Closer == [text   |-> <<"[/res", "ponse_text]">>,
           call   |-> <<"[/to", "ol_call]">>,
           schema |-> <<"[/sch", "ema]">>]

IsSequence(s) == s \in Seq(S!Range(s))

ASSUME DocumentsAssumption ==
    \A doc \in Documents : IsSequence(doc) /\ \A i \in DOMAIN doc :
        /\ IsSequence(doc[i].content)
        /\ doc[i].kind \in Kinds \cup {"orphan"}
        /\ doc[i].header \in {"whole", "line"} /\ doc[i].closed \in BOOLEAN
ASSUME BoundsAssumption == MaxTurns \in Nat /\ MaxBlocks \in Nat

VARIABLES
    doc,      \* what the model means to say in this turn
    turn,     \* history: turns begun
    written,  \* history: blocks of all turns
    rest,     \* the pieces of this turn that are still to come
    phase,    \* "idle", "streaming" or "ended"
    buffer,   \* the orchestrator's text
    emitted,  \* emitted_identities
    last,     \* last_partial_payloads, by the name of the intent
    cursor,   \* response_text_cursor, by segment
    pending,  \* pending_intents
    seen,     \* history: the last text of this turn, by segment
    shown     \* history: the deltas of this turn put together, by segment

vars == <<doc, turn, written, rest, phase, buffer, emitted, last, cursor, pending,
          seen, shown>>

Segments == 0..(2 * MaxBlocks)
Nothing == [seg |-> 0, value |-> <<>>, raw |-> <<"nothing">>]
NoText == [s \in Segments |-> <<>>]

-----------------------------------------------------------------------------
(* Headers.  `final` says that the stream has ended: only then a newline    *)
(* stands for a missing "]".                                               *)

Openers == {Opener[k][1] : k \in Kinds}
Firsts == Openers \cup {Closer[k][1] : k \in Kinds}
Brackets == {"]", "ponse_text]", "ol_call]", "ema]"}

StartsWith(t, p, s) ==
    p + Len(s) - 1 <= Len(t) /\ SubSeq(t, p, p + Len(s) - 1) = s

(* From a bracket that opens to the first that closes, however far; <<>> if *)
(* none does.                                                              *)
Header(t, p, final) ==
    LET ends == {q \in p..Len(t) : t[q] \in Brackets \/ (final /\ t[q] = "nl")}
    IN  IF t[p] \notin Firsts \/ ends = {} THEN <<>> ELSE SubSeq(t, p, S!Min(ends))

Recovered(k) == <<Opener[k][1], Opener[k][2], "nl">>

Opening(k) == IF k = "text" THEN {Opener[k]} ELSE {Opener[k], Recovered(k)}
Openings == UNION {Opening(k) : k \in Kinds}
Closings == {Closer[k] : k \in Kinds}

(* As much of an opening header as tells its kind. *)
Starts == {SubSeq(Opener[k], 1, 2) : k \in Kinds \ {"text"}}

(* The kind is one the scanner knows, and the rest of the header is wrong. *)
Malformed(header) == Len(header) > 2 /\ SubSeq(header, 1, 2) \in Starts /\ header \notin Openings

(* The text ends in the middle of a header. *)
UnfinishedAt(t, p, final) ==
    /\ t[p] \in Firsts /\ Header(t, p, final) = <<>>
    /\ \/ p = Len(t) /\ t[p] \in {Opener["text"][1], Closer["text"][1]}
       \/ \E s \in Starts : StartsWith(t, p, s)

(* Mutant: an unfinished header is content until it is finished. *)
BoundaryWhenFinished(t, p, final) == Header(t, p, final) \in Openings \cup Closings

(* A block ends at its closing header, or where any other block begins or   *)
(* ends: a model that forgets to close a block does not lose the next.     *)
Boundary(t, p, final) ==
    UnfinishedAt(t, p, final) \/ Header(t, p, final) \in Openings \cup Closings

-----------------------------------------------------------------------------
(* The scan. *)

Trim(s) ==
    LET words == {i \in DOMAIN s : s[i] # "nl"}
    IN  IF words = {} THEN <<>> ELSE SubSeq(s, S!Min(words), S!Max(words))

Block(k, content) == [kind |-> k, content |-> Trim(content), bracket |-> TRUE]

(* Past the closing header of k, if it is the boundary q. *)
AfterBlock(t, q, k) == IF StartsWith(t, q, Closer[k]) THEN q + Len(Closer[k]) ELSE q

KindOf(header) == CHOOSE k \in Kinds : SubSeq(header, 1, 2) = SubSeq(Opener[k], 1, 2)

(* What the block that opens at p holds, and where the loop goes on.        *)
Begins(t, p, final) == p + Len(Header(t, p, final))
Ends(t, p, final) ==
    S!Min({q \in Begins(t, p, final)..Len(t) : Boundary(t, q, final)} \cup {Len(t) + 1})

Opens(t, p, final) == ~UnfinishedAt(t, p, final) /\ Header(t, p, final) \in Openings

After(t, p, final) ==
    LET header == Header(t, p, final)
    IN  CASE UnfinishedAt(t, p, final) -> Len(t) + 1
          [] header \in Openings \/ Malformed(header) ->
                AfterBlock(t, Ends(t, p, final), KindOf(header))
          [] header \in Closings -> p + Len(header)
          [] OTHER -> p + 1

OpenedAt(t, p, final) ==
    Block(KindOf(Header(t, p, final)), SubSeq(t, Begins(t, p, final), Ends(t, p, final) - 1))

(* Text outside of any block; it may itself begin with a bracket. *)
Implicit(chat) ==
    IF chat = <<>> THEN <<>>
    ELSE <<[kind |-> "text", content |-> chat, bracket |-> chat[1] \in Firsts]>>

(* What there is from p on, if there is `past` from where the loop goes on.  *)
From(t, p, final, past) ==
    LET header == Header(t, p, final)
    IN  CASE UnfinishedAt(t, p, final) -> [chat |-> <<>>, blocks |-> <<>>]
          [] Opens(t, p, final) ->
                [chat   |-> <<>>,
                 blocks |-> <<OpenedAt(t, p, final)>> \o Implicit(Trim(past.chat)) \o past.blocks]
          [] Malformed(header) \/ header \in Closings -> past
          [] OTHER -> [past EXCEPT !.chat = <<t[p]>> \o @]

All(t, final) ==
    LET from[p \in 1..(Len(t) + 1)] ==
            IF p > Len(t) THEN [chat |-> <<>>, blocks |-> <<>>]
            ELSE From(t, p, final, from[After(t, p, final)])
    IN  Implicit(Trim(from[1].chat)) \o from[1].blocks

(* Blocks without a bracket are text outside of blocks, which is no answer  *)
(* where there are others.                                                 *)
Answers(blocks) ==
    IF \E i \in DOMAIN blocks : blocks[i].bracket
      THEN S!FlattenSeq([i \in DOMAIN blocks |-> IF blocks[i].bracket THEN <<blocks[i]>> ELSE <<>>])
      ELSE blocks

Scan(t, final) == Answers(All(t, final))

-----------------------------------------------------------------------------
(* What becomes of a block. *)

(* A header that is left in a text is not text: to its end, its line's end  *)
(* or the next bracket.                                                    *)
Heads(s, p) == \E start \in Starts : StartsWith(s, p, start)
Closes(s, p) == \E closer \in Closings : StartsWith(s, p, closer)

Behind(s, p) ==
    LET stops == {q \in (p + 2)..Len(s) : s[q] \in Brackets \cup Firsts \cup {"nl"}}
        stop == S!Min(stops)
    IN  CASE Closes(s, p) -> p + 2
          [] Heads(s, p) -> IF stops = {} THEN Len(s) + 1
                            ELSE IF s[stop] \in Firsts THEN stop ELSE stop + 1
          [] OTHER -> p + 1

Strip(s) ==
    LET from[p \in 1..(Len(s) + 1)] ==
            IF p > Len(s) THEN <<>>
            ELSE (IF Closes(s, p) \/ Heads(s, p) THEN <<>> ELSE <<s[p]>>) \o from[Behind(s, p)]
    IN  from[1]

(* Assignments line by line, no name twice. *)
Parses(content) ==
    /\ \A i \in DOMAIN content : content[i] \in S!Range(Fields) \cup {"nl"}
    /\ \A i, j \in DOMAIN content :
          i # j /\ content[i] = content[j] => content[i] = "nl"

Assigned(content) ==
    S!FlattenSeq([i \in DOMAIN Fields |->
                     IF Fields[i] \in S!Range(content) THEN <<Fields[i]>> ELSE <<>>])

(* What can be read of a content so far: its longest beginning that parses. *)
ReadSoFar(content) ==
    LET n == CHOOSE n \in 0..Len(content) :
                 /\ Parses(SubSeq(content, 1, n))
                 /\ \A m \in (n + 1)..Len(content) : ~Parses(SubSeq(content, 1, m))
    IN  Assigned(SubSeq(content, 1, n))

Unfinished(words) == Len(words) = 1 /\ words[1] \in Firsts

Name == [text |-> "response_text", call |-> "tool_call", schema |-> "response_schema"]

Intent(b) ==
    [name |-> Name[b.kind],
     value |-> IF b.kind = "text" THEN Strip(b.content) ELSE Assigned(b.content)]

IsIntent(b) ==
    IF b.kind = "text" THEN Strip(b.content) # <<>> ELSE Parses(b.content)

(* All in order; of the schemas the last, behind the others. *)
Finals(blocks) ==
    LET schemas == {i \in DOMAIN blocks : blocks[i].kind = "schema" /\ IsIntent(blocks[i])}
        Other(b) == b.kind # "schema" /\ IsIntent(b)
    IN  S!FlattenSeq([i \in DOMAIN blocks |-> IF Other(blocks[i]) THEN <<blocks[i]>> ELSE <<>>])
        \o (IF schemas = {} THEN <<>> ELSE <<blocks[S!Max(schemas)]>>)

(* Mutant: whatever is there is shown. *)
IsPartialAnyway(b) == b.content # <<>>

IsPartial(b) ==
    IF b.kind = "text" THEN Strip(b.content) # <<>> /\ ~Unfinished(Strip(b.content))
    ELSE b.content # <<>>

Payload(b, seg) ==
    IF b.kind = "text" THEN [seg |-> seg, value |-> Strip(b.content), raw |-> Strip(b.content)]
    ELSE [seg |-> seg, value |-> ReadSoFar(b.content), raw |-> b.content]

(* No block yet: the text itself, unless it may still become a header. *)
Fallback(t, final) ==
    LET text == Trim(Strip(t))
    IN  IF text = <<>> \/ Unfinished(text) THEN <<>>
        ELSE <<[kind |-> "text", content |-> text, bracket |-> FALSE]>>

Found(t, final) ==
    LET blocks == Scan(t, final)
    IN  IF blocks = <<>> THEN Fallback(t, final) ELSE blocks

-----------------------------------------------------------------------------
(* The partials of a chunk go out block by block, each unless it is the     *)
(* last one that went out under its name.                                  *)

IsPrefix(s, t) == Len(s) <= Len(t) /\ SubSeq(t, 1, Len(s)) = s

(* Mutant: the whole text every time. *)
DeltaWhole(previous, text) == text

(* What the host has to add to what it shows of a segment. *)
Delta(previous, text) ==
    IF IsPrefix(previous, text) THEN SubSeq(text, Len(previous) + 1, Len(text)) ELSE text

Show(state, b, seg) ==
    LET payload == Payload(b, seg)
        text == payload.value
    IN  IF ~IsPartial(b) \/ state.last[b.kind] = payload THEN state
        ELSE IF b.kind # "text" THEN [state EXCEPT !.last[b.kind] = payload]
        ELSE [last   |-> [state.last EXCEPT ![b.kind] = payload],
              cursor |-> [state.cursor EXCEPT ![seg] = text],
              seen   |-> [state.seen EXCEPT ![seg] = text],
              shown  |-> [state.shown EXCEPT ![seg] = @ \o Delta(state.cursor[seg], text)]]

ShowAll(blocks) ==
    LET upto[i \in 0..Len(blocks)] ==
            IF i = 0 THEN [last |-> last, cursor |-> cursor, seen |-> seen, shown |-> shown]
            ELSE Show(upto[i - 1], blocks[i], i - 1)
    IN  upto[Len(blocks)]

Init ==
    /\ doc = <<>> /\ turn = 0 /\ written = 0 /\ rest = <<>> /\ phase = "idle"
    /\ buffer = <<>> /\ emitted = {} /\ pending = <<>>
    /\ last = [k \in Kinds |-> Nothing]
    /\ cursor = NoText /\ seen = NoText /\ shown = NoText

Spell(b) ==
    IF b.kind = "orphan" THEN b.content
    ELSE (IF b.header = "whole" THEN Opener[b.kind] ELSE Recovered(b.kind))
         \o b.content
         \o (IF b.closed THEN Closer[b.kind] ELSE <<>>)

SpellAll(d) == S!FlattenSeq([i \in DOMAIN d |-> Spell(d[i])])

(* Mutant: identities of earlier turns are kept. *)
ResetKeepsIdentities ==
    /\ buffer' = <<>> /\ UNCHANGED emitted
    /\ last' = [k \in Kinds |-> Nothing]

(* reset(): at the top of every round of run.  The cursor is not part of it. *)
Reset ==
    /\ buffer' = <<>> /\ emitted' = {}
    /\ last' = [k \in Kinds |-> Nothing]

Begin ==
    /\ phase = "idle" /\ turn < MaxTurns
    /\ \E d \in Documents :
          /\ written + Len(d) <= MaxBlocks
          /\ doc' = d /\ rest' = SpellAll(d) /\ written' = written + Len(d)
    /\ turn' = turn + 1 /\ phase' = "streaming"
    /\ Reset
    /\ UNCHANGED <<cursor, pending, seen, shown>>

(* write(): a chunk of any length. *)
Write ==
    /\ phase = "streaming" /\ rest # <<>>
    /\ \E n \in 1..Len(rest) :
          /\ buffer' = buffer \o SubSeq(rest, 1, n)
          /\ rest' = SubSeq(rest, n + 1, Len(rest))
    /\ LET state == ShowAll(Found(buffer', FALSE))
       IN  /\ last' = state.last /\ cursor' = state.cursor
           /\ seen' = state.seen /\ shown' = state.shown
    /\ UNCHANGED <<doc, turn, written, phase, emitted, pending>>

(* Each identity is handed to the engine once. *)
EmitAll(intents) ==
    LET upto[i \in 0..Len(intents)] ==
            IF i = 0 THEN pending
            ELSE IF intents[i] \in emitted
                    \/ \E j \in 1..(i - 1) : intents[j] = intents[i]
                 THEN upto[i - 1] ELSE Append(upto[i - 1], intents[i])
    IN  upto[Len(intents)]

(* end(): the model may stop anywhere. *)
End ==
    /\ phase = "streaming"
    /\ phase' = "ended"
    /\ LET blocks == Finals(Found(buffer, TRUE))
           intents == [i \in DOMAIN blocks |-> Intent(blocks[i])]
       IN  /\ pending' = EmitAll(intents)
           /\ emitted' = emitted \cup {intents[i] : i \in DOMAIN intents}
    /\ UNCHANGED <<doc, turn, written, rest, buffer, last, cursor, seen, shown>>

(* process_intents takes them all. *)
ProcessIntents ==
    /\ phase = "ended"
    /\ phase' = "idle" /\ pending' = <<>>
    /\ doc' = <<>> /\ rest' = <<>> /\ seen' = NoText /\ shown' = NoText
    /\ UNCHANGED <<turn, written, buffer, emitted, last, cursor>>

Next == Begin \/ Write \/ End \/ ProcessIntents

Spec == Init /\ [][Next]_vars
-----------------------------------------------------------------------------
(* Properties. *)

(* What a block of a document means, if it means anything: a text its words,*)
(* a call its fields, however they are set out.                            *)
Says(b) ==
    IF b.kind = "text" THEN Trim(b.content) # <<>>
    ELSE b.kind # "orphan" /\ Parses(b.content)

Meant(b) ==
    [name  |-> Name[b.kind],
     value |-> IF b.kind = "text" THEN Trim(b.content) ELSE Assigned(b.content)]

(* A document means its blocks, each intent once, the schema that is last   *)
(* behind the others; text outside of blocks only where there is no block. *)
Meaning(d) ==
    LET Saying(schema) == {i \in DOMAIN d : Says(d[i]) /\ (d[i].kind = "schema") = schema}
        first == {i \in Saying(FALSE) :
                     \A j \in Saying(FALSE) : j < i => Meant(d[j]) # Meant(d[i])}
    IN  IF d # <<>> /\ \A i \in DOMAIN d : d[i].kind = "orphan"
          THEN <<[name |-> "response_text", value |-> SpellAll(d)]>>
          ELSE S!FlattenSeq([i \in DOMAIN d |-> IF i \in first THEN <<Meant(d[i])>> ELSE <<>>])
               \o (IF Saying(TRUE) = {} THEN <<>> ELSE <<Meant(d[S!Max(Saying(TRUE))])>>)

(* However the text was cut into chunks, and whatever was said in the turns *)
(* before, the engine acts on exactly what the model's document means: a   *)
(* forgotten closer, a header without its bracket, unreadable arguments and*)
(* a repeated block included.                                              *)
DocumentIsUnderstood == phase = "ended" /\ rest = <<>> => pending = Meaning(doc)

(* What tells a header from a text that only begins like one. *)
Seconds == {Opener[k][2] : k \in Kinds} \cup {Closer[k][2] : k \in Kinds}
Telling == Seconds \cup {Opener["text"][1], Closer["text"][1]}

(* The model closes every block it opens, and writes no header inside of it.*)
Closed(d) ==
    \A b \in S!Range(d) : /\ b.kind # "orphan" /\ b.header = "whole" /\ b.closed
                          /\ S!Range(b.content) \cap Telling = {}

(* If it does, text that was shown is never taken back: a partial extends   *)
(* the one before, though headers around it come in parts.                 *)
Grows ==
    phase = "streaming" /\ Closed(doc) => \A s \in Segments : IsPrefix(seen[s], seen'[s])

TextOnlyGrows == [][Grows]_vars

(* What was shown last is what the model said: no part of a header, no other *)
(* block's content, nothing missing.                                       *)
ShownIsSaid ==
    phase = "ended" /\ rest = <<>> /\ Closed(doc) =>
        \A s \in Segments : seen[s] # <<>> =>
            [name |-> "response_text", value |-> seen[s]] \in S!Range(pending)

(* The deltas a host puts together are the text it was shown: nothing twice,*)
(* nothing taken back.  The cursor outlives the turn, so that in a later one*)
(* a beginning that was said before may be missing.                        *)
DeltasAccumulate ==
    Closed(doc) => \A s \in Segments : /\ S!IsSuffix(shown[s], seen[s])
                                       /\ turn = 1 => shown[s] = seen[s]
===============================================================================

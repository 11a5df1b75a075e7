------------------------------- MODULE Session -------------------------------
(***************************************************************************)
(* The conversation an engine keeps (auwgent-session/src/state.rs): the    *)
(* turns, as the run loop writes them.  A turn holds what was asked, what  *)
(* the model answered and, in native mode, the calls the model made and    *)
(* the results it was given.  The helper stack of the same struct belongs  *)
(* to IntentDispatch, which changes it.                                    *)
(***************************************************************************)
EXTENDS Sequences, SequencesExt, Integers

(* "user": a message of the user.  "results": the results block mode sends *)
(* back.  "empty": the empty input that carries native results on.         *)
InputKinds == {"user", "results", "empty"}

(* "text": what the model said.  "marker": "(no response: ...)".           *)
(* "error": "(error: ...)" or "(request error: ...)".                      *)
ResponseKinds == {"none", "text", "marker", "error"}

(* payload: the results an input of kind "results" tells the model.        *)
(* left: history, "yes" once the run gave the turn up without an answer.   *)
NewTurn(input, payload) ==
    [input |-> input, payload |-> payload, response |-> "none",
     calls |-> <<>>, results |-> <<>>, left |-> "no"]

StartTurn(turns, input) == Append(turns, NewTurn(input, <<>>))
StartResultsTurn(turns, payload) == Append(turns, NewTurn("results", payload))

(* Rewrite the current turn, if there is one. *)
OnCurrent(turns, turn) ==
    IF turns = <<>> THEN turns ELSE [turns EXCEPT ![Len(turns)] = turn]

SetResponse(turns, r) ==
    OnCurrent(turns, [Last(turns) EXCEPT !.response = r])

(* "(error: ...)" or "(no response: ...)" only where nothing was answered. *)
SetResponseIfNone(turns, r) ==
    IF turns # <<>> /\ Last(turns).response = "none"
      THEN SetResponse(turns, r) ELSE turns

(* Mutant: any turn without a response is popped. *)
PopLastUnanswered(turns) ==
    IF turns # <<>> /\ Last(turns).response = "none" THEN Front(turns) ELSE turns

(* Only an empty input counts as no input. *)
PopLastIfEmpty(turns) ==
    IF /\ turns # <<>>
       /\ Last(turns).input = "empty" /\ Last(turns).response = "none"
      THEN Front(turns) ELSE turns

SetNativeCalls(turns, calls) ==
    OnCurrent(turns, [Last(turns) EXCEPT !.calls = calls])

AppendNativeResults(turns, results) ==
    OnCurrent(turns, [Last(turns) EXCEPT !.results = @ \o results])

-----------------------------------------------------------------------------
(* History and what the properties read. *)

GiveUp(turns) == OnCurrent(turns, [Last(turns) EXCEPT !.left = "yes"])

(* How a turn stands: answered, answered by calls with results, given up,  *)
(* or still open.                                                          *)
Standing(turn) ==
    IF turn.response # "none" THEN turn.response
    ELSE IF turn.results # <<>> THEN "acted"
    ELSE IF turn.left = "yes" THEN "left" ELSE "open"

Open(turns) == turns # <<>> /\ Standing(Last(turns)) = "open"
=============================================================================

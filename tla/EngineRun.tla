------------------------------ MODULE EngineRun ------------------------------
(***************************************************************************)
(* AuwgentEngine::run (auwgent-engine/src/engine/runtime_loop.rs): one     *)
(* engine, called by its host again and again on the same session.         *)
(*                                                                         *)
(* A run resumes the helper that the stored stack ends in, or asks the     *)
(* model, reads its stream, has every batch of intents dealt with by       *)
(* process_intents (IntentDispatch) and asks again with the results, until *)
(* a round brings none.  The model, the driver and the middleware are the  *)
(* environment: they may answer anything, anywhere the code asks them.     *)
(***************************************************************************)
EXTENDS IntentDispatch, Session

CONSTANTS
    Protocol,       \* "block" or "native"
    MaxForce,       \* MAX_FORCE_START_RETRIES
    MaxEmpty,       \* MAX_EMPTY_COMPLETION_RETRIES
    InitialStacks,  \* stacks the host or a middleware hands in
    Inputs,         \* "given" or "none": may a run have no input
    Decisions,      \* what an error middleware may decide
    Overrides,      \* "config", "route": what a middleware may override
    MaxRuns,        \* bound: runs
    MaxLoops,       \* bound: rounds in which the model asks for actions
    MaxHeard,       \* bound: events of one stream
    MaxBatch        \* bound: intents of one batch

ASSUME ProtocolAssumption == Protocol \in {"block", "native"}
ASSUME LimitsAssumption == MaxForce \in Nat /\ MaxEmpty \in Nat
ASSUME BoundsAssumption ==
    {MaxRuns, MaxLoops, MaxHeard, MaxBatch} \subseteq Nat \ {0}
ASSUME StacksAssumption == \A s \in InitialStacks : s # <<>> /\ IsStack(s)
ASSUME ChoicesAssumption ==
    /\ Inputs \subseteq {"given", "none"}
    /\ Decisions \subseteq {"propagate", "swallow", "llm_start", "run_start"}
    /\ Overrides \subseteq {"config", "route"}

VARIABLES
    pc,        \* where the run is; "exhausted" fails for too many retries
    back,      \* what process_intents was called for
    runs,      \* history: runs started
    turns,     \* session.turns
    loops,     \* loop_count, as far as MaxLoops + 1
    force,     \* force_start_retry_count, of the engine
    failures,  \* history: failed requests since one opened, in this run
    empties,   \* empty_completion_retries
    calls,     \* native_tool_calls of this stream
    heard,     \* history: events of this stream
    did,       \* actions_performed ("acted"); history: "stopped" by a helper
    hooks,     \* history: hooks fired since the round began
    params,    \* overrides held by the loop: config_params, provider_id...
    asked      \* history: overrides that middleware asked for in this run

runVars == <<pc, back, runs, turns, loops, force, failures, empties, calls,
             heard, did, hooks, params, asked>>
vars == <<pc, back, runs, turns, loops, force, failures, empties, calls, heard,
          did, hooks, params, asked, dispatchVars>>

Init ==
    /\ pc = "idle" /\ back = "end" /\ runs = 0
    /\ turns = <<>>
    /\ loops = 0 /\ force = 0 /\ failures = 0 /\ empties = 0
    /\ calls = <<>> /\ heard = 0 /\ did = {} /\ hooks = {}
    /\ params = {} /\ asked = {}
    /\ DispatchInit

AtMost(n, bound) == IF n <= bound THEN n ELSE bound

-----------------------------------------------------------------------------
(* The start of a run. *)

(* A stack deeper than the agent itself is the way to a suspended helper. *)
Path(s) == IF Len(s) > 1 THEN Tail(s) ELSE <<>>

OwnStack == IF stack = <<>> THEN <<Agent>> ELSE stack

(* The model configuration cannot be evaluated: no hook ran, no turn began. *)
RejectRun ==
    /\ pc = "idle" /\ runs < MaxRuns
    /\ runs' = runs + 1
    /\ \E s \in InitialStacks \cup {OwnStack} :
          stack' = s /\ ff' = Path(s)
    /\ UNCHANGED <<pc, back, turns, loops, force, failures, empties, calls,
                   heard, did, hooks, params, asked, batchVars, results, flags,
                   message, ran>>

(* user_input is set whenever there is an input, a teleport ahead or not.   *)
(* Mutant: only where the input starts a turn.                             *)
HeardInTurn(input, s) ==
    IF input = "given" /\ Path(s) = <<>> THEN runs + 1 ELSE message

Heard(input, s) == IF input = "given" THEN runs + 1 ELSE message

(* The run_start hook may return a session: the own one with another stack, *)
(* or one without turns.  The input becomes a turn unless a helper is to be *)
(* resumed with it.                                                        *)
StartRun ==
    /\ pc = "idle" /\ runs < MaxRuns
    /\ runs' = runs + 1
    /\ \E s \in InitialStacks \cup {OwnStack}, input \in Inputs,
          kept \in {turns, <<>>} :
          /\ stack' = s /\ ff' = Path(s)
          /\ message' = Heard(input, s)
          /\ turns' = IF input = "given" /\ Path(s) = <<>>
                        THEN StartTurn(kept, "user") ELSE kept
    /\ pc' = "top"
    /\ results' = <<>> /\ flags' = {} /\ ran' = <<>>
    /\ UNCHANGED <<back, loops, force, failures, empties, calls, heard, did,
                   hooks, params, asked, batchVars>>

-----------------------------------------------------------------------------
(* The top of a round. *)

(* Everything the last round left is cleared. *)
ResetRound ==
    /\ loops' = AtMost(loops + 1, MaxLoops + 1)
    /\ results' = <<>> /\ flags' = {}
    /\ hooks' = {} /\ did' = {} /\ ran' = <<>>

Call(intents, origin) ==
    /\ Dispatch(intents)
    /\ pc' = "dispatch" /\ back' = origin

(* A helper is to be resumed: it is called as if the model had called it. *)
Teleport ==
    /\ pc = "top" /\ ff # <<>>
    /\ ResetRound
    /\ Call(<<[kind |-> "helper", name |-> ff[1]]>>, "teleport")
    /\ UNCHANGED <<runs, turns, force, failures, empties, calls, heard, params,
                   asked, stack, ff, message>>

(* The hook before the model call belongs to the first round of the run. *)
Top ==
    /\ pc = "top" /\ ff = <<>>
    /\ ResetRound
    /\ pc' = IF loops = 0 THEN "llm_start" ELSE "open"
    /\ UNCHANGED <<back, runs, turns, force, failures, empties, calls, heard,
                   params, asked, batchVars, stack, ff, message>>

Returned(origins) == pc = "dispatch" /\ back \in origins

(* A question still open will have no answer of this agent. *)
GivenUp == IF Open(turns) THEN GiveUp(turns) ELSE turns

TeleportReturns ==
    /\ Returned({"teleport"}) /\ Release
    /\ pc' = CASE dpc = "error" -> "fail"
               [] dpc = "ok" /\ "stopped" \in ret -> "finish"
               [] OTHER -> "top"
    /\ turns' = CASE dpc = "error" \/ ret = {} -> turns
                  [] dpc = "ok" /\ "stopped" \in ret -> GivenUp
                  [] OTHER -> StartResultsTurn(GivenUp, results)
    /\ did' = ret
    /\ UNCHANGED <<back, runs, loops, force, failures, empties, calls, heard,
                   hooks, params, asked, engineVars>>

(* The llm_start hook may put another stack, which starts a teleport and   *)
(* drops what else it asked for, or override the request.                  *)
LlmStart ==
    /\ pc = "llm_start"
    /\ hooks' = hooks \cup {"llm_start"}
    /\ \E s \in InitialStacks \cup {stack} :
          /\ stack' = s
          /\ IF Path(s) # <<>>
               THEN ff' = Path(s) /\ pc' = "top" /\ UNCHANGED <<params, asked>>
               ELSE /\ \E o \in SUBSET Overrides :
                         params' = params \cup o /\ asked' = asked \cup o
                    /\ pc' = "open" /\ UNCHANGED ff
    /\ UNCHANGED <<back, runs, turns, loops, force, failures, empties, calls,
                   heard, did, batchVars, results, flags, message, ran>>

-----------------------------------------------------------------------------
(* The request. *)

OpenOk ==
    /\ pc = "open"
    /\ pc' = "stream"
    /\ force' = 0 /\ failures' = 0
    /\ calls' = <<>> /\ heard' = 0
    /\ UNCHANGED <<back, runs, turns, loops, empties, did, hooks, params, asked,
                   dispatchVars>>

(* No driver is registered under the provider's name. *)
OpenNoDriver ==
    /\ pc = "open"
    /\ pc' = "fail"
    /\ UNCHANGED <<back, runs, turns, loops, force, failures, empties, calls,
                   heard, did, hooks, params, asked, dispatchVars>>

(* The request failed and the error hook was asked. *)
OpenFails(decision) ==
    /\ pc = "open" /\ decision \in Decisions
    /\ failures' = AtMost(failures + 1, MaxForce + 2)
    /\ UNCHANGED <<back, runs, loops, empties, calls, heard, did, hooks,
                   batchVars, ff, message, ran>>

Propagate ==
    /\ OpenFails("propagate")
    /\ turns' = SetResponse(turns, "error")
    /\ pc' = "fail"
    /\ UNCHANGED <<force, params, asked, results, flags, stack>>

Swallow ==
    /\ OpenFails("swallow")
    /\ turns' = GivenUp
    /\ pc' = "finish"
    /\ UNCHANGED <<force, params, asked, results, flags, stack>>

(* The overrides of the error hook: provider, model, headers and key are   *)
(* variables of the loop, the config is a copy made for this request.      *)
(* Mutant: every override is a copy made for this request. *)
RetryOverridesLost ==
    \E o \in SUBSET Overrides :
        /\ asked' = asked \cup o
        /\ UNCHANGED params

RetryOverrides ==
    \E o \in SUBSET Overrides :
        /\ asked' = asked \cup o
        /\ params' = params \cup (o \ {"config"})

(* Mutant: the retry is not counted. *)
CountNothing == UNCHANGED force

CountRetry == force' = AtMost(force + 1, MaxForce + 1)

Retries == force + 1 <= MaxForce

RetryTurn ==
    /\ OpenFails("llm_start")
    /\ CountRetry /\ RetryOverrides
    /\ IF Retries
         THEN /\ pc' = "top"
              /\ results' = <<>> /\ flags' = {}
              /\ turns' = PopLastIfEmpty(turns)
         ELSE pc' = "exhausted" /\ UNCHANGED <<results, flags, turns>>
    /\ UNCHANGED stack

RetryRun ==
    /\ OpenFails("run_start")
    /\ CountRetry /\ RetryOverrides
    /\ IF Retries
         THEN /\ pc' = "top"
              /\ results' = <<>> /\ flags' = {}
              /\ turns' = <<>> /\ stack' = <<>>
         ELSE pc' = "exhausted" /\ UNCHANGED <<results, flags, turns, stack>>

-----------------------------------------------------------------------------
(* The stream. *)

Hear ==
    /\ pc = "stream" /\ heard < MaxHeard
    /\ heard' = heard + 1

(* Text.  The blocks it completes are partial until the stream has ended. *)
Text ==
    /\ Hear
    /\ flags' = flags \cup {"raw"}
    /\ UNCHANGED <<pc, back, runs, turns, loops, force, failures, empties, calls,
                   did, hooks, params, asked, batchVars, results, stack, ff,
                   message, ran>>

(* Past MaxLoops the model asks for no more actions. *)
Asks(i) == loops <= MaxLoops \/ ~IsAction(i)

Batches == {b \in BoundedSeq(Intents, MaxBatch) :
               b # <<>> /\ \A k \in DOMAIN b : Asks(b[k])}

(* A call whose name no registry entry produced is ignored. *)
NativeCall ==
    /\ Hear /\ Protocol = "native"
    /\ \E i \in Intents : IsAction(i) /\ Asks(i) /\ Call(<<i>>, "call")
    /\ UNCHANGED <<runs, turns, loops, force, failures, empties, calls, did,
                   hooks, params, asked, engineVars>>

Structured ==
    /\ Hear /\ Protocol = "native"
    /\ Call(<<[kind |-> "response", name |-> Agent]>>, "structured")
    /\ UNCHANGED <<runs, turns, loops, force, failures, empties, calls, did,
                   hooks, params, asked, engineVars>>

StreamError ==
    /\ pc = "stream"
    /\ pc' = "fail"
    /\ turns' = SetResponse(turns, "error")
    /\ UNCHANGED <<back, runs, loops, force, failures, empties, calls, heard,
                   did, hooks, params, asked, dispatchVars>>

(* The stream is over, or left: every block of the text becomes an intent. *)
StreamEnds ==
    /\ pc \in {"stream", "leaving"}
    /\ \E b \in Batches \cup {<<>>} :
          /\ b # <<>> => Protocol = "block" /\ "raw" \in flags
          /\ Call(b, "end")
    /\ UNCHANGED <<runs, turns, loops, force, failures, empties, calls, heard,
                   did, hooks, params, asked, engineVars>>

Said == "raw" \in flags

Answered == IF Said THEN SetResponse(turns, "text") ELSE turns

BatchFails ==
    /\ Returned({"call", "structured", "end"}) /\ dpc = "error"
    /\ turns' = Answered
    /\ pc' = "fail" /\ Release
    /\ UNCHANGED <<back, runs, loops, force, failures, empties, calls, heard,
                   did, hooks, params, asked, engineVars>>

(* hard_stop leaves the stream; a native call it came from is not recorded. *)
BatchReturns ==
    /\ Returned({"call", "structured"}) /\ dpc = "ok"
    /\ Release
    /\ did' = did \cup ret
    /\ IF "stopped" \in ret
         THEN pc' = "leaving" /\ turns' = Answered /\ UNCHANGED calls
         ELSE /\ pc' = "stream"
              /\ calls' = IF back = "call" THEN calls \o batch ELSE calls
              /\ UNCHANGED turns
    /\ UNCHANGED <<back, runs, loops, force, failures, empties, heard, hooks,
                   params, asked, engineVars>>

-----------------------------------------------------------------------------
(* After the stream.  hard_stop is what the last batch returned. *)

HardStop == "stopped" \in ret

(* Raw text without a terminal intent is a response_text in native mode,    *)
(* and the calls are kept for the session.                                 *)
Drained ==
    /\ Returned({"end"}) /\ dpc = "ok"
    /\ Release
    /\ did' = did \cup ret
    /\ flags' = IF Protocol = "native" /\ Said
                     /\ "terminal" \notin flags
                  THEN flags \cup {"terminal", "final"} ELSE flags
    /\ UNCHANGED <<back, runs, loops, force, failures, calls, heard, hooks,
                   params, asked, results, stack, ff, message, ran>>

Recorded ==
    IF Protocol = "native" /\ calls # <<>>
      THEN SetNativeCalls(Answered, calls) ELSE Answered

Acted == "acted" \in did \cup ret

(* Nothing at all came, and the finish reason does not say why. *)
EmptyCompletion == ~Acted /\ flags \cap {"raw", "terminal", "final"} = {}

(* Mutant: no limit. *)
RetryEmptyForever ==
    /\ Drained /\ EmptyCompletion
    /\ empties' = empties + 1
    /\ turns' = Recorded
    /\ pc' = "top"

RetryEmpty ==
    /\ Drained /\ EmptyCompletion /\ empties < MaxEmpty
    /\ empties' = empties + 1
    /\ turns' = Recorded
    /\ pc' = "top"

(* The finish reason gave an empty completion a meaning, or it was not one. *)
Counted ==
    \/ empties' = 0
    \/ EmptyCompletion /\ empties = MaxEmpty /\ UNCHANGED empties

(* Mutant: an empty answer gets no marker. *)
EndRoundUnmarked ==
    /\ Drained /\ Counted /\ (HardStop \/ ~Acted)
    /\ turns' = Recorded
    /\ pc' = "finish"

EndRound ==
    /\ Drained /\ Counted /\ (HardStop \/ ~Acted)
    /\ turns' = IF HardStop THEN Recorded ELSE SetResponseIfNone(Recorded, "marker")
    /\ pc' = "finish"

(* Mutant: native results go to the turn they start. *)
NextRoundSwapped ==
    /\ Drained /\ Counted /\ ~HardStop /\ Acted
    /\ turns' = IF Protocol = "native"
                  THEN AppendNativeResults(StartTurn(Recorded, "empty"), results)
                  ELSE StartResultsTurn(Recorded, results)
    /\ pc' = "top"

NextRound ==
    /\ Drained /\ Counted /\ ~HardStop /\ Acted
    /\ turns' = IF Protocol = "native"
                  THEN StartTurn(AppendNativeResults(Recorded, results), "empty")
                  ELSE StartResultsTurn(Recorded, results)
    /\ pc' = "top"

-----------------------------------------------------------------------------
(* The end of a run. *)

(* The locals of the run are gone. *)
Return ==
    /\ pc' = "idle" /\ back' = "end"
    /\ loops' = 0 /\ empties' = 0 /\ params' = {}
    /\ calls' = <<>> /\ did' = {}
    /\ failures' = 0 /\ heard' = 0 /\ hooks' = {} /\ asked' = {}
    /\ UNCHANGED <<runs, force, dispatchVars>>

Finish == pc = "finish" /\ Return /\ UNCHANGED turns

(* The error hook may swallow the error: the session is the same. *)
Fail ==
    /\ pc \in {"fail", "exhausted"} /\ Return
    /\ turns' = SetResponseIfNone(turns, "error")

-----------------------------------------------------------------------------

(* Past MaxLoops the host no longer answers for the helper to be resumed:   *)
(* skipped or overridden, it would be called again in every further round. *)
Patience == (back = "teleport" /\ loops > MaxLoops /\ At({"helper"})) => dpc' # "intents"

DispatchMoves == pc = "dispatch" /\ DispatchStep /\ Patience /\ UNCHANGED runVars

RunStep ==
    \/ Teleport \/ TeleportReturns \/ Top \/ LlmStart
    \/ OpenOk \/ OpenNoDriver \/ Propagate \/ Swallow \/ RetryTurn \/ RetryRun
    \/ Text \/ NativeCall \/ Structured \/ StreamError \/ StreamEnds
    \/ BatchFails \/ BatchReturns
    \/ RetryEmpty \/ EndRound \/ NextRound
    \/ Finish \/ Fail
    \/ DispatchMoves

Next == RejectRun \/ StartRun \/ RunStep

Spec == Init /\ [][Next]_vars

(* The run is one future that its executor polls until it is done: every   *)
(* await in it ends, and then the next statement runs.                     *)
FairSpec == Spec /\ WF_vars(RunStep)

-----------------------------------------------------------------------------
(* Properties. *)

Turn == [input : InputKinds, payload : Seq(Intents), response : ResponseKinds,
         calls : Seq(Intents), results : Seq(Intents), left : {"no", "yes"}]

RunTypeOK ==
    /\ pc \in {"idle", "top", "llm_start", "open", "stream", "dispatch",
               "leaving", "finish", "fail", "exhausted"}
    /\ back \in {"teleport", "call", "structured", "end"}
    /\ runs \in 0..MaxRuns
    /\ turns \in Seq(Turn)
    /\ loops \in 0..(MaxLoops + 1)
    /\ force \in 0..(MaxForce + 1)
    /\ failures \in 0..(MaxForce + 2)
    /\ empties \in 0..MaxEmpty
    /\ calls \in Seq(Intents)
    /\ heard \in 0..MaxHeard
    /\ did \subseteq {"acted", "stopped"}
    /\ hooks \subseteq {"llm_start"}
    /\ params \subseteq Overrides /\ asked \subseteq Overrides

(* Every variable has its type: the conversation, the counters within their *)
(* limits, the places of run and process_intents, and IntentDispatch's own.*)
TypeOK == RunTypeOK /\ DispatchTypeOK

Conversation == INSTANCE Conversation
    WITH thread <- [k \in DOMAIN turns |-> Standing(turns[k])]

(* Whatever streams, batches, retries, teleports and errors do, the session *)
(* stays a conversation: at most the last question is open, and an answer  *)
(* that was given stays as it is.                                          *)
ConversationKept == Conversation!Spec

(* The model is called for a question that waits for its answer, never for *)
(* one that was answered before ("One turn = one model call + response").  *)
OneCallPerTurn == pc = "open" /\ turns # <<>> => Open(turns)

(* The model is never called with nothing asked, a restarted run included. *)
RequestHasTurn == pc = "open" => turns # <<>>

Count(s, i) == Cardinality({k \in DOMAIN s : s[k] = i})

Told == IF Last(turns).input = "empty" THEN turns[Len(turns) - 1].results
        ELSE Last(turns).payload

(* A native run that an error hook restarted has no turn of its own, and    *)
(* nowhere to put the results of its first round.                          *)
NoTurnForResults == Len(turns) = 1 /\ Last(turns).input = "empty"

(* When the model is asked again, it is told the result of every action of *)
(* the round that ran, once each, whatever batches they came in.           *)
ExecutedAreReported ==
    pc = "top" /\ ran # <<>> /\ ~NoTurnForResults =>
        \A i \in Intents : Count(Told, i) = Count(ran, i)

(* A helper that a run resumes hears what the user said in this very run.   *)
ResumedHearsUser ==
    dpc = "helper" /\ back = "teleport" /\ sub.rest = <<>> => sub.message = runs

(* While a helper of the agent runs, the stack ends in its name: a session *)
(* stored now resumes in this helper.                                      *)
RunningHelperIsOnTop ==
    dpc = "helper" /\ sub.rest = <<>> => stack # <<>> /\ Last(stack) = sub.name

(* An error hook cannot make one run retry without end: after MaxForce      *)
(* retries in a row the next failure ends the run.                         *)
RetriesBounded == failures <= MaxForce + 1

(* A provider, model, header or key that a hook asked for is still asked    *)
(* for in every later request of the run, whatever fails in between.       *)
RoutesReachTheModel == pc = "stream" => asked \ {"config"} \subseteq params

(* Every run returns, if the model stops asking for actions, the host lets *)
(* a helper be resumed and no helper or tool hangs.                        *)
RunReturns == pc # "idle" ~> pc = "idle"

-----------------------------------------------------------------------------
(* What documents and comments of the repository say, and the code does not *)
(* do.                                                                     *)

(* helpers.mdx: a user handoff ends the run, "the parent receives nothing". *)
HandoffEndsRun ==
    [][pc = "dispatch" /\ "stopped" \in did => pc' # "top"]_vars
===============================================================================

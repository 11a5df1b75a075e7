---------------------------- MODULE IntentDispatch ----------------------------
(***************************************************************************)
(* AuwgentEngine::process_intents (auwgent-engine/src/engine/execution.rs) *)
(* and execute_helper (execution/helpers.rs): what happens to one batch of *)
(* intents the model emitted.                                              *)
(*                                                                         *)
(* The host sees every intent first and may skip it or override its        *)
(* result.  Helpers run at once, one after the other, each in an engine of *)
(* its own; tools and workflows wait until the whole batch was read and    *)
(* then run together.  Results reach pending_tool_results only when the    *)
(* whole batch succeeded.                                                  *)
(*                                                                         *)
(* The run of a helper's own engine is one step with any outcome.  The     *)
(* module has no Init of its own: EngineRun, which calls process_intents,  *)
(* starts every batch with Dispatch.                                       *)
(***************************************************************************)
EXTENDS Integers, Sequences, SequencesExt, FiniteSets

CONSTANTS
    Agent,       \* name of the agent the engine runs
    Helpers,     \* names of its helpers
    Strangers,   \* names a model may call that are no helper of the agent
    Tools,       \* names of its tools
    Workflows,   \* names of its workflows
    ModeOf,      \* handoff mode of each helper
    Transfers,   \* helpers that workflows call
    MaxTransfers \* bound: helpers one workflow calls

Modes == {"user", "thenContinue", "return"}

ASSUME ModeOfAssumption == ModeOf \in [Helpers -> Modes]
ASSUME TransfersAssumption == Transfers \subseteq Helpers /\ MaxTransfers \in Nat

ASSUME AgentAssumption == Agent \notin Helpers

Callees == Helpers \cup Strangers

Names == {Agent} \cup Callees

(* The agent itself is at the bottom of a stack, if anywhere. *)
IsStack(s) == s \in Seq(Names) /\ \A k \in 2..Len(s) : s[k] \in Callees

Intents ==
    [kind : {"tool"}, name : Tools] \cup [kind : {"workflow"}, name : Workflows]
    \cup [kind : {"helper"}, name : Callees]
    \cup [kind : {"response", "custom"}, name : {Agent}]

IsAction(i) == i.kind \in {"tool", "workflow", "helper"}

VARIABLES
    dpc,         \* "idle", "intents", "helper", "actions", "ok" or "error"
    batch,       \* the intents taken from pending_intents
    pos,         \* the one being looked at
    deferred,    \* pending_actions: tools and workflows to run together
    live,        \* those of deferred still running: which, inside which
                 \* helper (Agent: in none), after how many helpers
    failed,      \* indices of deferred that ended with an error
    gathered,    \* tool_results of this batch
    ret,         \* has_actions ("acted") and hard_stop ("stopped") so far
    sub,         \* the helper that runs, and the rest of the path to resume
    results,     \* pending_tool_results of the engine
    flags,       \* {terminal, final}_response_emitted, and "raw" text received
    stack,       \* session.stack
    ff,          \* fast_forward_stack, <<>> for None
    message,     \* user_input: the run that set it, 0 for None
    ran          \* history: actions that gave a result since the round began

batchVars == <<dpc, batch, pos, deferred, live, failed, gathered, ret, sub>>
engineVars == <<results, flags, stack, ff, message, ran>>
dispatchVars == <<dpc, batch, pos, deferred, live, failed, gathered, ret, sub,
                  results, flags, stack, ff, message, ran>>

NoSub == [name |-> Agent, rest |-> <<>>, message |-> 0]

-----------------------------------------------------------------------------

(* process_intents is called with everything in pending_intents. *)
Dispatch(intents) ==
    /\ dpc' = "intents"
    /\ batch' = intents /\ pos' = 1
    /\ deferred' = <<>> /\ live' = {} /\ failed' = {}
    /\ gathered' = <<>> /\ ret' = {} /\ sub' = NoSub

(* process_intents has returned: its locals are gone. *)
Release ==
    /\ dpc \in {"ok", "error"} /\ dpc' = "idle"
    /\ batch' = <<>> /\ pos' = 1
    /\ deferred' = <<>> /\ live' = {} /\ failed' = {}
    /\ gathered' = <<>> /\ ret' = {} /\ sub' = NoSub

(* The next intent is of one of these kinds... *)
At(kinds) ==
    /\ dpc = "intents" /\ pos <= Len(batch)
    /\ batch[pos].kind \in kinds

(* ...and is dealt with in one step. *)
Take(kinds) ==
    /\ At(kinds)
    /\ pos' = pos + 1
    /\ UNCHANGED <<batch, live, failed, sub>>

ContainsActions == \E k \in DOMAIN batch : IsAction(batch[k])

(* A response beside an action is dropped before the host sees it. *)
DropResponse ==
    /\ Take({"response"})
    /\ ContainsActions
    /\ UNCHANGED <<dpc, deferred, gathered, ret, engineVars>>

(* A response: the host sees it, whatever it answers the response stands. *)
Respond ==
    /\ Take({"response"})
    /\ ~ContainsActions
    /\ flags' = flags \cup {"terminal", "final"}
    /\ UNCHANGED <<dpc, deferred, gathered, ret, results, stack, ff, message, ran>>

(* A custom intent is terminal but not final. *)
Custom ==
    /\ Take({"custom"})
    /\ flags' = flags \cup {"terminal"}
    /\ UNCHANGED <<dpc, deferred, gathered, ret, results, stack, ff, message, ran>>

(* The host skips an action: nothing remains of it. *)
Skip ==
    /\ Take({"tool", "workflow", "helper"})
    /\ UNCHANGED <<dpc, deferred, gathered, ret, engineVars>>

(* The host overrides the result of an action. *)
Override ==
    /\ Take({"tool", "workflow", "helper"})
    /\ gathered' = Append(gathered, batch[pos])
    /\ ret' = ret \cup {"acted"}
    /\ ran' = Append(ran, batch[pos])
    /\ UNCHANGED <<dpc, deferred, results, flags, stack, ff,
                   message>>

(* A tool or workflow is kept for the end of the batch. *)
Defer ==
    /\ Take({"tool", "workflow"})
    /\ deferred' = Append(deferred, batch[pos])
    /\ ret' = ret \cup {"acted"}
    /\ UNCHANGED <<dpc, gathered, engineVars>>

-----------------------------------------------------------------------------
(* execute_helper. *)

(* What a sub-engine's run can come to: an error, a final response, another *)
(* terminal intent, or neither.                                            *)
Outcomes == {"error", "final", "terminal", "nothing"}

(* The helper has finished, and its entry is popped. *)
Finished(h, outcome) ==
    \/ outcome = "final"
    \/ outcome = "nothing" /\ ModeOf[h] = "return"

(* The parent must stop: __handoff_stop. *)
StopsParent(h, outcome) ==
    \/ ModeOf[h] = "user"
    \/ ModeOf[h] = "thenContinue" /\ outcome # "final"
    \/ ModeOf[h] = "return" /\ outcome = "terminal"

(* Mutant: pushed on the way back instead of otherwise. *)
PushWhenResuming(h) == IF ff # <<>> THEN Append(stack, h) ELSE stack

Push(h) == IF ff = <<>> THEN Append(stack, h) ELSE stack

Pop(s) == IF s = <<>> THEN s ELSE Front(s)

PathAfter(resumes) == IF resumes THEN <<>> ELSE ff

(* A helper is entered.  On the way back to a helper of the stored stack   *)
(* it is on the stack already; its path is consumed, and the helper at the *)
(* end of the path gets the user's message instead of arguments.           *)
EnterHelper ==
    /\ At({"helper"})
    /\ batch[pos].name \in Helpers
    /\ stack' = Push(batch[pos].name)
    /\ LET h == batch[pos].name
           resumes == ff # <<>> /\ ff[1] = h
           target == resumes /\ Len(ff) = 1
       IN  /\ sub' = [name |-> h,
                      rest |-> IF resumes THEN Tail(ff) ELSE <<>>,
                      message |-> IF target THEN message ELSE 0]
           /\ ff' = PathAfter(resumes)
           /\ message' = IF target THEN 0 ELSE message
    /\ dpc' = "helper"
    /\ UNCHANGED <<batch, pos, deferred, live, failed, gathered, ret, results,
                   flags, ran>>

(* The name is no helper of this agent: an error, after the push. *)
EnterStranger ==
    /\ At({"helper"})
    /\ batch[pos].name \notin Helpers
    /\ stack' = Push(batch[pos].name)
    /\ dpc' = "error"
    /\ UNCHANGED <<batch, pos, deferred, live, failed, gathered, ret, sub,
                   results, flags, ff, message, ran>>

(* The helper's run returns.  A helper has no helpers of its own, so a path *)
(* that goes on below it is an error.  An error abandons the batch.        *)
LeaveHelper(outcome) ==
    /\ dpc = "helper"
    /\ sub.rest # <<>> => outcome = "error"
    /\ IF outcome = "error"
         THEN /\ dpc' = "error"
              /\ UNCHANGED <<pos, gathered, ret, stack, ran>>
         ELSE /\ dpc' = "intents"
              /\ pos' = pos + 1
              /\ gathered' = Append(gathered, batch[pos])
              /\ ran' = Append(ran, batch[pos])
              /\ ret' = ret \cup {"acted"}
                        \cup IF StopsParent(sub.name, outcome) THEN {"stopped"} ELSE {}
              /\ stack' = IF Finished(sub.name, outcome) THEN Pop(stack) ELSE stack
    /\ sub' = NoSub
    /\ UNCHANGED <<batch, deferred, live, failed, results, flags, ff, message>>

-----------------------------------------------------------------------------
(* join_all over the tools and workflows of the batch. *)

(* The batch was read to its end: the deferred actions start together. *)
StartActions ==
    /\ dpc = "intents" /\ pos > Len(batch)
    /\ dpc' = "actions"
    /\ live' = {[index |-> k, inside |-> Agent, calls |-> 0] : k \in DOMAIN deferred}
    /\ UNCHANGED <<batch, pos, deferred, failed, gathered, ret, sub, engineVars>>

(* One of them returns.  A tool always has a result, an error text if need *)
(* be; a workflow may fail.                                                *)
ActionDone(a) ==
    /\ a \in live /\ a.inside = Agent
    /\ live' = live \ {a}
    /\ ran' = Append(ran, deferred[a.index])
    /\ UNCHANGED <<dpc, batch, pos, deferred, failed, gathered, ret, sub,
                   results, flags, stack, ff, message>>

WorkflowFails(a) ==
    /\ a \in live /\ a.inside = Agent /\ deferred[a.index].kind = "workflow"
    /\ live' = live \ {a}
    /\ failed' = failed \cup {a.index}
    /\ UNCHANGED <<dpc, batch, pos, deferred, gathered, ret, sub, engineVars>>

(* A workflow calls a helper... *)
WorkflowEntersHelper(a, h) ==
    /\ a \in live /\ a.inside = Agent /\ deferred[a.index].kind = "workflow"
    /\ a.calls < MaxTransfers
    /\ stack' = Push(h)
    /\ live' = (live \ {a})
                  \cup {[index |-> a.index, inside |-> h, calls |-> a.calls + 1]}
    /\ UNCHANGED <<dpc, batch, pos, deferred, failed, gathered, ret, sub,
                   results, flags, ff, message, ran>>

(* ...and goes on with what the helper made of it, or fails with it.  A     *)
(* helper of a workflow never stops the parent.                            *)
WorkflowLeavesHelper(a, outcome) ==
    /\ a \in live /\ a.inside # Agent
    /\ IF outcome = "error"
         THEN /\ live' = live \ {a}
              /\ failed' = failed \cup {a.index}
              /\ UNCHANGED stack
         ELSE /\ live' = (live \ {a}) \cup {[a EXCEPT !.inside = Agent]}
              /\ stack' = IF Finished(a.inside, outcome) THEN Pop(stack) ELSE stack
              /\ UNCHANGED failed
    /\ UNCHANGED <<dpc, batch, pos, deferred, gathered, ret, sub, results,
                   flags, ff, message, ran>>

(* All have returned.  Their results follow those gathered before, in the  *)
(* order of the batch; one failure drops them all.                         *)
EndBatch ==
    /\ dpc = "actions" /\ live = {}
    /\ IF failed = {}
         THEN /\ dpc' = "ok"
              /\ results' = results \o gathered \o deferred
         ELSE /\ dpc' = "error"
              /\ UNCHANGED results
    /\ UNCHANGED <<batch, pos, deferred, live, failed, gathered, ret, sub,
                   flags, stack, ff, message, ran>>

-----------------------------------------------------------------------------

DispatchStep ==
    \/ DropResponse \/ Respond \/ Custom \/ Skip \/ Override \/ Defer
    \/ EnterHelper \/ EnterStranger
    \/ \E outcome \in Outcomes : LeaveHelper(outcome)
    \/ StartActions \/ EndBatch
    \/ \E a \in live :
          \/ ActionDone(a) \/ WorkflowFails(a)
          \/ \E h \in Transfers : WorkflowEntersHelper(a, h)
          \/ \E outcome \in Outcomes : WorkflowLeavesHelper(a, outcome)

DispatchInit ==
    /\ dpc = "idle"
    /\ batch = <<>> /\ pos = 1 /\ deferred = <<>> /\ live = {} /\ failed = {}
    /\ gathered = <<>> /\ ret = {} /\ sub = NoSub
    /\ results = <<>> /\ flags = {} /\ ran = <<>>
    /\ stack = <<>> /\ ff = <<>> /\ message = 0

BatchTypeOK ==
    /\ dpc \in {"idle", "intents", "helper", "actions", "ok", "error"}
    /\ batch \in Seq(Intents)
    /\ pos \in Nat \ {0}
    /\ deferred \in Seq(Intents)
    /\ live \subseteq [index : DOMAIN deferred, inside : {Agent} \cup Helpers, calls : Nat]
    /\ failed \subseteq Nat
    /\ gathered \in Seq(Intents)
    /\ ret \subseteq {"acted", "stopped"}
    /\ sub \in [name : {Agent} \cup Helpers, rest : Seq(Callees), message : Nat]

EngineTypeOK ==
    /\ results \in Seq(Intents)
    /\ flags \subseteq {"terminal", "final", "raw"}
    /\ IsStack(stack)
    /\ ff \in Seq(Callees)
    /\ message \in Nat
    /\ ran \in Seq(Intents)

DispatchTypeOK == BatchTypeOK /\ EngineTypeOK
===============================================================================

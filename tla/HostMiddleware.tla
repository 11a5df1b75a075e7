--------------------------- MODULE HostMiddleware ---------------------------
(* The middleware of a host, in the four SDKs: what the hooks of a run see *)
(* of each other through their context, what of it is kept, and which      *)
(* session the engine runs with.  The engine waits for the answer to each  *)
(* event, but tools that run in parallel may fail together: the events of  *)
(* each follow each other, beside those of the others.  The callbacks of   *)
(* streamed intents run while a hook of the TypeScript SDK is awaiting.    *)
EXTENDS Naturals, Sequences

CONSTANTS
    SDKs,         \* SDKs the host may be written with
    Agent,        \* the agent: the one whose events the engine sends
    Helper,       \* its helper: only streamed intents carry its name
    Tools,        \* tools a batch runs in parallel
    Targets,      \* for each middleware the agents it is for; {}: all
    Keys,         \* keys the hooks use
    RunStacks,    \* stacks a run may leave in the session
    HookStacks,   \* stacks a hook may put into its context
    MaxRuns,      \* bound: runs
    MaxEvents,    \* bound: events and batches of a run between its first
                  \* and last event
    MaxWrites,    \* bound: writes to the context
    MaxPartials   \* bound: streamed intents on their way to the host

ASSUME SDKsAssumption ==
    SDKs \subseteq {"typescript", "python", "dart", "rust"}
ASSUME ToolsAssumption == "run" \notin Tools
ASSUME TargetsAssumption == Targets \in Seq(SUBSET {Agent, Helper})
ASSUME HostBoundsAssumption == {MaxRuns, MaxEvents, MaxWrites, MaxPartials} \subseteq Nat
ASSUME HostStacksAssumption ==
    RunStacks \cup HookStacks \subseteq Seq({Agent, Helper}) \ {<<>>}

VARIABLES
    sdk,       \* the SDK of this host
    pc,        \* "idle", "engine" (it works), "event" (it waits for hooks),
               \* "batch" (it waits for tools)
    runs, events, writes,
    session,   \* the engine's
    saved,     \* what a run_complete hook has stored
    shared,    \* sharedContext: for each key its last write, 0: none
    event,     \* the last event of the run itself and of each tool
    open,      \* those not answered yet
    partials,  \* streamed intents not yet delivered
    board,     \* what the hooks of this run have written
    lost,      \* keys of which the last write of this run may be lost
    returned   \* session the last run_start hook returned

counters == <<sdk, runs, events>>
vars == <<sdk, pc, runs, events, writes, session, saved, shared, event, open,
          partials, board, lost, returned>>

Lanes == {"run"} \cup Tools

Blank == [k \in Keys |-> 0]
Fresh == [stack |-> <<Agent>>, turns |-> 0]
NoSession == [stack |-> <<>>, turns |-> 0]

Kinds == {"llm_start", "llm_end", "intent", "error"}

(* Middleware for the agent, in the order of their registration. *)
Selected(agent) ==
    SelectSeq([i \in DOMAIN Targets |-> i],
              LAMBDA i : Targets[i] = {} \/ agent \in Targets[i])

(* Every hook of an event gets the same context, a copy of what is shared. *)
BuildContext(kind, s, data) ==
    [kind |-> kind, todo |-> Selected(Agent), busy |-> FALSE, data |-> data,
     stack |-> s.stack, session |-> s, wrote |-> {}]

NoEvent == [kind |-> "none", todo |-> <<>>, busy |-> FALSE, data |-> Blank,
            stack |-> <<>>, session |-> Fresh, wrote |-> {}]

Init ==
    /\ sdk \in SDKs
    /\ pc = "idle" /\ runs = 0 /\ events = 0 /\ writes = 0
    /\ session = Fresh /\ saved = NoSession /\ returned = Fresh
    /\ shared = Blank /\ board = Blank /\ lost = {}
    /\ event = [l \in Lanes |-> NoEvent] /\ open = {} /\ partials = 0

-----------------------------------------------------------------------------
(* The engine. *)

(* The Rust SDK keeps one context for all runs. *)
ClearsContext == {"typescript", "python", "dart"}

(* The event of l begins.  In the Dart SDK it also ends before another one *)
(* begins, since its hooks do not await; in the others the context does not *)
(* have what the hooks of an unanswered event have written.                *)
Begin(l, kind, s) ==
    /\ sdk = "dart" => open = {}
    /\ open' = open \cup {l}
    /\ event' = [event EXCEPT ![l] = BuildContext(kind, s, shared')]

StartRun ==
    /\ pc = "idle" /\ runs < MaxRuns /\ partials = 0
    /\ runs' = runs + 1 /\ events' = 0
    /\ shared' = IF sdk \in ClearsContext THEN Blank ELSE shared
    /\ board' = Blank /\ lost' = {}
    /\ returned' = session
    /\ Begin("run", "run_start", session)
    /\ pc' = "event"
    /\ UNCHANGED <<sdk, writes, session, saved, partials>>

SendEvent(kind) ==
    /\ pc = "engine" /\ events < MaxEvents
    /\ events' = events + 1
    /\ UNCHANGED shared /\ Begin("run", kind, session)
    /\ pc' = "event"
    /\ UNCHANGED <<sdk, runs, writes, session, saved, partials, board, lost,
                   returned>>

(* join_all: the tools of a batch run beside each other. *)
StartBatch ==
    /\ pc = "engine" /\ events < MaxEvents
    /\ events' = events + 1
    /\ event' = [l \in Lanes |-> NoEvent]
    /\ pc' = "batch"
    /\ UNCHANGED <<sdk, runs, writes, session, saved, shared, open, partials,
                   board, lost, returned>>

(* A tool that fails sends an intent, and when that is answered an error. *)
ToolFails(t) ==
    /\ pc = "batch" /\ t \notin open /\ event[t].kind # "error"
    /\ UNCHANGED shared
    /\ Begin(t, IF event[t].kind = "none" THEN "intent" ELSE "error", session)
    /\ lost' = lost \cup UNION {event[l].wrote : l \in open}
    /\ UNCHANGED <<counters, pc, writes, session, saved, partials, board,
                   returned>>

EndBatch ==
    /\ pc = "batch" /\ open = {}
    /\ \A t \in Tools : event[t].kind # "intent"
    /\ pc' = "engine"
    /\ event' = [l \in Lanes |-> NoEvent]
    /\ UNCHANGED <<counters, writes, session, saved, shared, open, partials,
                   board, lost, returned>>

(* A run adds to the conversation and may leave a helper that waits. *)
Ran(s) == [stack |-> s, turns |-> session.turns + 1]

FinishRun ==
    /\ pc = "engine"
    /\ \E s \in RunStacks : session' = Ran(s)
    /\ UNCHANGED shared /\ Begin("run", "run_complete", session')
    /\ pc' = "event"
    /\ UNCHANGED <<counters, writes, saved, partials, board, lost, returned>>

(* A run that fails has told the error hooks and completes no more. *)
FailRun ==
    /\ pc = "engine" /\ event["run"].kind = "error"
    /\ \E s \in RunStacks : session' = Ran(s)
    /\ pc' = "idle" /\ event' = [l \in Lanes |-> NoEvent]
    /\ UNCHANGED <<counters, writes, saved, shared, open, partials, board, lost,
                   returned>>

(* The process dies: the host has what it stored, and nothing else. *)
Restart ==
    /\ session # Fresh \/ pc # "idle"
    /\ pc' = "idle" /\ session' = Fresh
    /\ event' = [l \in Lanes |-> NoEvent] /\ open' = {}
    /\ shared' = Blank /\ board' = Blank /\ lost' = {} /\ partials' = 0
    /\ returned' = Fresh
    /\ UNCHANGED <<counters, writes, saved>>

-----------------------------------------------------------------------------
(* A hook of the event of l. *)

Running(l) == l \in open /\ event[l].busy

StartHook(l) ==
    /\ l \in open /\ ~event[l].busy /\ event[l].todo # <<>>
    /\ event' = [event EXCEPT ![l].busy = TRUE]
    /\ UNCHANGED <<counters, pc, writes, session, saved, shared, open, partials,
                   board, lost, returned>>

(* A new value for a key, newer than every other.  It may be lost if other *)
(* events have made their copies of the context.                           *)
Write(k, others) ==
    /\ writes < MaxWrites
    /\ writes' = writes + 1
    /\ board' = [board EXCEPT ![k] = writes + 1]
    /\ lost' = IF others = {} THEN lost \ {k} ELSE lost \cup {k}

(* The hook sets a property of its context. *)
Attach(l, k) ==
    /\ Running(l) /\ Write(k, open \ {l})
    /\ event' = [event EXCEPT ![l].data[k] = writes + 1, ![l].wrote = @ \cup {k}]
    /\ UNCHANGED <<counters, pc, session, saved, shared, open, partials, returned>>

(* setContext writes the shared context as well, in two of the SDKs. *)
SetContext(l, k) ==
    /\ Running(l) /\ sdk \in {"typescript", "python"} /\ Write(k, open \ {l})
    /\ shared' = [shared EXCEPT ![k] = writes + 1]
    /\ event' = [event EXCEPT ![l].data[k] = writes + 1, ![l].wrote = @ \ {k}]
    /\ UNCHANGED <<counters, pc, session, saved, open, partials, returned>>

(* Mutant: only keys that are not there yet. *)
PersistNew(data) ==
    [k \in Keys |-> IF shared[k] # 0 THEN shared[k] ELSE data[k]]

(* persistMiddlewareContext writes key by key, or the context as it is. *)
PersistKeys(data) ==
    [k \in Keys |-> IF data[k] # 0 THEN data[k] ELSE shared[k]]

PersistAll(data) == data

Persist(data) ==
    IF sdk \in {"typescript", "python"} THEN PersistKeys(data) ELSE PersistAll(data)

Leave(e) == [e EXCEPT !.busy = FALSE, !.todo = Tail(@)]

(* The Python SDK persists after each hook, the others after the event. *)
ReturnHook(l) ==
    /\ Running(l)
    /\ \E st \in HookStacks \cup {event[l].stack}, s \in {saved, event[l].session} :
          /\ st # event[l].stack => event[l].kind \in {"run_start", "llm_start"}
          /\ s # event[l].session => event[l].kind = "run_start" /\ s # NoSession
          /\ event' = [event EXCEPT ![l] =
                [Leave(event[l]) EXCEPT !.stack = st, !.session = s,
                   !.wrote = IF sdk = "python" THEN {} ELSE event[l].wrote]]
          /\ returned' = IF event[l].kind = "run_start" THEN s ELSE returned
    /\ saved' \in IF event[l].kind = "run_complete" THEN {saved, event[l].session}
                                                   ELSE {saved}
    /\ shared' = IF sdk = "python" THEN Persist(event[l].data) ELSE shared
    /\ UNCHANGED <<counters, pc, writes, session, open, partials, board, lost>>

(* The event is answered.  Writes that are not persisted are lost. *)
Answered(l, persisted) ==
    /\ open' = open \ {l}
    /\ pc' = IF l # "run" THEN pc
             ELSE IF event[l].kind = "run_complete" THEN "idle" ELSE "engine"
    /\ shared' = IF persisted THEN Persist(event[l].data) ELSE shared
    /\ lost' = IF persisted THEN lost ELSE lost \cup event[l].wrote
    /\ event' = [event EXCEPT ![l].busy = FALSE, ![l].todo = <<>>,
                              ![l].data = Blank, ![l].wrote = {}]
    /\ UNCHANGED <<counters, writes, saved, partials, board>>

(* A hook decides the event: an intent is skipped or has a result, an error *)
(* is swallowed or starts a retry.  The TypeScript SDK answers an intent    *)
(* before it has persisted.                                                 *)
DecideEvent(l) ==
    /\ Running(l) /\ event[l].kind \in {"intent", "error"}
    /\ Answered(l, sdk # "typescript" \/ event[l].kind = "error")
    /\ UNCHANGED <<session, returned>>

(* A hook throws.  Three SDKs go on to the next one, the Dart SDK gives up  *)
(* the event and answers nothing.                                           *)
SkipHook(l) ==
    /\ Running(l) /\ sdk # "dart"
    /\ event' = [event EXCEPT ![l] = Leave(@)]
    /\ UNCHANGED <<counters, pc, writes, session, saved, shared, open, partials,
                   board, lost, returned>>

AbandonEvent(l) ==
    /\ Running(l) /\ sdk = "dart"
    /\ Answered(l, FALSE)
    /\ returned' = session
    /\ UNCHANGED session

(* In two SDKs the stack of the context replaces that of the session. *)
ContextStack == {"typescript", "python"}

(* All hooks have run.  The engine takes the session of run_start, and the  *)
(* stack of llm_start.                                                      *)
AnswerEvent(l) ==
    /\ l \in open /\ ~event[l].busy /\ event[l].todo = <<>>
    /\ Answered(l, TRUE)
    /\ session' =
         CASE event[l].kind = "run_start" ->
                IF sdk \in ContextStack
                  THEN [event[l].session EXCEPT !.stack = event[l].stack]
                  ELSE event[l].session
           [] event[l].kind = "llm_start" -> [session EXCEPT !.stack = event[l].stack]
           [] OTHER -> session
    /\ UNCHANGED returned

-----------------------------------------------------------------------------
(* What comes between. *)

(* The model's answer streams in: only these two SDKs have hooks for it. *)
StreamPartial ==
    /\ pc = "engine" /\ sdk \in {"typescript", "dart"}
    /\ partials < MaxPartials
    /\ partials' = partials + 1
    /\ UNCHANGED <<counters, pc, writes, session, saved, shared, event, open,
                   board, lost, returned>>

(* The hooks of a streamed intent, with a context of their own, between two *)
(* steps of the host.  In Dart an event is one step; in TypeScript a hook   *)
(* that awaits has its context already, and persists it later.              *)
DeliverPartial ==
    /\ partials > 0
    /\ \A l \in open : sdk = "typescript" /\ event[l].busy
    /\ partials' = partials - 1
    /\ \/ UNCHANGED <<writes, shared, board, lost>>
       \/ \E agent \in {Agent, Helper}, k \in Keys :
             /\ Selected(agent) # <<>> /\ Write(k, open)
             /\ shared' = [shared EXCEPT ![k] = writes + 1]
    /\ UNCHANGED <<counters, pc, session, saved, event, open, returned>>

(* ctx.embed fails within a hook: the error hooks run at once, with a       *)
(* context of their own, and only then the hook that asked goes on.         *)
FailEmbedding(l, k) ==
    /\ Running(l) /\ sdk = "typescript" /\ Write(k, open)
    /\ shared' = [shared EXCEPT ![k] = writes + 1]
    /\ UNCHANGED <<counters, pc, session, saved, event, open, partials, returned>>

Next ==
    \/ StartRun \/ FinishRun \/ FailRun \/ Restart
    \/ \E kind \in Kinds : SendEvent(kind)
    \/ StartBatch \/ (\E t \in Tools : ToolFails(t)) \/ EndBatch
    \/ \E l \in Lanes :
          \/ StartHook(l) \/ ReturnHook(l) \/ DecideEvent(l) \/ SkipHook(l)
          \/ AbandonEvent(l) \/ AnswerEvent(l)
          \/ \E k \in Keys : Attach(l, k) \/ SetContext(l, k) \/ FailEmbedding(l, k)
    \/ StreamPartial \/ DeliverPartial

Spec == Init /\ [][Next]_vars

-----------------------------------------------------------------------------
(* A hook sees every write of the hooks before it in its run, and, but in   *)
(* the Rust SDK, no write of another run.  A key is an exception while its   *)
(* last write was made in an event that overlaps another one (tools of a    *)
(* batch that fail together, except in the Dart SDK) or while a TypeScript   *)
(* hook was awaiting, in a TypeScript intent that a hook decided, or in a    *)
(* Dart event in which a hook threw.  What was not written meanwhile         *)
(* survives: a context that is written back late takes nothing else back.   *)
HooksSeeEarlierWrites ==
    \A l \in Lanes : Running(l) =>
        \A k \in Keys \ lost :
            \/ event[l].data[k] = board[k]
            \/ sdk = "rust" /\ runs > 1 /\ board[k] = 0

(* The engine runs with the session the last run_start hook returned, which *)
(* may have been stored before the process died, a helper that waits for    *)
(* the user included (sessions.mdx:35: "Whatever you return becomes the     *)
(* session the engine runs with").                                          *)
ReturnedSessionRuns ==
    pc = "engine" /\ event["run"].kind = "run_start" => session = returned
===============================================================================

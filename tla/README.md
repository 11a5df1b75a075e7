# Auwgent in TLA+

Auwgent compiles agent descriptions to an intermediate form (the IR) and runs
them: a Rust engine calls a language model, reads the intents in its stream,
executes the tools, workflows and helper agents they name, tells the model the
results and asks again.  Hosts in TypeScript, Dart, Python and Rust embed the
engine, natively, through a C ABI or through WASM, with bindings that a compiler
generates, and steer it with middleware hooks.  Quew is a second, smaller language
with a compiler and an executor of its own.

This directory models the parts of the repository where order, failure, shared
state or the agreement of two programs decide what is right, checks them with TLC
on small instances and proves theorems about them with TLAPS.

## 1. Inventory

| part | state it keeps | operations | what is hard |
|---|---|---|---|
| C ABI host calls, `c-abi/src` | two registries of open requests, ids, one-shot channels | register, invoke, complete, fail, free | host threads racing each other and the engine |
| Run loop, `auwgent-engine/src/engine/runtime_loop.rs` | session, retry counter, results, flags, path of helpers to resume | `run` | hooks at every await, errors and retries on each of them, several ways to leave a round |
| Intent dispatch, `engine/execution.rs`, `execution/*.rs` | helper stack, pending results | `process_intents`, `execute_helper`, `execute_workflow`, `execute_tool` | parallel actions, helpers inside workflows, a batch that fails half way |
| Session, `auwgent-session` | turns, stack | start, answer, pop, native calls and results, message history | which turn an operation means, which call a result belongs to |
| Block orchestrator and scanner, `auwgent-protocol`, `function-parser` | text so far, intents reported, partials and cursors shown | write, end, reset | a block split anywhere by chunks, broken off or malformed |
| Drivers, `auwgent-drivers` | buffers of one SSE stream | decode, accumulate calls, build messages | calls in mixed pieces, calls that never see their finish reason, alternation of roles |
| Context and prompts, `auwgent-evaluator`, `engine/prompt.rs` | context, system prompt, the keys it was made from | `set_context`, render, binding block, export | three states that move apart |
| Workflow bodies, `auwgent-checker`, `auwgent-ir`, `auwgent-evaluator` | scope, threads of `parallel` | check, lower, evaluate | what one program accepts and the next cannot do |
| Engine creation and calls, `engine.rs`, `auwgent-schema`, `auwgent-native`, `auwgent-prompt` | registries of callables | register, flatten, describe, rebuild arguments | one declaration read by three programs |
| Quew compiler and runtime | graphs, slots of their nodes, limits | check, lower, execute | merges, captures of loops, early exits |
| Declarations and bindings, `auwgent-checker`, `auwgent-ir`, `auwgent-codegen` | none: a pipeline | check, lower, plan, generate | what the checker accepts must be a program in four languages |
| Host SDKs, `src/targets` | shared context, session, drivers, handlers | start-up, hooks, intents | hooks that await while others run; names found by spelling |
| Language server, `auwgent-lsp` | open documents, change counters, analyses | open, change, save, close | analyses answering late |
| Structured JSONL, manual run API, middleware wire format, parsers, sites | | | not modelled, see 6 |

How they interact: the compiler turns an agent file into the IR and the bindings of
a target; a host loads the IR into an engine, registers drivers and tools, and calls
`run`.  The engine renders the prompt, calls the middleware (which may be a host call
through the C ABI), the driver, the orchestrator (which puts intents into
`pending_intents`), `process_intents` (which calls tools, which may be host calls,
workflow bodies, and helpers, which are engines of their own), and changes the
session that the host exports when the run is over and imports before the next.

What makes each part correct:

* C ABI: one answer wins, the host is told so, the call gets exactly it, nothing
  stays registered, a run whose calls are answered ends;
* run loop: the session stays a conversation; every executed action is reported to
  the model once; routes a hook asked for are kept; a run returns; a suspended helper
  is resumed with what the user says next;
* streams: whatever the chunks, the engine acts on what the model said, and the host
  is shown nothing else;
* history: every result follows its call under its id; roles alternate;
* languages: what the checker accepts does what its text says, and fails only
  when something it called failed;
* prompt: it says what its source says, and each symbol is explained by the value
  the context has now;
* bindings and calls: a generated program compiles; tools, intents and keys find
  their counterpart; an argument arrives under the path its author declared;
* hosts: a hook sees the writes before it, as long as no other event overlaps; the
  session a hook loads is the one that runs (which fails, section 3); the editor shows
  the errors of the text it has, where the guard can see to it.

The complete list, with what is left out of each, is `components` in PROJECT.json; the
hazards, at their lines, are `hazards`.

## 2. Modules

| module | models | EXTENDS / refines |
|---|---|---|
| `CallResolution` | what the C ABI promises about one host call | |
| `HostCalls`, `HostCallsProofs` | registries, channels and threads of `c-abi`; theorems | refines `CallResolution` |
| `Session` | operators on `SessionState.turns` | |
| `IntentDispatch` | `process_intents`, helpers, workflows | |
| `Conversation` | what a session promises its readers | |
| `EngineRun` | `AuwgentEngine::run` | `IntentDispatch`, `Session`; refines `Conversation` |
| `EngineRunProofs` | theorems about `EngineRun` | extends `EngineRun` |
| `BlockStream`, `BlockStreamProofs`, `BlockStreamText` | orchestrator and block scanner; lemmas; theorems | each extends the one before |
| `NativeRound`, `NativeRoundProofs`, `NativeRoundCalls` | both drivers' streams, native calls, message history; theorems | |
| `QuewCompiler` → `QuewExecution` | checker and lowering; graph executor | each extends the one before |
| `QuewMeaning` | what a Quew program says; the fragment; properties | extends `QuewExecution` |
| `WorkflowCompiler` → `WorkflowRun` | checker and lowering; evaluator and threads | each extends the one before |
| `WorkflowMeaning` | what a workflow says; the fragment; properties | extends `WorkflowRun` |
| `PromptContext`, `PromptMeaning` | prompts and context; what a prompt says | extend `WorkflowRun` |
| `HostMiddleware`, `HostMiddlewareProofs` | the chain of hooks in the four SDKs; theorems | |
| `LanguageServer`, `LanguageServerProofs` | documents and analyses of `auwgent-lsp`; theorems | |
| `AgentFile` → `BindingsPlan` | declarations, their checks and lowering; the plan | each extends the one before |
| `TypeScriptBindings`, `PythonBindings`, `DartBindings`, `RustBindings` | the generators | extend `BindingsPlan` |
| `AgentBindings` | compile, generate, start a host | instantiates the four |
| `CallableShapes` → `NativeCallables` | flat fields; native schemas | extend `BindingsPlan` |
| `AgentEngine` | an engine for a compiled agent and one call in it | `AgentBindings`, `NativeCallables` |
| `MC…` | instances for TLC | |

### HostCalls

`registered` and `held` are the map of open requests and the senders that host
threads took from it; `chan` the one-shot channels; `pc` and `result` the futures
of the engine's calls; `told` and `reply` what the host's functions returned.  A
call registers, then invokes the callback, then awaits; the host may answer at
any moment after it was handed the id, on any thread, twice, or with the functions
of the other registry.  Both registries number from 1, so an answer through the other
one finds nothing, or settles the call that has the same number there (`Key`,
`AnswersFor`): that call is answered before its own host was asked, and the answer
it gets is still one.  Lookup-and-remove is one step, since it is under the map's
lock, and the send is another, since it is after the lock.  `Free` drops the
engine's handle.  Names and payloads come from C strings, so that handing a call to
the callback does not fail.

### IntentDispatch

`dpc` is where `process_intents` stands: reading the batch (`intents`), in a
helper's run (`helper`), in `join_all` (`actions`), or returned (`ok`, `error`).
Each iteration of the loop over intents is one action, chosen by the kind of
intent and by what the host answered (`Skip`, `Override`, or nothing).
`execute_helper` is two actions around the run of the helper's engine, which is
one step with any outcome: that engine shares with its parent only the drivers,
tools and callbacks.  The futures of `join_all` are the records of `live`; they
interleave wherever a workflow awaits a helper.

### EngineRun

`pc` follows the loop: `top` → (`llm_start`) → `open` → `stream` ⇄ `dispatch` →
`top` or `finish`/`fail` → `idle`; `back` is the call of `process_intents` whose
return is awaited.  What is between two awaits is one action.  The environment
chooses: what the model streams, whether a request fails, what each hook
returns, whether the host hands in a stack, a session or no input.  The run is a
single future, so nothing interleaves with it but what it awaits.

History variables, which no guard of the code reads: `runs`, `failures`, `heard`,
`hooks`, `asked`, `ran`, "stopped" in `did`, and `left` in a turn.

`Conversation` is a sequence of how each question stands.  A question may be asked
when the last is settled; an answer is never changed; a question may end with the
results of actions, or be left because a helper took over or the host swallowed the
error.  `EngineRun` implements it under the mapping that reads each turn's standing
(`Session!Standing`).

### BlockStream

A document is a sequence of blocks, each possibly without its bracket or its closer,
with contents that parse or do not, or of text outside of any.  `rest` is what the
model has still to say, `buffer` what arrived.  `Write` scans the whole buffer as the
code does after each chunk and shows partials; `End` scans it as final, keeps the last
schema, drops repeated identities and hands the intents over; `Reset` begins a turn and,
as in the code, leaves the cursors of the deltas.  A loop of the code over a position is
a recursive function of the position (`All`, `Strip`): what there is from there on, given
what there is from where the loop goes on (`After`, `Behind`).  `seen` and `shown` are what
a host has: the last partial of each segment, and the deltas put together.  `Closed` says
of a document that the model closed every block and wrote no header, nor the piece that
tells one, inside of a content; what is shown is stated of such documents.

### NativeRound

The unit of a stream is half a line, so that a chunk may cut any line.  `Chunk` feeds
a driver, which gathers the pieces of calls until a finish reason releases them; the
`Hear…` actions are the engine's loop over the events.  A call is executed, skipped,
overridden, fails or hands over.  `Messages` is `to_messages_native_openai` over the
turns so far, `OpenAI` and `Gemini` what each driver makes of them; `request` is what
the next request tells the model.

### Quew

`Checked` is the checker's walk, `Lowered` the graphs, whose nodes are numbered as the
code numbers them.  `QuewExecution` runs one node of one graph per step: a frame for
each `run_graph`, with the slots, the captures of loops and the results of calls in the
node's expression.  `QuewMeaning` interprets the same syntax with a stack of scopes and
knows nothing of graphs.  Expressions are numbers, booleans, arrays, objects, texts with
expressions in them, members, calls and all operators.  Calls are pure, so that keeping their results while a node's
expression is evaluated again is the executor's own order of evaluation.

### Workflows

`WorkflowCompiler` has the checker's scopes and types and the lowering, with the panic
of the IR's deserialisation as an outcome.  `WorkflowRun` evaluates a body as a function
of the world (what each tool and helper answers, native or wasm build) to a value and
the tree of calls it makes; the calls are then steps, in any order the threads of
`parallel` may take.  `WorkflowMeaning` derives value and calls from the syntax alone.

### Prompts and context

A text is the sequence of its pieces: literals, symbols that stand for context fields,
values.  `PromptContext` checks and lowers a prompt, renders it at the moments `run`
does (start, `set_context` in a hook, a helper's end), makes the binding block of each
call from the context of that moment, and lets the host set the context and export the
session in between.  `PromptMeaning` reads the source: conditions on context values,
each named prompt with its own arguments.

### HostMiddleware

An event has the hooks still to run (`todo`), the copy of the context they share
(`data`), the session and stack they pass on.  The run has one event at a time; but each
tool of a batch that fails sends a `tool_error` intent and then an error event from its
own future of `join_all`, so that their events overlap (`ToolFails`, `open`), except in
the Dart SDK, whose hooks must not await.  `busy` is a hook that awaits; streamed intents
and the error hooks of a failed embedding have contexts of their own.  `board` is a
history variable, the last write to each key in the run, and `lost` another: the keys
whose last write was made while another context was in use, or was not persisted.
`FailRun` and
`Restart` are the run that throws and the process that dies; `saved` survives both.

### LanguageServer

`documents` and `change_versions` are the two maps with their two locks (`did_change`,
then `CountChange`); a task is an analysis: sleeping, reading, analysing, publishing.
The editor's notifications are handled in its order, as the server does; tasks take
steps in any order, and a pause is over whenever it is.  A task publishes in as many
steps as it has messages, each behind awaits; what has passed the guard behind the
analysis nothing stops.  `overtaken` is a history variable: the files with a task of
an old text that nothing stopped, because it has no guard (an open, a save, a close),
because it had passed the guard when the text was replaced, or because it passed it
before the change was counted.  There the editor may be left with what is old
(section 3); `SettledShowsLastText` says that it never is where the guard can help.

### Bindings and calls

`AgentFile` checks and lowers a file of declarations; where consumers look for keys of
the IR in it, a field's name is such a key.  Each generator module gives the
declarations it writes with the names they mention, and what its SDK will look up.
`AgentBindings` compiles a file for a target, generates, and starts a host that supplies
all the bindings ask for.  `AgentEngine` loads the same file into an engine, for the
agent or a helper, and lets the model call each callable in each way the prompt allows:
by aliases, dotted names, nested objects, or as the example shows.

## 3. Runs

| run | what it shows | bounds |
|---|---|---|
| `host_calls` | the C ABI model has its invariants, implements `CallResolution`, and every run ends | two tool calls, one hook call, two host threads: two of one registry race, one of the other may be confused with them |
| `engine_run` | the run loop's properties, in both protocols; in native mode every executed action is reported, but where a restarted run has no turn to put it in | block mode: two runs, so that a second meets what the first left; batches of two, run in parallel; a helper, a tool, a workflow that calls the helper; one retry, one empty completion. Native mode: one run, calls one at a time, two in a stream; a helper that hands over, or one that returns; restarts of the run, two rounds in which it asks for actions |
| `model_stream` | documents are understood whatever the chunks, and what is shown is what was said | two turns, two blocks in all: one block meets its neighbour, and one turn what the other left |
| `native_round` | calls arrive whole, results follow their calls, roles alternate | three requests: one with calls, one that carries results on, one that sees both |
| `quew_fragment` | within the fragment, the executor computes what the text says and ends | 3 iterations, depth 4 (the code's limits are larger and compared only); 2253 programs |
| `workflow_fragment` | within the fragments, workflows and prompts do what their text says | 1728 workflows, 97 prompts with two `set_context` and two calls; both builds |
| `host_middleware` | what hooks see of each other's writes | each SDK: three middleware, two runs; in each, besides the first and last, two events or batches of two failing tools; three writes |
| `author_tools` | of the language server: once all is quiet the last text was reported, and is what is shown where no analysis of an old text got past the guard. Of the generators: which files give well-formed bindings, and that intents, models and arguments find their way | one of the two in a behaviour; two files, one importing the other, four notifications, one text whose analysis panics; 4331 files, any two of 53 features beside three sets of declarations, four targets |
| `handoff_ends_run`, `early_return`, `returned_session`, `scoped_tools` | violations, below | |

`MaxForce` is 5 in the code; the counter is compared and incremented only, so a
smaller limit shows the same boundary.  `MaxLoops` bounds the rounds in which the model
asks for actions, not the rounds; past the first round the loop keeps nothing of the
earlier ones but the session.  `MaxHeard`, `MaxBatch`, `MaxTransfers`, `MaxRuns`,
`MaxTurns`, `MaxBlocks`, `MaxRounds`, `MaxNotes`, `MaxEvents`, `MaxWrites`,
`MaxPartials`, `MaxSets` and `MaxCalls` bound the environment in the same way: no
guard of the code reads them.  `MaxIterations` and `MaxDepth` are limits of the code.

`CHECK_DEADLOCK FALSE` is said where the system may be idle for good: after the last
run, the last turn, the last notification, the last stage of the pipeline.  Quew and
workflow runs end in a state that stutters, and are checked for deadlock.

### Fragments

Two runs compare a program with a reading of its text that knows nothing of it.  The
comparison is between the two only where they agree; where they do not is written as an
operator, so that a change of the code on either side of the edge is seen.

*Quew* (`QuewMeaning!Fragment`).  Names are declared once in a function, by parameters
or lets; at most one `while`; loops in functions without parameters, not within each
other, and not leaving by `return`; a `return` ends its block, and a function with early
exits ends in one; `else if` has a statement; a text has plain text among its first
two parts (`AddsToText`).  Outside: `"{a}{b}"` of two numbers is their sum and `"{a}"` a
number, since a text is lowered to the sum of its parts (`lower/expr.rs:169`); a guard clause
`if b == 0 { return 0 } return a / b` divides by zero, since bindings that nothing
waits for run first; a `let` in an arm or a loop that shadows another leaks; two
`while`s of one graph, or two `for`s over one name, overwrite each other's body; any
loop in a function with parameters fails (`execution.rs:580`); a `continue` in a
`while` is not counted (621) and may never end; a condition that is a variable a loop
in the arm changes picks the wrong merge; a member of a parameter as condition loses
its path; the checker ignores the `else` of an `else if`.

*Workflows* (`WorkflowMeaning!InFragment`).  A `return` is last; helpers are called in a
`return`; a tool's declared parameters are in alphabetical order, since positional
arguments are matched to sorted names (`workflows.rs:47`); fields and elements exist;
a name is no field of the agent's input or context; no assignment, `transfer`, object literal or operator;
a branch's let is not used after the `parallel`.  Outside: statements after a `return`
run; the checker has the fields of the input and of the context in scope under their
bare names (`workflow.rs:27`), the evaluator has neither, so a workflow that uses one is
accepted and fails when it is run; a helper call in a `let`, argument or arm is a marker that nothing executes;
`transfer` and object literals make the lowering panic (`auwgent-ir/src/lib.rs:283`); `+`
joins with a newline; unknown callees and members of undeclared objects pass the
checker; in the wasm build a tool call in an arm, a test or a branch fails.

*Prompts* (`PromptMeaning`, where `sure` is false).  Outside: `if (is_vip)` on a field
passed as an argument is always true and `{{#if is_vip == true}}` always false, because
the argument is the symbol's text (`prompt-context.mdx:62` shows both, and 111 says they
are alike); a condition on a missing field fails the run; an arm keeps only its last
expression; `return` does not stop the body and a `let` prints its value; prompts that
use each other in a circle overflow the compiler; the block form `prompt { … }` lowers
to a type the evaluator lacks.  Besides, the native protocol sends no binding block;
and fields no prompt references are sent as well, as `[injected_context]`
(`prompt-context.mdx:29` says they are not).

*Bindings and calls*.  `Supported`, `Distinguished` and `HasKey` in `AgentBindings` say
for each target which accepted files give a program; `BindingsWellFormed` says
*exactly* these do.  Among the rest: a TypeScript agent without tools; Python files with
tools of helpers or workflows only, an optional parameter before a required one, a
helper with a union output; Dart agents without a context, with components or with
optional arrays and records; Rust types and helpers in camel case or that hold
themselves.
`ReadAsWritten` and `SpelledOnce` in `AgentEngine` do the same for calls: a field named
`type`, an output that is no record, fields spelled alike once joined by `_`.

### Where the code does something else than the repository says

Four runs check one sentence of a document each, and TLC finds it violated.  The
findings in PROJECT.json quote both sides.

| run | sentence | what happens |
|---|---|---|
| `handoff_ends_run` | a user handoff ends the run | only if its call closes at the end of the stream; inside, the parent is called again |
| `early_return` | the privileged tool runs only if the checks before it pass | it runs after a check that returned |
| `returned_session` | the session a hook returns is the one the run uses | of the one the hooks of an event return, TypeScript and Python keep the stack that was sent |
| `scoped_tools` | tools of a workflow are implemented and registered like the agent's | the Python SDK registers of an object the agent's own tools only |

Met while modelling, and not stated by a run: the llm_start hook is called before the
first model call of a run only; the five retries are the engine's, not a run's;
`forceStart: "run_start"` clears the turns and the model is asked nothing, and in native
mode the results of the first round after it are lost, because there is no turn to
append them to (`auwgent-session/src/state.rs:211`; `NoTurnForResults`);
`forceStart: "llm_start"` in native mode pops the turn that carries results and asks
the one before again; the config an error hook returns is lost; parallel workflows pop
each other's helper from the stack; two native calls of one tool in a round are both
answered under the first one's id; the cursor of the deltas outlives the turn, so that a
later text that begins like an earlier one loses that beginning; helper engines are
given no middleware; `set_context` merges where `middleware.mdx:166` says it replaces;
a property attached to the context is not "available across every hook in that run"
(`middleware.mdx:206`), and the bindings do not have "the same behaviour" (7): an event
does not see what the hooks of another open one have attached, and when it ends takes
back what they persisted meanwhile (tools that fail together, not in Dart; streamed
intents and failed embeddings in TypeScript); the attachments of a TypeScript intent that
a hook decides, or of a Dart event in which a hook throws, are dropped; and Rust keeps
the context from run to run (`lost` and the second disjunct of `HooksSeeEarlierWrites`);
an import's errors, once shown, stay; the language server publishes what an open or a
save found, and what has passed the guard of a change, whatever happened to the text
meanwhile (`backend.rs:121` and 145).  A self-containing record overflows the stack in
`AuwgentEngine::new`.

The instances leave out what is known to break their properties, and the properties say
so where it is a condition on the state (`lost`, `overtaken`, `Closed`, `turn = 1`):
block mode has no `run_start` decision, the engine runs always have an input,
`native_round` has no two calls of one tool in a round, and no call without an id before
one that has one.

## 4. Fairness

`HostCalls`: every step of the engine and of a host thread that was given work
is weakly fair, and the host answers every call at least once while the engine
lives; that is what `RunEnds` assumes of a host.

`EngineRun`: weak fairness of `RunStep`.  The run is one future; its executor polls
it until it is done, so some step is taken while one is enabled.  Which outcome
a step has is left to the environment, and no outcome is owed.  Starting runs is
not fair.  `Patience` is the one assumption about the host: past `MaxLoops` it no
longer skips or overrides the call of a helper to be resumed.  Without it the
loop calls that helper again for ever, because only `execute_helper` consumes the
path; this is a hazard in the list.

`QuewExecution`: the executor is a synchronous loop, so a step is taken as long as the
program has not ended.  That every step can be taken is checked as the absence of
deadlock.

The other modules state no liveness: what is left to them is up to a model, an editor
or a host, none of which owes the next step.

## 5. Proofs

`HostCallsProofs` proves, for every finite or infinite set of calls and threads:
type correctness, `OneWinner`, `ConfirmedIsDelivered`, `WaiterHasSender`,
`NothingLeftBehind`, and that `HostCalls` implements `CallResolution`.  The
invariants are not inductive as they stand: that a confirmed answer is the one
delivered depends on ids being given once (`SingleKey`) and on a sender being in
exactly one of three places, the map, a thread's hand, or used.  `IInv` says so;
`NextIInv` shows each action keeps it, `StepSimulation` that each action is an
action of `CallResolution` or a stutter.  The liveness property stays with TLC.

`EngineRunProofs` proves of `EngineRun`, for every agent, helper tree, protocol, limit and bound that satisfies the named assumptions:

| theorem | hypothesis | invariant it rests on |
|---|---|---|
| `TypeCorrect` | | `TypeOK` with `HelperInv` |
| `HelperOnTop` | | `PathInv` |
| `ResumedHears` | `Inputs = {"given"}` | `PathInv`, `MessageInv` |
| `RetriesEnd` | | `RetryInv` |
| `RoutesKept` | | `RouteInv` |
| `KeepsConversation` (refinement), `OneCall` | `NothingDropped` | `PathInv`, `RoundsInv` |
| `RequestsHaveTurns` | `NothingDropped`, no `run_start` decision | the same |
| `ResultsReported` | `NoneBrought` | `ResultsInv` |

`NothingDropped` says that every run has an input and that no error hook retries a
turn in native mode.  `NoneBrought` is its second half: block mode, or no `llm_start`
decision.

The assumptions are those of the modules: the agent is no helper of itself
(`AgentAssumption`), a stack handed in holds the agent at most at its bottom
(`StacksAssumption`), limits are numbers.

`TypeOK` alone is not inductive: that a helper's result is an intent of the batch
needs that a helper runs only at a position inside it, `HelperInv`.
`RunningHelperIsOnTop` is not inductive, because a helper on the way back is not
pushed: it is on top only since it was the last entry of the stored stack.
`PathInv` therefore says that the path to resume ends as the stack ends
(`PathEnds`), that no path is left once the model was asked (`OffPath`), that a
teleport's batch is the one call of the first helper of the path
(`TeleportBatch`), and that a workflow's helper runs only in `join_all`, when no
other helper does (`Places`).  `MessageInv` adds that as long as there is a path
the message is this run's.  Without its hypothesis `ResumedHears` is false: a
run without an input resumes with the message of an earlier run, or none.  `RetryInv`
bounds the failures of a run by the engine's counter, which never is below them.

That a session stays a conversation rests on what a round has to show for itself.
A question may be followed by the next one only if it got text or results, or was
left.  `RoundsInv` follows this through the round: a batch that acted has results
gathered or actions deferred (`BatchInv`); in block mode intents come out of text
only and in native mode the end of the stream brings none, so a round that acted
has text or results (`RoundInv`); a teleport that did nothing still has its path
(`PathUse`); the current question has no native results yet and is no empty turn
in block mode (`TurnInv`); and it is open from the top of a round until it is
answered, never between runs (`WaitInv`).  Where one of the two assumptions fails
the theorem does: the empty turn of native mode is popped by a retry, and a run
without input asks the model the last question again.

`ExecutedAreReported` counts: what a batch or a native round has executed is found as
often in what is gathered, or is still deferred or running.  Its lemmas say what the
count of an action is in an empty sequence, behind an appended element and in two
sequences put together, whatever the order `join_all` returned them in.  `ResultsInv`
adds that every deferred action runs once and nothing is live outside of
`join_all` (`LiveInv`), the balance itself at each place of a round (`AccountInv`), that
a round that has not acted has executed nothing (`QuietInv`), and that the question
asked last has no native results yet (`Clear`); `NoneBrought` is there for that:
a retry in native mode pops the empty turn, and the next results would be appended to
those of an older one.

`WaiterHasSender`, `RetriesBounded` and `RequestHasTurn` are proved and no longer in a
run: their theorems say more than an instance would.

`LanguageServerProofs` proves `LastTextReported` and `SettledShowsLastText` for any files,
texts, imports and bounds, if a closed document is no text (`ClosedAssumption`).
`FileInv` is the reason: for a document whose last text is not reported, a task is
under way, or about to be spawned, that holds the newest count and version and will
report it unless it panics (`WillReport`); unless the document is `overtaken`, every
task at work on an older text is before the guard and will be dropped by it, once the
change is counted (`WillStop`), so that only the last text is published; and what the
editor shows is the last text's, or a task to come will put it right (`WillShow`).
Nothing is under way at rest, so the first of each disjunction is left.

`HostMiddlewareProofs` proves `HooksSeeEarlierWrites` for any number of middleware, tools
of a batch, keys, runs and events, in the four SDKs.  A hook reads the event's copy of
the context, so the invariant follows the last write to a key from there to the shared
context and into the next event.  `KeyInv` says of each key that is not `lost`: every open
event has its value; an event that has written it and not yet persisted it is the only
open one; if there is none, the shared context has it.  So whatever an event that ends
late writes back, it takes nothing back but what was written beside it.  `PlaceInv`
says whose events are open (nobody's, the run's, or those of tools), `FirstInv` that
nothing is shared before the first run.

`NativeRoundProofs` proves two properties of `NativeRound` for any answers, outcomes and
bounds:

* `GeminiInTurn`: roles alternate.  A request is the turns' blocks put one after the
  other (`FlattenPlaced`), in each of which the assistant stands behind the user
  (`MessagesAfterUser`); with that, what Gemini is sent alternates (`GeminiAlternates`).
* `ResultsFollowCalls`, under `[](OncePerTool /\ IdsFirst)`: in no round a routed name is
  heard twice, or a call without an id is followed by one that has one.  Both are
  conditions on what the model says and not on the code; without the first a result
  is sent under the first call's id, without the second a result that is sent as the
  user's word stands between a call and its result.  `ResultsInv` says that results
  stand in the order of the calls heard and that each call but a hand-over is
  recorded; `TurnFits` that a turn's results have the ids of its calls; `RequestFits`
  that the request says so.

The theorems of the library that justify induction take an operator, which no prover
here can instantiate.  `NativeRoundProofs` therefore starts from a well-founded order and
proves induction for sets (`Least`, `Induction`, `InductionTo`): to show that all numbers
have a property is to show that the set of those that have it is closed.  So
`FlattenSeq`, which is a recursive function, can be reasoned about.

`NativeRoundCalls` proves `CallsArriveWhole` under `HonestProviders`: the lines of an answer
tell the calls it means to make, OpenAI's in pieces, in any mixture, with one line that
ends them and indices in the calls' order, Gemini's each in one piece (`Honest`).  The
provider is not in this repository; without that hypothesis there is nothing for the
calls to arrive as.  TLC evaluates `Honest` on every answer of the instance, whose
bad lines and broken streams are honest, too.

* What reading lines does to the buffer is a fact about recursive functions over pieces:
  the buffer's entry for an index has the last id and name and all arguments of the
  pieces with that index, put one after the other (`GatherOne`, `GatherAll`, `Gathered`).
* `FlushSays` uses it where a line ends the calls: what is complete, in the order of
  indices, is what the model says.  `ReadLinesFit` puts the lines of a chunk together.
* `WholeInv` is the inductive invariant.  What was heard, with the calls among the events
  that the engine has yet to hear (`Told`), are the calls told by the lines that were
  read, and the buffer is what their pieces gather to.  Once a hand-over has ended the
  stream (`HearCall` drops the rest), what was heard is a beginning of what the model
  says and nothing is left to hear.

`BlockStreamText` proves three properties of `BlockStream`, for any documents, chunks,
turns and bounds: `TextOnlyGrows` (`TextGrows`), `ShownIsSaid` (`ShownWasSaid`) and
`DeltasAccumulate` (`DeltasKept`).  These speak of closed documents only; a fourth,
`DocumentIsUnderstood`, speaks of all, and is proved for closed ones (`ClosedUnderstood`:
`[](Closed(doc) => DocumentIsUnderstood)`).  `BlockStreamProofs` has the lemmas they share.

* That each text is a sequence goes through the whole scan (`FoundTyped`, `StripTyped`),
  whose loops always go forward (`AfterForward`, `BehindForward`): hence they have a result
  (`ForwardExists`), whose type is shown from the end of the text backwards (`Backwards`).
* A chunk tells each segment at most one text (`ShowAllStage`), which `WriteSegment` adds
  to `SegmentInv`: in this turn either nothing was shown or the cursor is where the shown
  text ends, in the first turn always.  The cursor of a later turn begins where an
  earlier one left it (`TurnInv`), hence only an end of the text.  So `StepDelta`: the
  deltas are kept by a step that takes no text back.
* What the scan finds: `Laid(t, d, at)` says that `t` is a beginning of a text that spells
  the closed document `d` with its blocks at the positions `at`; what has arrived always is
  one (`LaidWhole`, `LaidPrefix`).  In any such beginning the scan finds exactly the blocks
  whose opening header has arrived, each with as much of its content as has (`ScanTells`,
  `FoundTells`); the pieces of a header that come before the rest of it are told from
  text (`Loose`), and half a closer is not taken for content (`Unfinished`).
* What is shown: `Said` is what has arrived of a segment's content.  It only grows
  (`SaidGrows`), and nothing in it is stripped (`SaidQuiet`).  `TextInv` says that a
  segment shows nothing or all that has arrived of its content, and never the beginning
  of a header (`Spoken`): since a text that was shown is none, what extends it is none
  either, and is shown with the next chunk (`SpokenStep`); `LastShown` that the cache
  of partials is the text shown, so that the early return for an equal partial loses
  nothing.  `TextInv` and `DeltaInv` are inductive together (`StepBoth`).
* At the end all of a content has arrived, and its intent is among those handed over
  (`FinalsHold`, `EmitAllHolds`, `EndSaid`).
* What the engine is handed: `WholeInv` says that what has arrived and what is to come is
  always the whole text of the document.  So at the end each block is found with all of
  its content (`AllFound`, by `Finished`: the last block ends where the text does), and
  is understood as what it means, whatever newlines are around it (`BlockMeans`).  `Finals`
  and `EmitAll` then hand over each meaning once, the last schema behind the others:
  `Handed` goes through the intents block by block (`OnceEach`, `HandsOver`).  That
  nothing of an earlier turn is remembered is `TextInv`'s `emitted = {}`.

That a content has no piece that tells a header is needed: a model that writes a whole
header inside a text begins a block there, and text that was shown is taken back.  The
model's documents may have contents that begin as headers do (`[to`), which is where
partials are held back.

Only model-checked: liveness (`RunReturns` and both `RunEnds`); what the engine makes of
documents that are not closed: blocks without an end, headers without a bracket, text
outside of blocks, broken headers inside of them (`DocumentIsUnderstood`); and the languages, prompts, bindings and calls
(`RunsWhatItSays`, the three properties of `WorkflowMeaning`, `SymbolsAreTold`, those of
`AgentBindings` and `AgentEngine`), whose definitions are RECURSIVE operators over
texts and syntax, out of reach of the provers.

## 6. Not modelled

`components` in PROJECT.json says of each part what is left out.  In short:

* Whole parts: the structured JSONL stream (a counter, a queue and a drain, fed by the
  one task of a run); the parsing of middleware answers; the step-wise manual API
  and the bridge (the operations of `EngineRun` and `BlockStream` in an order only the
  host knows); the parsers of both languages and editor extensions, which are questions
  about strings; sites, examples and benchmarks.
* `EngineRun`: the text of messages (a hook that rewrites the prompt; text of white
  space only, which block mode takes for no text and native mode for text: `raw` is
  the answer of the mode's own test), token usage, metadata, failures of prompt
  generation and of serialisation, the inside of helper engines.
* `IntentDispatch`: the values of results, a workflow that names an unknown helper.
* `BlockStream`: `render_component` and its tree of components, literal blocks, comments.
* `NativeRound`: request bodies, media, token usage, embeddings, the unary Gemini call.
* Quew: types and unification, agents, tools, `reply`, native handlers, extension
  methods, floats, the `is` test.
* Workflows: prompts as values, array literals, declared types of lets, orderings.
* `LanguageServer`: what an analysis says, answers to queries, watch mode (where a new
  imported file does not regenerate its importers).
* `HostMiddleware`: a host is taken to begin its next run after the callbacks of the
  last one's streamed intents; the WASM target.
* Bindings: doc comments, formatting, embedding providers.

## 7. Plan

1. (done) `HostCalls`, `Session`, `IntentDispatch`, `EngineRun` with their proofs.
2. (done) streams (`BlockStream`, `NativeRound`), languages (`Quew…`, `Workflow…`,
   `Prompt…`), hosts (`HostMiddleware`, `LanguageServer`), bindings and calls
   (`AgentFile` … `AgentEngine`).
3. (done) theorems about `EngineRun`'s results, `LanguageServer`, `HostMiddleware`,
   `NativeRound` and `BlockStream`.  Left: `DocumentIsUnderstood` for documents with open
   blocks; what `AgentBindings` checks of plans, with
   syntax as recursive functions instead of RECURSIVE operators.
4. Models left: the types of Quew, the manual API beside `EngineRun`, the component tree.

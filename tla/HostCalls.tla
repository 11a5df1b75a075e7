------------------------------ MODULE HostCalls ------------------------------
(***************************************************************************)
(* Asynchronous host callbacks of the C ABI (c-abi/src).                   *)
(*                                                                         *)
(* A run of the engine is a task of the tokio runtime.  Each tool call and *)
(* each middleware event of a run is a future that asks the host for an    *)
(* answer: it takes a request id, registers the sender of a oneshot channel*)
(* under that id, hands the id to the host through a C callback and waits  *)
(* for the receiver.  The host answers from any of its threads, perhaps    *)
(* several times, with auwgent_engine_complete_* or auwgent_engine_fail_*. *)
(* Tool calls and middleware events have one registry each, and both       *)
(* registries number their requests from 1: an id used with the functions  *)
(* of the other registry names another request, or none.                   *)
(***************************************************************************)
EXTENDS Integers, FiniteSets

CONSTANTS
    Calls,       \* the futures a run may create, each at most once
    Threads,     \* the host's threads
    KindOf       \* the registry of each call: "tool" or "middleware"

Kinds == {"tool", "middleware"}

ASSUME KindOfAssumption == KindOf \in [Calls -> Kinds]

(* What the host may answer: complete with a text that is JSON ("good") or *)
(* is not ("bad"), or fail with a message.                                 *)
Answers == {"good", "bad", "fail"}

VARIABLES
    run,         \* the spawned run: "idle", "running" or "completed"
    pc,          \* pc[c]: where the future of call c is
    next,        \* next[k]: next_id of registry k
    id,          \* id[c]: the request id call c took, 0 before
    registered,  \* calls whose sender is in the pending map of their registry
    handed,      \* calls whose id the host callback was given
    answered,    \* calls answered with the functions of their own registry
    chan,        \* chan[c]: "open", "closed" (sender dropped) or the answer sent
    held,        \* senders that host threads removed and have not used yet
    reply,       \* reply[t]: what the last complete / fail of t returned
    told,        \* told[c]: the <<thread, answer>> whose send succeeded
    result,      \* result[c]: what the future of c returned
    handle       \* "live" until auwgent_engine_free, then "freed"

vars == <<run, pc, next, id, registered, handed, answered, chan, held, reply,
          told, result, handle>>

-----------------------------------------------------------------------------

(* Mutant: the ids count from 0. *)
InitFromZero ==
    /\ run = "idle"
    /\ pc = [c \in Calls |-> "idle"]
    /\ next = [k \in Kinds |-> 0]
    /\ id = [c \in Calls |-> 0]
    /\ registered = {} /\ handed = {} /\ answered = {} /\ held = {}
    /\ chan = [c \in Calls |-> "open"]
    /\ reply = [t \in Threads |-> "none"]
    /\ told = [c \in Calls |-> {}]
    /\ result = [c \in Calls |-> "none"]
    /\ handle = "live"

Init ==
    /\ run = "idle"
    /\ pc = [c \in Calls |-> "idle"]
    /\ next = [k \in Kinds |-> 1]
    /\ id = [c \in Calls |-> 0]
    /\ registered = {}
    /\ handed = {}
    /\ answered = {}
    /\ chan = [c \in Calls |-> "open"]
    /\ held = {}
    /\ reply = [t \in Threads |-> "none"]
    /\ told = [c \in Calls |-> {}]
    /\ result = [c \in Calls |-> "none"]
    /\ handle = "live"

(* auwgent_engine_run_*_async: spawn the run, answer the host at once. *)
StartRun ==
    /\ run = "idle" /\ handle = "live"
    /\ run' = "running"
    /\ UNCHANGED <<pc, next, id, registered, handed, answered, chan, held,
                   reply, told, result, handle>>

(* The run ends when every future it created has returned: on_complete. *)
FinishRun ==
    /\ run = "running"
    /\ \A c \in Calls : pc[c] \in {"idle", "done"}
    /\ run' = "completed"
    /\ UNCHANGED <<pc, next, id, registered, handed, answered, chan, held,
                   reply, told, result, handle>>

(* Mutant: the host callback runs before the sender is registered. *)
TakeIdTellsHost(c) ==
    /\ run = "running" /\ pc[c] = "idle"
    /\ id' = [id EXCEPT ![c] = next[KindOf[c]]]
    /\ next' = [next EXCEPT ![KindOf[c]] = @ + 1]
    /\ handed' = handed \cup {c}
    /\ pc' = [pc EXCEPT ![c] = "numbered"]
    /\ UNCHANGED <<run, registered, answered, chan, held, reply, told, result,
                   handle>>

(* create_request, first half: next_id.fetch_add(1). *)
TakeId(c) ==
    /\ run = "running" /\ pc[c] = "idle"
    /\ id' = [id EXCEPT ![c] = next[KindOf[c]]]
    /\ next' = [next EXCEPT ![KindOf[c]] = @ + 1]
    /\ pc' = [pc EXCEPT ![c] = "numbered"]
    /\ UNCHANGED <<run, registered, handed, answered, chan, held, reply,
                   told, result, handle>>

(* The calls with the id of c in registry k. *)
Key(k, c) == {d \in Calls : KindOf[d] = k /\ id[d] = id[c]}
SameKey(c) == Key(KindOf[c], c)

(* create_request, second half: HashMap::insert under the lock.  A sender   *)
(* already under that key is dropped.                                      *)
Register(c) ==
    /\ pc[c] = "numbered"
    /\ registered' = (registered \ SameKey(c)) \cup {c}
    /\ chan' = [d \in Calls |->
                  IF d \in registered \cap SameKey(c) THEN "closed" ELSE chan[d]]
    /\ pc' = [pc EXCEPT ![c] = "registered"]
    /\ UNCHANGED <<run, next, id, handed, answered, held, reply, told,
                   result, handle>>

(* registration.invoke: the host learns the id. *)
Invoke(c) ==
    /\ pc[c] = "registered"
    /\ handed' = handed \cup {c}
    /\ pc' = [pc EXCEPT ![c] = "waiting"]
    /\ UNCHANGED <<run, next, id, registered, answered, chan, held,
                   reply, told, result, handle>>

(* What the future makes of the channel: only a tool's result is parsed as *)
(* JSON, a middleware future turns every failure into "no answer".         *)
Outcome(kind, a) ==
    CASE a = "good"   -> "value"
      [] a = "bad"    -> IF kind = "tool" THEN "error" ELSE "value"
      [] a = "fail"   -> IF kind = "tool" THEN "error" ELSE "nothing"
      [] a = "closed" -> IF kind = "tool" THEN "dropped" ELSE "nothing"

(* receiver.await returns. *)
Receive(c) ==
    /\ pc[c] = "waiting" /\ chan[c] # "open"
    /\ result' = [result EXCEPT ![c] = Outcome(KindOf[c], chan[c])]
    /\ pc' = [pc EXCEPT ![c] = "done"]
    /\ UNCHANGED <<run, next, id, registered, handed, answered, chan,
                   held, reply, told, handle>>

-----------------------------------------------------------------------------
(* The host.  A thread answers a request the host was handed, whether or   *)
(* not another thread answers it too, and may take the functions of the    *)
(* other registry for it.                                                  *)

Idle(t) == \A h \in held : h.thread # t

AnswersFor(k, c) ==
    answered' = IF k = KindOf[c] THEN answered \cup {c} ELSE answered

(* Mutant: the sender is looked up but stays in the map. *)
RemoveKeepsSender(t, k, c, a) ==
    /\ handle = "live" /\ Idle(t) /\ c \in handed
    /\ \E d \in registered \cap Key(k, c) :
         held' = held \cup {[thread |-> t, call |-> d, answer |-> a]}
    /\ AnswersFor(k, c)
    /\ UNCHANGED <<run, pc, next, id, registered, handed, chan, reply, told,
                   result, handle>>

(* complete / fail, first half: remove the sender under the lock.  With the *)
(* wrong registry it is that of a call the host may not know yet.          *)
Remove(t, k, c, a) ==
    /\ handle = "live" /\ Idle(t) /\ c \in handed
    /\ \E d \in registered \cap Key(k, c) :
         /\ registered' = registered \ {d}
         /\ held' = held \cup {[thread |-> t, call |-> d, answer |-> a]}
    /\ AnswersFor(k, c)
    /\ UNCHANGED <<run, pc, next, id, handed, chan, reply, told, result, handle>>

(* complete / fail of a request that is not in the map: an error. *)
Unknown(t, k, c) ==
    /\ handle = "live" /\ Idle(t) /\ c \in handed
    /\ registered \cap Key(k, c) = {}
    /\ reply' = [reply EXCEPT ![t] = "unknown"]
    /\ AnswersFor(k, c)
    /\ UNCHANGED <<run, pc, next, id, registered, handed, chan, held, told,
                   result, handle>>

(* complete / fail, second half: send.  It fails once the receiver is gone. *)
Send(h) ==
    /\ h \in held
    /\ held' = held \ {h}
    /\ IF pc[h.call] # "done"
         THEN /\ chan' = [chan EXCEPT ![h.call] = h.answer]
              /\ told' = [told EXCEPT ![h.call] = @ \cup {<<h.thread, h.answer>>}]
              /\ reply' = [reply EXCEPT ![h.thread] = "ok"]
         ELSE /\ reply' = [reply EXCEPT ![h.thread] = "resolved"]
              /\ UNCHANGED <<chan, told>>
    /\ UNCHANGED <<run, pc, next, id, registered, handed, answered,
                   result, handle>>

(* auwgent_engine_free: no host thread may be inside a call that uses the  *)
(* handle, and none can answer afterwards.  The registries outlive the     *)
(* handle: the registered closures share them, and so does a spawned run.  *)
Free ==
    /\ handle = "live" /\ held = {}
    /\ handle' = "freed"
    /\ UNCHANGED <<run, pc, next, id, registered, handed, answered,
                   chan, held, reply, told, result>>

-----------------------------------------------------------------------------

EngineStep(c) ==
    TakeId(c) \/ Register(c) \/ Invoke(c) \/ Receive(c)

Answer(t, k, c) == Unknown(t, k, c) \/ \E a \in Answers : Remove(t, k, c, a)

HostStep ==
    \/ \E t \in Threads, k \in Kinds, c \in Calls : Answer(t, k, c)
    \/ \E h \in held : Send(h)

Next ==
    \/ StartRun \/ FinishRun \/ Free
    \/ \E c \in Calls : EngineStep(c)
    \/ HostStep

Spec == Init /\ [][Next]_vars

(* The runtime polls every ready future.  The host answers every request   *)
(* it was handed once, with the right function, for as long as the handle  *)
(* lives; it need not answer a second time when the first call is refused. *)
Fairness ==
    /\ WF_vars(FinishRun)
    /\ \A c \in Calls :
          WF_vars(Register(c)) /\ WF_vars(Invoke(c)) /\ WF_vars(Receive(c))
    /\ \A c \in Calls :
          WF_vars(c \notin answered /\ \E t \in Threads : Answer(t, KindOf[c], c))
    /\ WF_vars(\E h \in held : Send(h))

FairSpec == Spec /\ Fairness

-----------------------------------------------------------------------------

TypeOK ==
    /\ run \in {"idle", "running", "completed"}
    /\ pc \in [Calls -> {"idle", "numbered", "registered", "waiting", "done"}]
    /\ next \in [Kinds -> Nat \ {0}]
    /\ id \in [Calls -> Nat]
    /\ registered \subseteq Calls
    /\ handed \subseteq Calls
    /\ answered \subseteq Calls
    /\ chan \in [Calls -> Answers \cup {"open", "closed"}]
    /\ held \subseteq [thread : Threads, call : Calls, answer : Answers]
    /\ reply \in [Threads -> {"none", "ok", "unknown", "resolved"}]
    /\ told \in [Calls -> SUBSET (Threads \X Answers)]
    /\ result \in [Calls -> {"none", "value", "error", "dropped", "nothing"}]
    /\ handle \in {"live", "freed"}

(* However complete and fail race on one request, the library confirms at  *)
(* most one of them: the map hands its sender out once.                    *)
OneWinner ==
    \A c \in Calls : \A x, y \in told[c] : x = y

(* An answer the library confirmed is the one its call returns: no late    *)
(* failure, no second answer and none to another request replaces it, even *)
(* if it came by the other registry's id before the host was asked.        *)
ConfirmedIsDelivered ==
    \A c \in Calls : \A x \in told[c] :
        /\ chan[c] = x[2]
        /\ pc[c] = "done" => result[c] = Outcome(KindOf[c], x[2])

(* A future never waits for a sender nobody has: its sender is in the map, *)
(* in the hands of a host thread, or was used.  So no wait ends with "was  *)
(* dropped" and no answer is refused as already resolved.                 *)
WaiterHasSender ==
    /\ \A c \in Calls : pc[c] = "waiting" =>
          \/ c \in registered
          \/ \E h \in held : h.call = c
          \/ chan[c] \in Answers
    /\ \A c \in Calls : result[c] # "dropped"
    /\ \A t \in Threads : reply[t] # "resolved"

(* A completed run leaves no entry in either registry. *)
NothingLeftBehind ==
    run = "completed" => registered = {} /\ held = {}

(* The promise the registry makes, in the terms of CallResolution: what a  *)
(* call returns is the first answer given under its id in its registry.    *)
Promise == INSTANCE CallResolution WITH
    asked <- handed,
    answer <- chan,
    returned <- result

KeepsPromise == Promise!Spec

(* A run the host started ends, provided the host does not free the engine *)
(* while it still owes an answer: then the run waits for ever.             *)
RunEnds == (run = "running") ~> (run = "completed" \/ handle = "freed")
=============================================================================

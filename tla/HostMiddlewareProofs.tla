------------------------ MODULE HostMiddlewareProofs ------------------------
(* Proofs about HostMiddleware, for any middleware, tools, keys and stacks, *)
(* and however many runs, events, batches, writes and streamed intents there *)
(* are.                                                                     *)
EXTENDS HostMiddleware, TLAPS

Contexts == [Keys -> Nat]

IsEvent(e) ==
    /\ e = [kind |-> e.kind, todo |-> e.todo, busy |-> e.busy, data |-> e.data,
            stack |-> e.stack, session |-> e.session, wrote |-> e.wrote]
    /\ e.data \in Contexts

TypeOK ==
    /\ sdk \in SDKs /\ pc \in {"idle", "engine", "event", "batch"}
    /\ runs \in Nat /\ writes \in Nat /\ partials \in Nat
    /\ shared \in Contexts /\ board \in Contexts
    /\ open \subseteq Lanes
    /\ event = [l \in Lanes |-> event[l]] /\ \A l \in Lanes : IsEvent(event[l])

(* Who waits for answers: nobody, the run itself, or tools of a batch. *)
PlaceInv ==
    /\ pc \in {"idle", "engine"} => open = {}
    /\ pc = "event" => open = {"run"}
    /\ pc = "batch" => open \subseteq Tools

(* Before the first run nothing is shared. *)
FirstInv == runs = 0 => pc = "idle" /\ partials = 0 /\ shared = Blank

-----------------------------------------------------------------------------
(* That hooks see earlier writes. *)

(* A value of a key that a hook may find: the last write of this run, or, in *)
(* the Rust SDK, one of an earlier run.                                     *)
Visible(k, value) ==
    \/ value = board[k]
    \/ sdk = "rust" /\ runs > 1 /\ board[k] = 0

(* Every open event has the key's value in its context.  It is written but  *)
(* not shared only by an event that no other overlaps.                      *)
KeyInv(k) ==
    /\ \A l \in open : Visible(k, event[l].data[k])
    /\ \A l \in open : k \in event[l].wrote =>
          open = {l} /\ event[l].data[k] = board[k] /\ board[k] # 0
    /\ (\A l \in open : k \notin event[l].wrote) => Visible(k, shared[k])

ContextInv == pc # "idle" => \A k \in Keys \ lost : KeyInv(k)

IInv == TypeOK /\ PlaceInv /\ FirstInv /\ ContextInv

-----------------------------------------------------------------------------
(* What a step makes of the events. *)

LEMMA BlankContext == Blank \in Contexts /\ \A k \in Keys : Blank[k] = 0
BY DEF Blank, Contexts

LEMMA Nothing == IsEvent(NoEvent)
BY BlankContext DEF NoEvent, IsEvent

(* The event of l, and no other, has another context. *)
Only(l, data, wrote) ==
    /\ event' = [m \in Lanes |-> event'[m]]
    /\ IsEvent(event'[l]) /\ event'[l].data = data /\ event'[l].wrote = wrote
    /\ \A m \in Lanes \ {l} : event'[m] = event[m]

LEMMA Replaced ==
    ASSUME TypeOK, NEW l \in Lanes, NEW e, IsEvent(e), event' = [event EXCEPT ![l] = e]
    PROVE  Only(l, e.data, e.wrote)
BY DEF Only, TypeOK

LEMMA Begun ==
    ASSUME TypeOK, NEW l \in Lanes, NEW kind, NEW s, Begin(l, kind, s),
           shared' \in Contexts
    PROVE  Only(l, shared', {})
<1> DEFINE new == BuildContext(kind, s, shared')
<1>1. IsEvent(new) /\ new.data = shared' /\ new.wrote = {}
  BY DEF BuildContext, IsEvent
<1>2. event' = [event EXCEPT ![l] = new]
  BY DEF Begin
<1> HIDE DEF new
<1>3. QED
  BY <1>1, <1>2, Replaced

LEMMA Busy ==
    ASSUME TypeOK, NEW l \in Lanes, StartHook(l)
    PROVE  Only(l, event[l].data, event[l].wrote)
<1>1. PICK new : new = [event[l] EXCEPT !.busy = TRUE]
  OBVIOUS
<1>2. IsEvent(event[l])
  BY DEF TypeOK
<1>3. IsEvent(new) /\ new.data = event[l].data /\ new.wrote = event[l].wrote
  BY <1>1, <1>2 DEF IsEvent
<1>4. event' = [event EXCEPT ![l] = new]
  BY <1>1 DEF StartHook, TypeOK
<1>5. QED
  BY <1>3, <1>4, Replaced

LEMMA Left ==
    ASSUME NEW e, IsEvent(e)
    PROVE  /\ IsEvent(Leave(e)) /\ Leave(e).data = e.data
           /\ Leave(e).wrote = e.wrote
<1>1. PICK todo : Leave(e) = [e EXCEPT !.busy = FALSE, !.todo = todo]
  BY DEF Leave
<1>2. Leave(e) = [kind |-> e.kind, todo |-> todo, busy |-> FALSE, data |-> e.data,
                  stack |-> e.stack, session |-> e.session, wrote |-> e.wrote]
  BY <1>1 DEF IsEvent
<1>3. QED
  BY <1>2 DEF IsEvent

LEMMA Skipped ==
    ASSUME TypeOK, NEW l \in Lanes, SkipHook(l)
    PROVE  Only(l, event[l].data, event[l].wrote)
<1>1. PICK new : new = Leave(event[l])
  OBVIOUS
<1>2. IsEvent(new) /\ new.data = event[l].data /\ new.wrote = event[l].wrote
  BY <1>1, Left DEF TypeOK
<1>3. event' = [event EXCEPT ![l] = new]
  BY <1>1 DEF SkipHook, TypeOK
<1>4. QED
  BY <1>2, <1>3, Replaced

LEMMA EndsHook ==
    ASSUME TypeOK, NEW l \in Lanes, ReturnHook(l)
    PROVE  Only(l, event[l].data, IF sdk = "python" THEN {} ELSE event[l].wrote)
<1>1. PICK st, s : event' = [event EXCEPT ![l] =
                        [Leave(event[l]) EXCEPT !.stack = st, !.session = s,
                           !.wrote = IF sdk = "python" THEN {} ELSE event[l].wrote]]
  BY DEF ReturnHook
<1>2. PICK left : left = Leave(event[l])
  OBVIOUS
<1>3. PICK w : w = IF sdk = "python" THEN {} ELSE event[l].wrote
  OBVIOUS
<1>4. PICK new : new = [left EXCEPT !.stack = st, !.session = s, !.wrote = w]
  OBVIOUS
<1>5. event' = [event EXCEPT ![l] = new]
  BY <1>1, <1>2, <1>3, <1>4
<1>6. IsEvent(left) /\ left.data = event[l].data /\ left.wrote = event[l].wrote
  BY <1>2, Left DEF TypeOK
<1>7. new = [kind |-> left.kind, todo |-> left.todo, busy |-> left.busy,
             data |-> left.data, stack |-> st, session |-> s, wrote |-> w]
  BY <1>4, <1>6 DEF IsEvent
<1>8. IsEvent(new) /\ new.data = left.data /\ new.wrote = w
  BY <1>6, <1>7 DEF IsEvent
<1>9. QED
  BY <1>3, <1>5, <1>6, <1>8, Replaced

LEMMA Over ==
    ASSUME TypeOK, NEW l \in Lanes, NEW p, Answered(l, p)
    PROVE  Only(l, Blank, {})
<1>1. PICK new : new = [event[l] EXCEPT !.busy = FALSE, !.todo = <<>>, !.data = Blank,
                                         !.wrote = {}]
  OBVIOUS
<1>2. IsEvent(event[l])
  BY DEF TypeOK
<1>3. IsEvent(new) /\ new.data = Blank /\ new.wrote = {}
  BY <1>1, <1>2, BlankContext DEF IsEvent
<1>4. event' = [event EXCEPT ![l] = new]
  BY <1>1 DEF Answered, TypeOK
<1>5. QED
  BY <1>3, <1>4, Replaced

LEMMA Written ==
    ASSUME TypeOK, NEW l \in Lanes, NEW k \in Keys, NEW wrote,
           event' = [event EXCEPT ![l].data[k] = writes + 1, ![l].wrote = wrote]
    PROVE  Only(l, [event[l].data EXCEPT ![k] = writes + 1], wrote)
<1>1. PICK new : new = [event[l] EXCEPT !.data[k] = writes + 1, !.wrote = wrote]
  OBVIOUS
<1>2. IsEvent(event[l]) /\ writes + 1 \in Nat
  BY DEF TypeOK
<1>3. new = [kind |-> event[l].kind, todo |-> event[l].todo, busy |-> event[l].busy,
             data |-> [event[l].data EXCEPT ![k] = writes + 1],
             stack |-> event[l].stack, session |-> event[l].session, wrote |-> wrote]
  BY <1>1, <1>2 DEF IsEvent
<1>4. [event[l].data EXCEPT ![k] = writes + 1] \in Contexts
  BY <1>2 DEF IsEvent, Contexts
<1>5. /\ IsEvent(new) /\ new.data = [event[l].data EXCEPT ![k] = writes + 1]
      /\ new.wrote = wrote
  BY <1>3, <1>4 DEF IsEvent
<1>6. event' = [event EXCEPT ![l] = new]
  BY <1>1 DEF TypeOK
<1>7. QED
  BY <1>5, <1>6, Replaced

(* What is persisted of a context. *)
LEMMA Persisted ==
    ASSUME shared \in Contexts, NEW data \in Contexts
    PROVE  /\ Persist(data) \in Contexts
           /\ \A k \in Keys : Persist(data)[k] = data[k]
                \/ /\ sdk \in {"typescript", "python"} /\ data[k] = 0
                   /\ Persist(data)[k] = shared[k]
BY DEF Persist, PersistKeys, PersistAll, Contexts

LEMMA WriteTyped ==
    ASSUME TypeOK, NEW k \in Keys, NEW others, Write(k, others)
    PROVE  /\ writes' \in Nat /\ board' \in Contexts
           /\ board'[k] = writes + 1 /\ board'[k] # 0
           /\ \A j \in Keys \ {k} : board'[j] = board[j]
           /\ [shared EXCEPT ![k] = writes + 1] \in Contexts
BY DEF Write, TypeOK, Contexts

LEMMA InitIInv == Init => IInv
BY BlankContext, Nothing DEF Init, IInv, TypeOK, PlaceInv, FirstInv, ContextInv

-----------------------------------------------------------------------------

LEMMA NextTypes == TypeOK /\ [Next]_vars => TypeOK'
<1> SUFFICES ASSUME TypeOK, [Next]_vars PROVE TypeOK'
  OBVIOUS
<1>0. "run" \in Lanes /\ Tools \subseteq Lanes
  BY DEF Lanes
<1>e. ASSUME NEW l \in Lanes, NEW data, NEW wrote, Only(l, data, wrote)
      PROVE  event' = [m \in Lanes |-> event'[m]] /\ \A m \in Lanes : IsEvent(event'[m])
  BY <1>e DEF Only, TypeOK
<1>n. ASSUME event' = [l \in Lanes |-> NoEvent]
      PROVE  event' = [m \in Lanes |-> event'[m]] /\ \A m \in Lanes : IsEvent(event'[m])
  BY <1>n, Nothing
<1>1. CASE StartRun
  <2>1. shared' \in Contexts
    BY <1>1, BlankContext DEF StartRun, TypeOK
  <2>2. Only("run", shared', {})
    BY <1>0, <1>1, <2>1, Begun DEF StartRun
  <2>3. QED
    BY <1>0, <1>1, <1>e, <2>1, <2>2, BlankContext DEF StartRun, Begin, TypeOK
<1>2. CASE FinishRun
  <2>1. Only("run", shared', {})
    BY <1>0, <1>2, Begun DEF FinishRun, TypeOK
  <2>2. QED
    BY <1>0, <1>2, <1>e, <2>1 DEF FinishRun, Begin, TypeOK, counters
<1>3. CASE FailRun
  BY <1>3, <1>n DEF FailRun, TypeOK, counters
<1>4. CASE Restart
  BY <1>4, <1>n, BlankContext DEF Restart, TypeOK, counters
<1>5. ASSUME NEW kind \in Kinds, SendEvent(kind) PROVE TypeOK'
  <2>1. Only("run", shared', {})
    BY <1>0, <1>5, Begun DEF SendEvent, TypeOK
  <2>2. QED
    BY <1>0, <1>5, <1>e, <2>1 DEF SendEvent, Begin, TypeOK
<1>6. CASE StartBatch
  BY <1>6, <1>n DEF StartBatch, TypeOK
<1>7. ASSUME NEW t \in Tools, ToolFails(t) PROVE TypeOK'
  <2>1. Only(t, shared', {})
    BY <1>0, <1>7, Begun DEF ToolFails, TypeOK
  <2>2. QED
    BY <1>0, <1>7, <1>e, <2>1 DEF ToolFails, Begin, TypeOK, counters
<1>8. CASE EndBatch
  BY <1>8, <1>n DEF EndBatch, TypeOK, counters
<1>9. ASSUME NEW l \in Lanes, StartHook(l) PROVE TypeOK'
  BY <1>9, <1>e, Busy DEF StartHook, TypeOK, counters
<1>10. ASSUME NEW l \in Lanes, ReturnHook(l) PROVE TypeOK'
  <2>1. shared' \in Contexts
    BY <1>10, Persisted DEF ReturnHook, TypeOK, IsEvent
  <2>2. QED
    BY <1>10, <1>e, <2>1, EndsHook DEF ReturnHook, TypeOK, counters
<1>11. ASSUME NEW l \in Lanes, NEW p \in BOOLEAN, Answered(l, p) PROVE TypeOK'
  <2>1. shared' \in Contexts
    BY <1>11, Persisted DEF Answered, TypeOK, IsEvent
  <2>2. pc' \in {"idle", "engine", "event", "batch"}
    BY <1>11 DEF Answered, TypeOK
  <2>3. event' = [m \in Lanes |-> event'[m]] /\ \A m \in Lanes : IsEvent(event'[m])
    BY <1>11, <1>e, Over
  <2>4. QED
    BY <1>11, <2>1, <2>2, <2>3 DEF Answered, TypeOK, counters
<1>12. ASSUME NEW l \in Lanes, DecideEvent(l) \/ AbandonEvent(l) \/ AnswerEvent(l)
       PROVE  TypeOK'
  <2>1. \E p \in BOOLEAN : Answered(l, p)
    BY <1>12 DEF DecideEvent, AbandonEvent, AnswerEvent
  <2>2. QED
    BY <1>11, <2>1
<1>13. ASSUME NEW l \in Lanes, SkipHook(l) PROVE TypeOK'
  BY <1>13, <1>e, Skipped DEF SkipHook, TypeOK, counters
<1>14. ASSUME NEW l \in Lanes, NEW k \in Keys, Attach(l, k) PROVE TypeOK'
  <2>1. event' = [m \in Lanes |-> event'[m]] /\ \A m \in Lanes : IsEvent(event'[m])
    BY <1>14, <1>e, Written DEF Attach
  <2>2. writes' \in Nat /\ board' \in Contexts
    BY <1>14, WriteTyped DEF Attach
  <2>3. QED
    BY <1>14, <2>1, <2>2 DEF Attach, TypeOK, counters
<1>15. ASSUME NEW l \in Lanes, NEW k \in Keys, SetContext(l, k) PROVE TypeOK'
  <2>1. event' = [m \in Lanes |-> event'[m]] /\ \A m \in Lanes : IsEvent(event'[m])
    BY <1>15, <1>e, Written DEF SetContext
  <2>2. writes' \in Nat /\ board' \in Contexts /\ shared' \in Contexts
    BY <1>15, WriteTyped DEF SetContext
  <2>3. QED
    BY <1>15, <2>1, <2>2 DEF SetContext, TypeOK, counters
<1>16. ASSUME NEW l \in Lanes, NEW k \in Keys, FailEmbedding(l, k) PROVE TypeOK'
  <2>1. writes' \in Nat /\ board' \in Contexts /\ shared' \in Contexts
    BY <1>16, WriteTyped DEF FailEmbedding
  <2>2. QED
    BY <1>16, <2>1 DEF FailEmbedding, TypeOK, counters
<1>17. CASE StreamPartial
  BY <1>17 DEF StreamPartial, TypeOK, counters
<1>18. CASE DeliverPartial
  <2>1. writes' \in Nat /\ board' \in Contexts /\ shared' \in Contexts
    <3>1. CASE UNCHANGED <<writes, shared, board, lost>>
      BY <3>1 DEF TypeOK
    <3>2. CASE \E k \in Keys : Write(k, open) /\ shared' = [shared EXCEPT ![k] = writes + 1]
      BY <3>2, WriteTyped
    <3>3. QED
      BY <1>18, <3>1, <3>2 DEF DeliverPartial
  <2>2. QED
    BY <1>18, <2>1 DEF DeliverPartial, TypeOK, counters
<1>19. CASE UNCHANGED vars
  BY <1>19 DEF vars, TypeOK
<1>20. QED
  BY <1>1, <1>2, <1>3, <1>4, <1>5, <1>6, <1>7, <1>8, <1>9, <1>10, <1>12, <1>13, <1>14,
     <1>15, <1>16, <1>17, <1>18, <1>19 DEF Next

(* The steps by which an event begins, ends, or neither. *)
Starts == StartRun \/ FinishRun \/ \E kind \in Kinds : SendEvent(kind)
Batches == StartBatch \/ EndBatch \/ \E t \in Tools : ToolFails(t)
Stops == FailRun \/ Restart
Ends == \E l \in Lanes, p \in BOOLEAN : l \in open /\ Answered(l, p)
Goes ==
    \/ StreamPartial \/ DeliverPartial
    \/ \E l \in Lanes :
          \/ StartHook(l) \/ ReturnHook(l) \/ SkipHook(l)
          \/ \E k \in Keys : Attach(l, k) \/ SetContext(l, k) \/ FailEmbedding(l, k)

LEMMA Steps ==
    ASSUME Next
    PROVE  Starts \/ Batches \/ Stops \/ Ends \/ Goes
<1>1. ASSUME NEW l \in Lanes, DecideEvent(l) \/ AbandonEvent(l) \/ AnswerEvent(l)
      PROVE  Ends
  <2>1. l \in open /\ \E p \in BOOLEAN : Answered(l, p)
    BY <1>1 DEF DecideEvent, AbandonEvent, AnswerEvent, Running
  <2>2. QED
    BY <2>1 DEF Ends
<1>2. QED
  BY <1>1 DEF Next, Starts, Batches, Stops, Goes

LEMMA GoesOn == Goes => /\ UNCHANGED <<sdk, runs, pc, open>>
                        /\ pc # "idle" \/ partials > 0 \/ open # {}
BY DEF Goes, StreamPartial, DeliverPartial, StartHook, ReturnHook, SkipHook, Attach,
       SetContext, FailEmbedding, Running, counters

LEMMA NextPlace == TypeOK /\ PlaceInv /\ [Next]_vars => PlaceInv'
<1> SUFFICES ASSUME TypeOK, PlaceInv, [Next]_vars PROVE PlaceInv'
  OBVIOUS
<1>1. CASE Starts
  <2>1. pc \in {"idle", "engine"} /\ pc' = "event" /\ open' = open \cup {"run"}
    BY <1>1 DEF Starts, StartRun, FinishRun, SendEvent, Begin
  <2>2. QED
    BY <2>1 DEF PlaceInv
<1>2. CASE Batches
  <2>1. CASE StartBatch
    BY <2>1 DEF StartBatch, PlaceInv
  <2>2. CASE EndBatch
    BY <2>2 DEF EndBatch, PlaceInv
  <2>3. ASSUME NEW t \in Tools, ToolFails(t) PROVE PlaceInv'
    BY <2>3 DEF ToolFails, Begin, PlaceInv
  <2>4. QED
    BY <1>2, <2>1, <2>2, <2>3 DEF Batches
<1>3. CASE Stops
  BY <1>3 DEF Stops, FailRun, Restart, PlaceInv
<1>4. ASSUME NEW l \in open, NEW p \in BOOLEAN, Answered(l, p) PROVE PlaceInv'
  <2>1. CASE pc = "event"
    <3>1. l = "run" /\ open = {"run"}
      BY <2>1 DEF PlaceInv
    <3>2. open' = {} /\ pc' \in {"idle", "engine"}
      BY <1>4, <3>1 DEF Answered
    <3>3. QED
      BY <3>2 DEF PlaceInv
  <2>2. CASE pc = "batch"
    <3>1. l # "run" /\ open \subseteq Tools
      BY <2>2, ToolsAssumption DEF PlaceInv
    <3>2. pc' = "batch" /\ open' \subseteq Tools
      BY <1>4, <2>2, <3>1 DEF Answered
    <3>3. QED
      BY <3>2 DEF PlaceInv
  <2>3. QED
    BY <2>1, <2>2 DEF PlaceInv, TypeOK
<1>5. CASE Goes
  BY <1>5, GoesOn DEF PlaceInv
<1>6. CASE UNCHANGED vars
  BY <1>6 DEF vars, PlaceInv
<1>7. QED
  BY <1>1, <1>2, <1>3, <1>4, <1>5, <1>6, Steps DEF Ends

LEMMA NextFirst == TypeOK /\ PlaceInv /\ FirstInv /\ [Next]_vars => FirstInv'
<1> SUFFICES ASSUME TypeOK, PlaceInv, FirstInv, [Next]_vars PROVE FirstInv'
  OBVIOUS
<1>1. CASE StartRun
  BY <1>1 DEF StartRun, FirstInv, TypeOK
<1>2. CASE Restart
  BY <1>2 DEF Restart, FirstInv, counters
<1>3. CASE UNCHANGED vars
  BY <1>3 DEF vars, FirstInv
<1>4. CASE Starts /\ ~StartRun
  <2>1. runs' = runs /\ pc = "engine"
    BY <1>4 DEF Starts, SendEvent, FinishRun, counters
  <2>2. QED
    BY <2>1 DEF FirstInv
<1>5. CASE Batches \/ FailRun
  <2>1. runs' = runs /\ pc # "idle"
    BY <1>5 DEF Batches, StartBatch, EndBatch, ToolFails, FailRun, counters
  <2>2. QED
    BY <2>1 DEF FirstInv
<1>6. CASE Ends
  <2>1. runs' = runs /\ open # {}
    BY <1>6 DEF Ends, Answered, counters
  <2>2. QED
    BY <2>1 DEF FirstInv, PlaceInv
<1>7. CASE Goes
  BY <1>7, GoesOn DEF FirstInv, PlaceInv, TypeOK
<1>8. QED
  BY <1>1, <1>2, <1>3, <1>4, <1>5, <1>6, <1>7, Steps DEF Stops

-----------------------------------------------------------------------------

(* What an open event persists a hook may find. *)
LEMMA Persists ==
    ASSUME TypeOK, NEW l \in open, NEW k \in Keys, KeyInv(k)
    PROVE  Visible(k, Persist(event[l].data)[k])
<1>1. event[l].data \in Contexts /\ shared \in Contexts
  BY DEF TypeOK, IsEvent
<1>2. CASE Persist(event[l].data)[k] = event[l].data[k]
  BY <1>2 DEF KeyInv
<1>3. CASE /\ sdk \in {"typescript", "python"} /\ event[l].data[k] = 0
           /\ Persist(event[l].data)[k] = shared[k]
  <2>1. CASE \A m \in open : k \notin event[m].wrote
    BY <1>3, <2>1 DEF KeyInv
  <2>2. ASSUME NEW m \in open, k \in event[m].wrote PROVE FALSE
    BY <1>3, <2>2 DEF KeyInv
  <2>3. QED
    BY <2>1, <2>2
<1>4. QED
  BY <1>1, <1>2, <1>3, Persisted

LEMMA StartsKeep ==
    ASSUME IInv, Starts, NEW k \in Keys \ lost'
    PROVE  KeyInv(k)'
<1>0. "run" \in Lanes /\ open = {}
  BY DEF Lanes, IInv, PlaceInv, Starts, StartRun, FinishRun, SendEvent
<1>1. open' = {"run"} /\ \E kind, s : Begin("run", kind, s)
  BY <1>0 DEF Starts, StartRun, FinishRun, SendEvent, Begin
<1>2. shared' \in Contexts
  BY BlankContext DEF IInv, TypeOK, Starts, StartRun, FinishRun, SendEvent
<1>3. event'["run"].data = shared' /\ event'["run"].wrote = {}
  BY <1>0, <1>1, <1>2, Begun DEF IInv, Only
<1>4. Visible(k, shared[k])'
  <2>1. CASE StartRun
    <3>1. /\ board' = Blank /\ sdk' = sdk /\ runs' = runs + 1
          /\ shared' = IF sdk \in ClearsContext THEN Blank ELSE shared
      BY <2>1 DEF StartRun
    <3>2. sdk \notin ClearsContext => sdk = "rust"
      BY SDKsAssumption DEF IInv, TypeOK, ClearsContext
    <3>3. CASE shared' = Blank
      BY <3>1, <3>3 DEF Visible
    <3>4. CASE sdk = "rust" /\ runs > 0
      BY <3>1, <3>4, BlankContext DEF Visible, IInv, TypeOK
    <3>5. QED
      BY <3>1, <3>2, <3>3, <3>4 DEF IInv, FirstInv, TypeOK
  <2>2. CASE ~StartRun
    <3>1. pc = "engine" /\ UNCHANGED <<sdk, runs, board, lost, shared>>
      BY <2>2 DEF Starts, FinishRun, SendEvent, counters
    <3>2. Visible(k, shared[k])
      BY <1>0, <3>1 DEF IInv, ContextInv, KeyInv
    <3>3. QED
      BY <3>1, <3>2 DEF Visible
  <2>3. QED
    BY <2>1, <2>2
<1>5. QED
  BY <1>1, <1>3, <1>4 DEF KeyInv

LEMMA FailsKeep ==
    ASSUME IInv, NEW t \in Tools, ToolFails(t), NEW k \in Keys \ lost'
    PROVE  KeyInv(k)'
<1>1. /\ UNCHANGED <<sdk, runs, board, shared>> /\ pc = "batch" /\ t \in Lanes
      /\ open' = open \cup {t} /\ t \notin open
  BY DEF ToolFails, Begin, counters, Lanes
<1>2. Only(t, shared, {})
  BY <1>1, Begun DEF ToolFails, IInv, TypeOK
<1>3. k \notin lost /\ \A l \in open : k \notin event[l].wrote
  BY DEF ToolFails
<1>4. KeyInv(k)
  BY <1>1, <1>3 DEF IInv, ContextInv
<1>5. Visible(k, shared[k]) /\ \A l \in open : Visible(k, event[l].data[k])
  BY <1>3, <1>4 DEF KeyInv
<1>6. /\ \A v : Visible(k, v) => Visible(k, v)'
      /\ \A l \in open : event'[l] = event[l]
      /\ event'[t].data = shared /\ event'[t].wrote = {}
  BY <1>1, <1>2 DEF Visible, Only, IInv, TypeOK
<1>7. QED
  BY <1>1, <1>3, <1>5, <1>6 DEF KeyInv, Visible

LEMMA EndsKeep ==
    ASSUME IInv, NEW l \in open, NEW p \in BOOLEAN, Answered(l, p),
           NEW k \in Keys \ lost'
    PROVE  KeyInv(k)'
<1>1. /\ UNCHANGED <<sdk, runs, board>> /\ pc # "idle" /\ l \in Lanes
      /\ open' = open \ {l} /\ open \subseteq Lanes
  BY DEF Answered, counters, IInv, TypeOK, PlaceInv
<1>2. \A m \in open' : event'[m] = event[m]
  BY <1>1, Over DEF Only, IInv
<1>3. k \notin lost /\ KeyInv(k)
  BY <1>1 DEF Answered, IInv, ContextInv
<1>4. \A v : Visible(k, v) => Visible(k, v)'
  BY <1>1 DEF Visible
<1>5. \A m \in open' : k \notin event[m].wrote
  BY <1>1, <1>3 DEF KeyInv
<1>6. Visible(k, shared'[k])
  <2>1. CASE p
    BY <1>3, <2>1, Persists DEF Answered, IInv
  <2>2. CASE ~p
    <3>1. k \notin event[l].wrote /\ shared' = shared
      BY <2>2 DEF Answered
    <3>2. QED
      BY <1>1, <1>3, <1>5, <3>1 DEF KeyInv
  <2>3. QED
    BY <2>1, <2>2
<1>7. QED
  BY <1>1, <1>2, <1>3, <1>4, <1>5, <1>6 DEF KeyInv, Visible

(* A hook starts, throws or returns. *)
LEMMA HookKeeps ==
    ASSUME IInv, NEW l \in open, UNCHANGED <<sdk, runs, board, open>>,
           NEW w, Only(l, event[l].data, w),
           \/ shared' = shared /\ w = event[l].wrote
           \/ shared' = Persist(event[l].data) /\ w = {},
           NEW k \in Keys, KeyInv(k)
    PROVE  KeyInv(k)'
<1>1. l \in Lanes /\ open \subseteq Lanes
  BY DEF IInv, TypeOK
<1>2. /\ event'[l].data = event[l].data /\ event'[l].wrote = w
      /\ \A m \in open \ {l} : event'[m] = event[m]
  BY <1>1 DEF Only
<1>3. \A v : Visible(k, v) => Visible(k, v)'
  BY DEF Visible
<1>4. CASE shared' = shared /\ w = event[l].wrote
  <2>1. \A m \in open : event'[m].data = event[m].data /\ event'[m].wrote = event[m].wrote
    BY <1>2, <1>4
  <2>2. QED
    BY <1>3, <1>4, <2>1 DEF KeyInv, Visible
<1>5. CASE shared' = Persist(event[l].data) /\ w = {}
  <2>1. Visible(k, shared'[k])
    BY <1>5, Persists DEF IInv
  <2>2. /\ \A m \in open : event'[m].data = event[m].data
        /\ \A m \in open \ {l} : event'[m].wrote = event[m].wrote
    BY <1>2
  <2>3. QED
    BY <1>2, <1>3, <1>5, <2>1, <2>2 DEF KeyInv, Visible
<1>6. QED
  BY <1>4, <1>5

(* A hook writes to its context, and to the shared one or not. *)
LEMMA WriteKeeps ==
    ASSUME IInv, NEW l \in open, NEW j \in Keys, UNCHANGED <<sdk, runs, pc, open>>,
           Write(j, open \ {l}), NEW w, Only(l, [event[l].data EXCEPT ![j] = writes + 1], w),
           \/ shared' = shared /\ w = event[l].wrote \cup {j}
           \/ shared' = [shared EXCEPT ![j] = writes + 1] /\ w = event[l].wrote \ {j},
           NEW k \in Keys \ lost', pc # "idle"
    PROVE  KeyInv(k)'
<1>1. /\ l \in Lanes /\ open \subseteq Lanes
      /\ event[l].data \in Contexts /\ shared \in Contexts
  BY DEF IInv, TypeOK, IsEvent
<1>2. /\ event'[l].data = [event[l].data EXCEPT ![j] = writes + 1]
      /\ event'[l].wrote = w
      /\ \A m \in open \ {l} : event'[m] = event[m]
  BY <1>1 DEF Only
<1>3. /\ board'[j] = writes + 1 /\ board'[j] # 0
      /\ \A i \in Keys \ {j} : board'[i] = board[i]
  BY WriteTyped DEF IInv
<1>4. CASE k = j
  <2>1. open = {l}
    BY <1>4 DEF Write
  <2>2. event'[l].data[j] = writes + 1
    BY <1>1, <1>2 DEF Contexts
  <2>3. CASE j \in w
    BY <1>2, <1>3, <1>4, <2>1, <2>2, <2>3 DEF KeyInv, Visible
  <2>4. CASE j \notin w
    <3>1. shared'[j] = writes + 1
      BY <1>1, <2>4 DEF Contexts
    <3>2. QED
      BY <1>2, <1>3, <1>4, <2>1, <2>2, <2>4, <3>1 DEF KeyInv, Visible
  <2>5. QED
    BY <2>3, <2>4
<1>5. CASE k # j
  <2>1. KeyInv(k)
    BY <1>5 DEF Write, IInv, ContextInv
  <2>2. /\ shared'[k] = shared[k] /\ board'[k] = board[k]
        /\ event'[l].data[k] = event[l].data[k] /\ (k \in w <=> k \in event[l].wrote)
    BY <1>1, <1>2, <1>3, <1>5 DEF Contexts
  <2>3. \A m \in open : /\ event'[m].data[k] = event[m].data[k]
                        /\ k \in event'[m].wrote <=> k \in event[m].wrote
    BY <1>2, <2>2
  <2>4. \A v : Visible(k, v) => Visible(k, v)'
    BY <2>2 DEF Visible
  <2>5. ASSUME NEW m \in open PROVE Visible(k, event[m].data[k])'
    <3>1. Visible(k, event[m].data[k])
      BY <2>1 DEF KeyInv
    <3>2. event'[m].data[k] = event[m].data[k]
      BY <2>3
    <3>3. QED
      BY <2>2, <3>1, <3>2 DEF Visible
  <2>6. ASSUME NEW m \in open, k \in event'[m].wrote
        PROVE  open' = {m} /\ event'[m].data[k] = board'[k] /\ board'[k] # 0
    <3>1. k \in event[m].wrote /\ event'[m].data[k] = event[m].data[k]
      BY <2>3, <2>6
    <3>2. open = {m} /\ event[m].data[k] = board[k] /\ board[k] # 0
      BY <2>1, <3>1 DEF KeyInv
    <3>3. QED
      BY <2>2, <3>1, <3>2
  <2>7. (\A m \in open' : k \notin event'[m].wrote) => Visible(k, shared[k])'
    BY <2>1, <2>2, <2>3, <2>4 DEF KeyInv, Visible
  <2>8. QED
    BY <2>5, <2>6, <2>7 DEF KeyInv
<1>6. QED
  BY <1>4, <1>5

(* Something else writes to the shared context. *)
LEMMA BesideKeeps ==
    ASSUME IInv, NEW j \in Keys, UNCHANGED <<sdk, runs, pc, open, event>>,
           Write(j, open), shared' = [shared EXCEPT ![j] = writes + 1],
           NEW k \in Keys \ lost', pc # "idle"
    PROVE  KeyInv(k)'
<1>1. shared \in Contexts
  BY DEF IInv, TypeOK
<1>2. /\ board'[j] = writes + 1
      /\ \A i \in Keys \ {j} : board'[i] = board[i]
  BY WriteTyped DEF IInv
<1>3. CASE k = j
  <2>1. open = {}
    BY <1>3 DEF Write
  <2>2. shared'[j] = writes + 1
    BY <1>1 DEF Contexts
  <2>3. QED
    BY <1>2, <1>3, <2>1, <2>2 DEF KeyInv, Visible
<1>4. CASE k # j
  <2>1. KeyInv(k)
    BY <1>4 DEF Write, IInv, ContextInv
  <2>2. shared'[k] = shared[k] /\ board'[k] = board[k]
    BY <1>1, <1>2, <1>4 DEF Contexts
  <2>3. QED
    BY <2>1, <2>2 DEF KeyInv, Visible
<1>5. QED
  BY <1>3, <1>4

LEMMA SameKeeps ==
    ASSUME UNCHANGED <<sdk, runs, pc, open, event, board, lost, shared>>, ContextInv
    PROVE  ContextInv'
BY DEF ContextInv, KeyInv, Visible

LEMMA NextContext == IInv /\ [Next]_vars => ContextInv'
<1> SUFFICES ASSUME IInv, [Next]_vars PROVE ContextInv'
  OBVIOUS
<1>1. CASE Starts
  BY <1>1, StartsKeep DEF ContextInv
<1>2. CASE Batches
  <2>1. CASE StartBatch \/ EndBatch
    <3>1. /\ UNCHANGED <<sdk, runs, board, shared, lost, open>> /\ open = {}
          /\ pc # "idle"
      BY <2>1 DEF StartBatch, EndBatch, IInv, PlaceInv, counters
    <3>2. QED
      BY <3>1 DEF IInv, ContextInv, KeyInv, Visible
  <2>2. ASSUME NEW t \in Tools, ToolFails(t) PROVE ContextInv'
    BY <2>2, FailsKeep DEF ContextInv
  <2>3. QED
    BY <1>2, <2>1, <2>2 DEF Batches
<1>3. CASE Stops
  BY <1>3 DEF Stops, FailRun, Restart, ContextInv
<1>4. CASE Ends
  BY <1>4, EndsKeep DEF Ends, ContextInv
<1>5. CASE Goes
  <2>0. ASSUME NEW l \in open PROVE l \in Lanes /\ pc # "idle"
    BY DEF IInv, TypeOK, PlaceInv
  <2>1. ASSUME NEW l \in Lanes, StartHook(l) \/ SkipHook(l) PROVE ContextInv'
    <3>1. /\ UNCHANGED <<sdk, runs, board, open, lost, pc, shared>> /\ l \in open
          /\ Only(l, event[l].data, event[l].wrote)
      BY <2>1, Busy, Skipped DEF StartHook, SkipHook, Running, counters, IInv
    <3>2. QED
      BY <3>1, HookKeeps DEF ContextInv, IInv
  <2>2. ASSUME NEW l \in Lanes, ReturnHook(l) PROVE ContextInv'
    <3>1. /\ UNCHANGED <<sdk, runs, board, open, lost, pc>> /\ l \in open
          /\ Only(l, event[l].data, IF sdk = "python" THEN {} ELSE event[l].wrote)
          /\ shared' = IF sdk = "python" THEN Persist(event[l].data) ELSE shared
      BY <2>2, EndsHook DEF ReturnHook, Running, counters, IInv
    <3>2. QED
      BY <3>1, HookKeeps DEF ContextInv, IInv
  <2>3. ASSUME NEW l \in Lanes, NEW j \in Keys, Attach(l, j) PROVE ContextInv'
    <3>1. /\ UNCHANGED <<sdk, runs, pc, open, shared>> /\ l \in open
          /\ Write(j, open \ {l})
          /\ event' = [event EXCEPT ![l].data[j] = writes + 1,
                                     ![l].wrote = event[l].wrote \cup {j}]
      BY <2>3 DEF Attach, Running, counters, IInv, TypeOK
    <3>2. Only(l, [event[l].data EXCEPT ![j] = writes + 1], event[l].wrote \cup {j})
      BY <3>1, Written DEF IInv
    <3>3. QED
      BY <3>1, <3>2, <2>0, WriteKeeps DEF ContextInv
  <2>4. ASSUME NEW l \in Lanes, NEW j \in Keys, SetContext(l, j) PROVE ContextInv'
    <3>1. /\ UNCHANGED <<sdk, runs, pc, open>> /\ l \in open
          /\ Write(j, open \ {l}) /\ shared' = [shared EXCEPT ![j] = writes + 1]
          /\ event' = [event EXCEPT ![l].data[j] = writes + 1,
                                     ![l].wrote = event[l].wrote \ {j}]
      BY <2>4 DEF SetContext, Running, counters, IInv, TypeOK
    <3>2. Only(l, [event[l].data EXCEPT ![j] = writes + 1], event[l].wrote \ {j})
      BY <3>1, Written DEF IInv
    <3>3. QED
      BY <3>1, <3>2, <2>0, WriteKeeps DEF ContextInv
  <2>5. ASSUME NEW l \in Lanes, NEW j \in Keys, FailEmbedding(l, j) PROVE ContextInv'
    <3>1. /\ UNCHANGED <<sdk, runs, pc, open, event>> /\ Write(j, open)
          /\ shared' = [shared EXCEPT ![j] = writes + 1]
      BY <2>5 DEF FailEmbedding, counters
    <3>2. QED
      BY <3>1, BesideKeeps DEF ContextInv
  <2>6. CASE StreamPartial
    BY <2>6, SameKeeps DEF StreamPartial, counters, IInv
  <2>7. CASE DeliverPartial
    <3>1. UNCHANGED <<sdk, runs, pc, open, event>>
      BY <2>7 DEF DeliverPartial, counters
    <3>2. CASE UNCHANGED <<writes, shared, board, lost>>
      BY <3>1, <3>2, SameKeeps DEF IInv
    <3>3. ASSUME NEW j \in Keys, Write(j, open), shared' = [shared EXCEPT ![j] = writes + 1]
          PROVE  ContextInv'
      BY <3>1, <3>3, BesideKeeps DEF ContextInv
    <3>4. QED
      BY <2>7, <3>2, <3>3 DEF DeliverPartial
  <2>8. QED
    BY <1>5, <2>1, <2>2, <2>3, <2>4, <2>5, <2>6, <2>7 DEF Goes
<1>6. CASE UNCHANGED vars
  BY <1>6, SameKeeps DEF vars, IInv
<1>7. QED
  BY <1>1, <1>2, <1>3, <1>4, <1>5, <1>6, Steps

-----------------------------------------------------------------------------

THEOREM HostInductive == Spec => []IInv
<1>1. IInv /\ [Next]_vars => IInv'
  BY NextTypes, NextPlace, NextFirst, NextContext DEF IInv
<1>2. QED
  BY <1>1, InitIInv, PTL DEF Spec

(* Whatever the hooks do, however the events of failing tools overlap and   *)
(* whenever streamed intents arrive, a hook finds in its context the last   *)
(* write to each key in its run, unless that one was made beside another     *)
(* event or not persisted; and, except in the Rust SDK, nothing of another   *)
(* run.                                                                     *)
THEOREM WritesSeen == Spec => []HooksSeeEarlierWrites
<1>1. IInv => HooksSeeEarlierWrites
  BY DEF IInv, PlaceInv, ContextInv, KeyInv, Visible, HooksSeeEarlierWrites, Running
<1>2. QED
  BY <1>1, HostInductive, PTL
=============================================================================

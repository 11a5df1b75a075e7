--------------------------- MODULE HostCallsProofs ---------------------------
(* Proofs about HostCalls for any set of calls and any number of threads.  *)
EXTENDS HostCalls, TLAPS

(* Every id taken is below the counter, and no two calls of a registry     *)
(* share one.                                                              *)
IdsInv ==
    /\ \A c \in Calls : (pc[c] = "idle" <=> id[c] = 0) /\ id[c] < next[KindOf[c]]
    /\ \A c, d \in Calls :
          KindOf[c] = KindOf[d] /\ id[c] = id[d] /\ id[c] # 0 => c = d

(* The host has an id it may have used for call c. *)
Reachable(c) == c \in handed \/ \E d \in handed : KindOf[d] # KindOf[c]

(* The sender of a call is in one place: in the map, in the hands of one   *)
(* thread, or used.                                                        *)
SenderInv ==
    /\ \A c \in registered :
          pc[c] \in {"registered", "waiting"} /\ chan[c] = "open"
    /\ \A h \in held :
          /\ h.call \notin registered /\ chan[h.call] = "open"
          /\ pc[h.call] \in {"registered", "waiting"} /\ Reachable(h.call)
    /\ \A g, h \in held : g.call = h.call => g = h
    /\ \A c \in Calls :
          pc[c] \in {"registered", "waiting"} =>
             c \in registered \/ chan[c] \in Answers \/ \E h \in held : h.call = c

(* What was told, sent and returned agree. *)
AnswerInv ==
    \A c \in Calls :
        /\ chan[c] # "closed"
        /\ chan[c] = "open" => told[c] = {}
        /\ chan[c] \in Answers =>
              /\ pc[c] \in {"registered", "waiting", "done"}
              /\ \E t \in Threads : told[c] = {<<t, chan[c]>>}
        /\ c \in handed <=> pc[c] \in {"waiting", "done"}
        /\ pc[c] = "done" <=> result[c] # "none"
        /\ pc[c] = "done" =>
              chan[c] \in Answers /\ result[c] = Outcome(KindOf[c], chan[c])

RunInv ==
    /\ run = "completed" => \A c \in Calls : pc[c] \in {"idle", "done"}
    /\ run = "idle" => \A c \in Calls : pc[c] = "idle"
    /\ \A t \in Threads : reply[t] # "resolved"

IInv == TypeOK /\ IdsInv /\ SenderInv /\ AnswerInv /\ RunInv

-----------------------------------------------------------------------------

(* An id names at most one call of a registry, the own one in its own. *)
LEMMA SingleKey ==
    ASSUME TypeOK, IdsInv, NEW c \in Calls, pc[c] # "idle"
    PROVE  /\ SameKey(c) = {c}
           /\ \A k \in Kinds : \A d, e \in Key(k, c) : d = e
BY KindOfAssumption DEF TypeOK, IdsInv, SameKey, Key

(* The initial state satisfies the inductive invariant. *)
LEMMA InitIInv == Init => IInv
BY KindOfAssumption
   DEF Init, IInv, TypeOK, IdsInv, SenderInv, AnswerInv, RunInv, Kinds, Answers

(* Every step of the run, the futures and the host preserves it. *)
LEMMA NextIInv == IInv /\ [Next]_vars => IInv'
<1> SUFFICES ASSUME IInv, [Next]_vars PROVE IInv'
  OBVIOUS
<1> USE KindOfAssumption DEF IInv, Kinds, Answers
<1>1. CASE StartRun
  <2>1. TypeOK'
    BY <1>1 DEF StartRun, TypeOK
  <2>2. IdsInv'
    BY <1>1 DEF StartRun, TypeOK, IdsInv, AnswerInv
  <2>3. SenderInv'
    BY <1>1 DEF StartRun, TypeOK, SenderInv, AnswerInv, Reachable
  <2>4. AnswerInv'
    BY <1>1 DEF StartRun, TypeOK, SenderInv, AnswerInv
  <2>5. RunInv'
    BY <1>1 DEF StartRun, TypeOK, SenderInv, RunInv
  <2>6. QED
    BY <2>1, <2>2, <2>3, <2>4, <2>5
<1>2. CASE FinishRun
  <2>1. TypeOK'
    BY <1>2 DEF FinishRun, TypeOK
  <2>2. IdsInv'
    BY <1>2 DEF FinishRun, TypeOK, IdsInv, AnswerInv
  <2>3. SenderInv'
    BY <1>2 DEF FinishRun, TypeOK, SenderInv, AnswerInv, Reachable
  <2>4. AnswerInv'
    BY <1>2 DEF FinishRun, TypeOK, SenderInv, AnswerInv
  <2>5. RunInv'
    BY <1>2 DEF FinishRun, TypeOK, SenderInv, RunInv
  <2>6. QED
    BY <2>1, <2>2, <2>3, <2>4, <2>5
<1>3. CASE Free
  <2>1. TypeOK'
    BY <1>3 DEF Free, TypeOK
  <2>2. IdsInv'
    BY <1>3 DEF Free, TypeOK, IdsInv, AnswerInv
  <2>3. SenderInv'
    BY <1>3 DEF Free, TypeOK, SenderInv, AnswerInv, Reachable
  <2>4. AnswerInv'
    BY <1>3 DEF Free, TypeOK, SenderInv, AnswerInv
  <2>5. RunInv'
    BY <1>3 DEF Free, TypeOK, SenderInv, RunInv
  <2>6. QED
    BY <2>1, <2>2, <2>3, <2>4, <2>5
<1>4. ASSUME NEW c \in Calls, TakeId(c) PROVE IInv'
  <2>1. TypeOK'
    BY <1>4 DEF TakeId, TypeOK
  <2>2. IdsInv'
    BY <1>4 DEF TakeId, TypeOK, IdsInv, AnswerInv
  <2>3. SenderInv'
    BY <1>4 DEF TakeId, TypeOK, SenderInv, AnswerInv, Reachable
  <2>4. AnswerInv'
    BY <1>4 DEF TakeId, TypeOK, SenderInv, AnswerInv
  <2>5. RunInv'
    BY <1>4 DEF TakeId, TypeOK, SenderInv, RunInv
  <2>6. QED
    BY <2>1, <2>2, <2>3, <2>4, <2>5
<1>5. ASSUME NEW c \in Calls, Register(c) PROVE IInv'
  <2>a. SameKey(c) = {c}
    BY <1>5, SingleKey DEF Register, TypeOK
  <2>0. registered' = registered \cup {c} /\ chan' = chan
    BY <1>5, <2>a DEF Register, TypeOK, SenderInv
  <2>1. TypeOK'
    BY <1>5, <2>0 DEF Register, TypeOK
  <2>2. IdsInv'
    BY <1>5, <2>0 DEF Register, TypeOK, IdsInv, AnswerInv
  <2>3. SenderInv'
    BY <1>5, <2>0 DEF Register, TypeOK, SenderInv, AnswerInv, Reachable
  <2>4. AnswerInv'
    BY <1>5, <2>0 DEF Register, TypeOK, SenderInv, AnswerInv
  <2>5. RunInv'
    BY <1>5, <2>0 DEF Register, TypeOK, SenderInv, RunInv
  <2>6. QED
    BY <2>1, <2>2, <2>3, <2>4, <2>5
<1>6. ASSUME NEW c \in Calls, Invoke(c) PROVE IInv'
  <2>1. TypeOK'
    BY <1>6 DEF Invoke, TypeOK
  <2>2. IdsInv'
    BY <1>6 DEF Invoke, TypeOK, IdsInv, AnswerInv
  <2>3. SenderInv'
    BY <1>6 DEF Invoke, TypeOK, SenderInv, AnswerInv, Reachable
  <2>4. AnswerInv'
    BY <1>6 DEF Invoke, TypeOK, SenderInv, AnswerInv
  <2>5. RunInv'
    BY <1>6 DEF Invoke, TypeOK, SenderInv, RunInv
  <2>6. QED
    BY <2>1, <2>2, <2>3, <2>4, <2>5
<1>8. ASSUME NEW c \in Calls, Receive(c) PROVE IInv'
  <2>1. TypeOK'
    BY <1>8 DEF Receive, TypeOK, Outcome
  <2>2. IdsInv'
    BY <1>8 DEF Receive, TypeOK, IdsInv, AnswerInv
  <2>3. SenderInv'
    BY <1>8 DEF Receive, TypeOK, SenderInv, AnswerInv, Reachable
  <2>4. AnswerInv'
    BY <1>8 DEF Receive, TypeOK, SenderInv, AnswerInv, Outcome
  <2>5. RunInv'
    BY <1>8 DEF Receive, TypeOK, SenderInv, RunInv
  <2>6. QED
    BY <2>1, <2>2, <2>3, <2>4, <2>5
<1>9. ASSUME NEW t \in Threads, NEW k \in Kinds, NEW c \in Calls, NEW a \in Answers,
             Remove(t, k, c, a)
      PROVE IInv'
  <2>0. PICK d \in registered :
           /\ registered' = registered \ {d}
           /\ held' = held \cup {[thread |-> t, call |-> d, answer |-> a]}
           /\ d \in Key(k, c)
    BY <1>9 DEF Remove
  <2>a. d \in Calls /\ answered' \subseteq Calls
    BY <1>9 DEF Remove, AnswersFor, TypeOK
  <2>b. Reachable(d)'
    <3>1. c \in handed /\ handed' = handed /\ pc[c] # "idle"
      BY <1>9 DEF Remove, TypeOK, AnswerInv
    <3>2. CASE k = KindOf[c]
      BY <2>0, <3>1, <3>2, SingleKey DEF SameKey, Reachable
    <3>3. CASE k # KindOf[c]
      BY <2>0, <3>1, <3>3 DEF Key, Reachable
    <3>4. QED
      BY <3>2, <3>3
  <2>1. TypeOK'
    BY <1>9, <2>0, <2>a DEF Remove, TypeOK
  <2>2. IdsInv'
    BY <1>9, <2>0 DEF Remove, TypeOK, IdsInv, AnswerInv
  <2>3. SenderInv'
    <3> DEFINE g == [thread |-> t, call |-> d, answer |-> a]
    <3>1. /\ pc' = pc /\ chan' = chan
          /\ pc[d] \in {"registered", "waiting"} /\ chan[d] = "open"
          /\ \A h \in held : h.call # d
      BY <1>9, <2>0 DEF Remove, SenderInv, AnswerInv, TypeOK
    <3>2. g.call = d /\ held' = held \cup {g} /\ g \in held'
      BY <2>0
    <3> HIDE DEF g
    <3>3. QED
      <4>1. handed' = handed
        BY <1>9 DEF Remove
      <4>2. \A e \in Calls : Reachable(e) => Reachable(e)'
        BY <4>1 DEF Reachable
      <4> HIDE DEF Reachable
      <4>3. \A h \in held' : /\ h.call \notin registered' /\ chan'[h.call] = "open"
                            /\ pc'[h.call] \in {"registered", "waiting"}
                            /\ Reachable(h.call)'
        BY <2>0, <2>a, <2>b, <3>1, <3>2, <4>2 DEF SenderInv, TypeOK
      <4>4. QED
        BY <2>0, <3>1, <3>2, <4>3 DEF SenderInv, TypeOK
  <2>4. AnswerInv'
    BY <1>9, <2>0 DEF Remove, TypeOK, SenderInv, AnswerInv
  <2>5. RunInv'
    BY <1>9, <2>0 DEF Remove, TypeOK, SenderInv, RunInv
  <2>6. QED
    BY <2>1, <2>2, <2>3, <2>4, <2>5
<1>10. ASSUME NEW t \in Threads, NEW k \in Kinds, NEW c \in Calls, Unknown(t, k, c)
       PROVE IInv'
  <2>1. TypeOK'
    BY <1>10 DEF Unknown, AnswersFor, TypeOK
  <2>2. IdsInv'
    BY <1>10 DEF Unknown, TypeOK, IdsInv, AnswerInv
  <2>3. SenderInv'
    BY <1>10 DEF Unknown, TypeOK, SenderInv, AnswerInv, Reachable
  <2>4. AnswerInv'
    BY <1>10 DEF Unknown, TypeOK, SenderInv, AnswerInv
  <2>5. RunInv'
    BY <1>10 DEF Unknown, TypeOK, SenderInv, RunInv
  <2>6. QED
    BY <2>1, <2>2, <2>3, <2>4, <2>5
<1>11. ASSUME NEW h \in held, Send(h) PROVE IInv'
  <2>0. /\ h.call \in Calls /\ h.thread \in Threads /\ h.answer \in Answers
       /\ pc[h.call] \in {"registered", "waiting"} /\ held' = held \ {h}
       /\ chan' = [chan EXCEPT ![h.call] = h.answer]
       /\ told' = [told EXCEPT ![h.call] = @ \cup {<<h.thread, h.answer>>}]
       /\ reply' = [reply EXCEPT ![h.thread] = "ok"]
    BY <1>11 DEF Send, SenderInv, TypeOK
  <2>1. TypeOK'
    BY <1>11, <2>0 DEF Send, TypeOK
  <2>2. IdsInv'
    BY <1>11, <2>0 DEF Send, TypeOK, IdsInv, AnswerInv
  <2>3. SenderInv'
    BY <1>11, <2>0 DEF Send, TypeOK, SenderInv, AnswerInv, Reachable
  <2>4. AnswerInv'
    BY <1>11, <2>0 DEF Send, TypeOK, SenderInv, AnswerInv
  <2>5. RunInv'
    BY <1>11, <2>0 DEF Send, TypeOK, SenderInv, RunInv
  <2>6. QED
    BY <2>1, <2>2, <2>3, <2>4, <2>5
<1>12. CASE UNCHANGED vars
  <2>1. TypeOK'
    BY <1>12 DEF vars, TypeOK
  <2>2. IdsInv'
    BY <1>12 DEF vars, TypeOK, IdsInv, AnswerInv
  <2>3. SenderInv'
    BY <1>12 DEF vars, TypeOK, SenderInv, AnswerInv, Reachable
  <2>4. AnswerInv'
    BY <1>12 DEF vars, TypeOK, SenderInv, AnswerInv
  <2>5. RunInv'
    BY <1>12 DEF vars, TypeOK, SenderInv, RunInv
  <2>6. QED
    BY <2>1, <2>2, <2>3, <2>4, <2>5
<1>13. QED
  BY <1>1, <1>2, <1>3, <1>4, <1>5, <1>6, <1>8, <1>9, <1>10, <1>11, <1>12
     DEF Next, EngineStep, HostStep, Answer

(* The inductive invariant holds in every reachable state. *)
LEMMA Invariance == Spec => []IInv
BY InitIInv, NextIInv, PTL DEF Spec

-----------------------------------------------------------------------------

(* Every variable keeps its type, whatever the calls and the threads. *)
THEOREM TypeCorrect == Spec => []TypeOK
BY Invariance, PTL DEF IInv

(* complete and fail, raced by any number of host threads, are confirmed   *)
(* at most once per request.                                               *)
THEOREM OneWinnerHolds == Spec => []OneWinner
<1>1. IInv => OneWinner
  BY DEF IInv, TypeOK, AnswerInv, OneWinner
<1>2. QED
  BY <1>1, Invariance, PTL

(* What the library confirmed to the host is what the call returns. *)
THEOREM ConfirmedIsDeliveredHolds == Spec => []ConfirmedIsDelivered
<1>1. IInv => ConfirmedIsDelivered
  <2> SUFFICES ASSUME IInv, NEW c \in Calls, NEW x \in told[c]
               PROVE  /\ chan[c] = x[2]
                      /\ pc[c] = "done" => result[c] = Outcome(KindOf[c], x[2])
    BY DEF ConfirmedIsDelivered
  <2>1. chan[c] \in Answers
    BY DEF IInv, TypeOK, AnswerInv
  <2>2. PICK t \in Threads : told[c] = {<<t, chan[c]>>}
    BY <2>1 DEF IInv, AnswerInv
  <2>3. x[2] = chan[c]
    BY <2>2
  <2>4. pc[c] = "done" => result[c] = Outcome(KindOf[c], chan[c])
    BY <2>1 DEF IInv, AnswerInv, Answers
  <2>5. QED
    BY <2>3, <2>4
<1>2. QED
  BY <1>1, Invariance, PTL

(* No future waits for a sender that was lost, so none is ever told that   *)
(* its request "was dropped".                                              *)
THEOREM WaiterHasSenderHolds == Spec => []WaiterHasSender
<1>1. IInv => WaiterHasSender
  <2> SUFFICES ASSUME IInv PROVE WaiterHasSender
    OBVIOUS
  <2>1. \A c \in Calls : result[c] # "dropped"
    BY DEF IInv, TypeOK, AnswerInv, Outcome, Answers
  <2>2. QED
    BY <2>1 DEF IInv, SenderInv, RunInv, WaiterHasSender
<1>2. QED
  BY <1>1, Invariance, PTL

(* A completed run leaves both registries as empty as it found them. *)
THEOREM NothingLeftBehindHolds == Spec => []NothingLeftBehind
<1>1. IInv => NothingLeftBehind
  BY DEF IInv, TypeOK, SenderInv, RunInv, NothingLeftBehind
<1>2. QED
  BY <1>1, Invariance, PTL

-----------------------------------------------------------------------------

(* Every step is a step of CallResolution, or leaves what it sees alone. *)
LEMMA StepSimulation ==
    IInv /\ [Next]_vars => [Promise!Next]_<<handed, chan, result>>
<1> SUFFICES ASSUME IInv, [Next]_vars
             PROVE  Promise!Next \/ UNCHANGED <<handed, chan, result>>
  OBVIOUS
<1> USE DEF IInv, Answers
<1>1. CASE StartRun \/ FinishRun \/ Free \/ UNCHANGED vars
  BY <1>1 DEF StartRun, FinishRun, Free, vars
<1>2. ASSUME NEW c \in Calls, TakeId(c) PROVE UNCHANGED <<handed, chan, result>>
  BY <1>2 DEF TakeId
<1>3. ASSUME NEW c \in Calls, Register(c) PROVE UNCHANGED <<handed, chan, result>>
  <2>1. SameKey(c) = {c}
    BY <1>3, SingleKey DEF Register
  <2>2. chan' = chan
    BY <1>3, <2>1 DEF Register, TypeOK, SenderInv
  <2>3. QED
    BY <1>3, <2>2 DEF Register
<1>4. ASSUME NEW c \in Calls, Invoke(c) PROVE Promise!Next
  <2>1. Promise!Ask(c)
    BY <1>4 DEF Invoke, TypeOK, AnswerInv, Promise!Ask
  <2>2. QED
    BY <2>1 DEF Promise!Next
<1>6. ASSUME NEW c \in Calls, Receive(c) PROVE Promise!Next
  <2>1. /\ c \in handed /\ chan[c] \in Answers /\ result[c] = "none"
        /\ result' = [result EXCEPT ![c] = Outcome(KindOf[c], chan[c])]
        /\ UNCHANGED <<handed, chan>>
    BY <1>6 DEF Receive, TypeOK, AnswerInv
  <2>2. Outcome(KindOf[c], chan[c]) = Promise!Meaning(c)
    BY <2>1 DEF Outcome, Promise!Meaning
  <2>3. Promise!Return(c)
    BY <2>1, <2>2 DEF Promise!Return
  <2>4. QED
    BY <2>3 DEF Promise!Next
<1>7. ASSUME NEW t \in Threads, NEW k \in Kinds, NEW c \in Calls, Answer(t, k, c)
      PROVE  UNCHANGED <<handed, chan, result>>
  BY <1>7 DEF Answer, Unknown, Remove
<1>8. ASSUME NEW h \in held, Send(h) PROVE Promise!Next
  <2>1. /\ h.call \in Calls /\ h.answer \in Answers /\ Reachable(h.call)
        /\ chan[h.call] = "open" /\ pc[h.call] # "done" /\ result[h.call] = "none"
    BY DEF TypeOK, SenderInv, AnswerInv
  <2>2. Promise!Settle(h.call, h.answer)
    BY <1>8, <2>1 DEF Send, Promise!Settle, Reachable
  <2>3. QED
    BY <2>1, <2>2 DEF Promise!Next
<1>9. QED
  BY <1>1, <1>2, <1>3, <1>4, <1>6, <1>7, <1>8
     DEF Next, EngineStep, HostStep

(* The registries, ids and racing threads implement the promise: one       *)
(* question, one answer, and that answer is returned.                      *)
THEOREM Implements == Spec => KeepsPromise
<1>1. Init => Promise!Init
  BY DEF Init, Promise!Init
<1>2. QED
  BY <1>1, StepSimulation, Invariance, PTL DEF Spec, KeepsPromise, Promise!Spec
=============================================================================

--------------------------- MODULE EngineRunProofs ---------------------------
(***************************************************************************)
(* What EngineRun keeps right, for any helpers, tools, stacks and limits,  *)
(* and that it implements Conversation.  Behind it, that what a round      *)
(* executed is what the model is told: how often an intent occurs in       *)
(* sequences that grow, the account process_intents keeps of a batch, and  *)
(* what the loop hands on.                                                 *)
(***************************************************************************)
EXTENDS EngineRun, SequenceTheorems, FiniteSetTheorems, TLAPS

-----------------------------------------------------------------------------
(* Sequences. *)

LEMMA TailTyped ==
    ASSUME NEW S, NEW s \in Seq(S), s # <<>>
    PROVE  Tail(s) \in Seq(S) /\ s[1] \in S /\ Len(s) \in Nat \ {0}
BY HeadTailProperties, EmptySeq, ElementOfSeq, LenProperties

LEMMA FrontTyped ==
    ASSUME NEW S, NEW s \in Seq(S), s # <<>>
    PROVE  Front(s) \in Seq(S) /\ Len(Front(s)) = Len(s) - 1
<1> DEFINE n == Len(s) - 1
<1>1. n \in Nat /\ Len(s) = n + 1
  BY EmptySeq, LenProperties
<1>2. \A i \in 1..n : s[i] \in S
  BY <1>1, ElementOfSeq
<1> HIDE DEF n
<1>3. Front(s) \in Seq(S)
  BY DEF Front
<1>4. Len(SubSeq(s, 1, n)) = n
  BY <1>1, <1>2, SubSeqProperties
<1>5. QED
  BY <1>1, <1>3, <1>4 DEF Front, n

LEMMA LastTyped ==
    ASSUME NEW S, NEW s \in Seq(S), s # <<>>
    PROVE  Last(s) \in S
BY EmptySeq, ElementOfSeq DEF Last

(* Sequences of bounded length are sequences. *)
LEMMA BoundedSeqTyped ==
    ASSUME NEW S, NEW n \in Nat, NEW s \in BoundedSeq(S, n)
    PROVE  s \in Seq(S)
BY SeqDef DEF BoundedSeq, SeqOf

LEMMA ConcatTyped ==
    ASSUME NEW S, NEW s \in Seq(S), NEW t \in Seq(S)
    PROVE  s \o t \in Seq(S)
BY ConcatProperties

-----------------------------------------------------------------------------
(* The operators on turns yield turns. *)

LEMMA NewTurnTyped ==
    ASSUME NEW input \in InputKinds, NEW payload \in Seq(Intents)
    PROVE  NewTurn(input, payload) \in Turn
BY EmptySeq DEF NewTurn, Turn, ResponseKinds

LEMMA StartTyped ==
    ASSUME NEW ts \in Seq(Turn), NEW input \in InputKinds
    PROVE  StartTurn(ts, input) \in Seq(Turn)
<1>0. <<>> \in Seq(Intents)
  BY EmptySeq
<1>1. NewTurn(input, <<>>) \in Turn
  BY <1>0, NewTurnTyped
<1>2. QED
  BY <1>1 DEF StartTurn

LEMMA StartResultsTyped ==
    ASSUME NEW ts \in Seq(Turn), NEW payload \in Seq(Intents)
    PROVE  StartResultsTurn(ts, payload) \in Seq(Turn)
BY NewTurnTyped DEF StartResultsTurn, InputKinds

LEMMA OnCurrentTyped ==
    ASSUME NEW ts \in Seq(Turn), NEW turn, ts # <<>> => turn \in Turn
    PROVE  OnCurrent(ts, turn) \in Seq(Turn)
<1>1. CASE ts = <<>>
  BY <1>1 DEF OnCurrent
<1>2. CASE ts # <<>>
  BY <1>2, EmptySeq, ExceptSeq DEF OnCurrent
<1>3. QED
  BY <1>1, <1>2

LEMMA SetResponseTyped ==
    ASSUME NEW ts \in Seq(Turn), NEW r \in ResponseKinds
    PROVE  SetResponse(ts, r) \in Seq(Turn)
<1>1. ts # <<>> => [Last(ts) EXCEPT !.response = r] \in Turn
  BY LastTyped DEF Turn
<1>2. QED
  BY <1>1, OnCurrentTyped DEF SetResponse

LEMMA SetResponseIfNoneTyped ==
    ASSUME NEW ts \in Seq(Turn), NEW r \in ResponseKinds
    PROVE  SetResponseIfNone(ts, r) \in Seq(Turn)
BY SetResponseTyped DEF SetResponseIfNone

LEMMA PopLastIfEmptyTyped ==
    ASSUME NEW ts \in Seq(Turn)
    PROVE  PopLastIfEmpty(ts) \in Seq(Turn)
BY FrontTyped DEF PopLastIfEmpty

LEMMA SetNativeCallsTyped ==
    ASSUME NEW ts \in Seq(Turn), NEW cs \in Seq(Intents)
    PROVE  SetNativeCalls(ts, cs) \in Seq(Turn)
<1>1. ts # <<>> => [Last(ts) EXCEPT !.calls = cs] \in Turn
  BY LastTyped DEF Turn
<1>2. QED
  BY <1>1, OnCurrentTyped DEF SetNativeCalls

LEMMA AppendNativeResultsTyped ==
    ASSUME NEW ts \in Seq(Turn), NEW rs \in Seq(Intents)
    PROVE  AppendNativeResults(ts, rs) \in Seq(Turn)
<1>1. ts # <<>> => [Last(ts) EXCEPT !.results = @ \o rs] \in Turn
  BY LastTyped, ConcatTyped DEF Turn
<1>2. QED
  BY <1>1, OnCurrentTyped DEF AppendNativeResults

LEMMA GiveUpTyped ==
    ASSUME NEW ts \in Seq(Turn)
    PROVE  GiveUp(ts) \in Seq(Turn)
<1>1. ts # <<>> => [Last(ts) EXCEPT !.left = "yes"] \in Turn
  BY LastTyped DEF Turn
<1>2. QED
  BY <1>1, OnCurrentTyped DEF GiveUp

-----------------------------------------------------------------------------
(* Stacks. *)

LEMMA PathTyped ==
    ASSUME NEW s, IsStack(s)
    PROVE  Path(s) \in Seq(Callees)
<1>1. CASE Len(s) > 1
  <2>1. s \in Seq(Names) /\ s # <<>>
    BY <1>1, EmptySeq DEF IsStack
  <2>2. /\ Tail(s) \in Seq(Names) /\ Len(Tail(s)) = Len(s) - 1
        /\ \A i \in 1..Len(Tail(s)) : Tail(s)[i] = s[i + 1]
    BY <2>1, HeadTailProperties
  <2>3. \A i \in 1..Len(Tail(s)) : Tail(s)[i] \in Callees
    BY <2>1, <2>2, LenProperties DEF IsStack
  <2>4. Len(Tail(s)) \in Nat /\ Tail(s) \in [1..Len(Tail(s)) -> Callees]
    BY <2>2, <2>3, LenProperties
  <2>5. Tail(s) \in Seq(Callees)
    BY <2>4, SeqDef
  <2>6. QED
    BY <1>1, <2>5 DEF Path
<1>2. CASE ~(Len(s) > 1)
  BY <1>2, EmptySeq DEF Path
<1>3. QED
  BY <1>1, <1>2

LEMMA PushTyped ==
    ASSUME NEW s, IsStack(s), NEW h \in Callees
    PROVE  IsStack(Append(s, h))
BY DEF IsStack, Names

LEMMA PopTyped ==
    ASSUME NEW s, IsStack(s)
    PROVE  IsStack(Pop(s))
<1>1. CASE s # <<>>
  BY <1>1, FrontTyped, EmptySeq DEF IsStack, Pop, Front
<1>2. QED
  BY <1>1 DEF Pop

LEMMA OwnStackTyped == IsStack(stack) => IsStack(OwnStack)
<1>1. IsStack(<<Agent>>)
  BY DEF IsStack, Names
<1>2. QED
  BY <1>1 DEF OwnStack

-----------------------------------------------------------------------------
(* Type correctness. *)

LEMMA GatheredTyped ==
    DispatchTypeOK => gathered \in Seq(Intents) /\ ran \in Seq(Intents) /\ pos \in Nat \ {0}
BY DEF DispatchTypeOK, BatchTypeOK, EngineTypeOK

LEMMA BatchIntent == DispatchTypeOK /\ pos <= Len(batch) => batch[pos] \in Intents
BY ElementOfSeq DEF DispatchTypeOK, BatchTypeOK

LEMMA CalleeNames ==
    ASSUME NEW i \in Intents, i.kind = "helper"
    PROVE  i.name \in Callees
BY DEF Intents

(* While a helper runs, the batch is at the intent that called it. *)
HelperInv == dpc = "helper" => pos <= Len(batch)

LEMMA DispatchTyped ==
    ASSUME DispatchTypeOK, HelperInv, DispatchStep
    PROVE  DispatchTypeOK'
<1> USE DEF DispatchTypeOK, BatchTypeOK, EngineTypeOK, engineVars
<1>1. CASE DropResponse
  BY <1>1 DEF DropResponse, Take, At
<1>2. CASE Respond
  BY <1>2 DEF Respond, Take, At
<1>3. CASE Custom
  <2>1. flags' \subseteq {"terminal", "final", "raw"} /\ pos' \in Nat \ {0}
    BY <1>3 DEF Custom, Take
  <2>2. QED
    BY <1>3, <2>1 DEF Custom, Take
<1>4. CASE Skip
  <2>1. pos' \in Nat \ {0}
    BY <1>4 DEF Skip, Take
  <2>2. QED
    BY <1>4, <2>1 DEF Skip, Take
<1>5. CASE Override
  <2>1. batch[pos] \in Intents
    BY <1>5, BatchIntent DEF Override, Take, At
  <2>2. gathered' \in Seq(Intents) /\ ran' \in Seq(Intents)
    BY <1>5, <2>1 DEF Override
  <2>3. ret' \subseteq {"acted", "stopped"} /\ pos' \in Nat \ {0}
    BY <1>5 DEF Override, Take
  <2>4. QED
    BY <1>5, <2>2, <2>3 DEF Override, Take
<1>6. CASE Defer
  <2>1. batch[pos] \in Intents
    BY <1>6, BatchIntent DEF Defer, Take, At
  <2>2. deferred' \in Seq(Intents) /\ DOMAIN deferred \subseteq DOMAIN deferred'
    BY <1>6, <2>1 DEF Defer
  <2>3. ret' \subseteq {"acted", "stopped"} /\ pos' \in Nat \ {0}
    BY <1>6 DEF Defer, Take
  <2>4. live' \subseteq [index : DOMAIN deferred', inside : {Agent} \cup Helpers, calls : Nat]
    BY <1>6, <2>2 DEF Defer, Take
  <2>5. QED
    BY <1>6, <2>2, <2>3, <2>4 DEF Defer, Take
<1>7. CASE EnterHelper
  <2>1. batch[pos] \in Intents /\ batch[pos].kind = "helper"
    BY <1>7, BatchIntent DEF EnterHelper, At
  <2>2. batch[pos].name \in Helpers /\ IsStack(stack')
    BY <1>7, <2>1, CalleeNames, PushTyped DEF EnterHelper, Push
  <2>3. sub' \in [name : {Agent} \cup Helpers, rest : Seq(Callees), message : Nat]
    BY <1>7, <2>2, EmptySeq DEF EnterHelper
  <2>4. ff' \in Seq(Callees) /\ message' \in Nat
    BY <1>7, EmptySeq DEF EnterHelper, PathAfter
  <2>5. QED
    BY <1>7, <2>2, <2>3, <2>4 DEF EnterHelper
<1>8. CASE EnterStranger
  BY <1>8, BatchIntent, CalleeNames, PushTyped DEF EnterStranger, At, Push
<1>9. ASSUME NEW outcome \in Outcomes, LeaveHelper(outcome) PROVE DispatchTypeOK'
  <2>1. batch[pos] \in Intents
    BY <1>9, BatchIntent DEF LeaveHelper, HelperInv
  <2>2. \/ pos' = pos /\ gathered' = gathered /\ ran' = ran
        \/ /\ pos' = pos + 1 /\ gathered' = Append(gathered, batch[pos])
           /\ ran' = Append(ran, batch[pos])
    BY <1>9 DEF LeaveHelper
  <2>3. gathered' \in Seq(Intents) /\ ran' \in Seq(Intents) /\ pos' \in Nat \ {0}
    <3> HIDE DEF DispatchTypeOK, BatchTypeOK, EngineTypeOK
    <3>0. gathered \in Seq(Intents) /\ ran \in Seq(Intents) /\ pos \in Nat \ {0}
      BY GatheredTyped
    <3>1. /\ Append(gathered, batch[pos]) \in Seq(Intents)
          /\ Append(ran, batch[pos]) \in Seq(Intents)
      BY <2>1, <3>0
    <3>2. gathered' \in Seq(Intents) /\ ran' \in Seq(Intents)
      BY <2>2, <3>0, <3>1
    <3>3. pos' \in Nat \ {0}
      BY <2>2, <3>0
    <3>4. QED
      BY <3>2, <3>3
  <2>4. ret' \subseteq {"acted", "stopped"}
    BY <1>9 DEF LeaveHelper
  <2>5. IsStack(stack')
    BY <1>9, PopTyped DEF LeaveHelper
  <2>6. sub' \in [name : {Agent} \cup Helpers, rest : Seq(Callees), message : Nat]
    BY <1>9, EmptySeq DEF LeaveHelper, NoSub
  <2>7. QED
    BY <1>9, <2>3, <2>4, <2>5, <2>6 DEF LeaveHelper
<1>10. CASE StartActions
  <2>1. live' \subseteq [index : DOMAIN deferred, inside : {Agent} \cup Helpers, calls : Nat]
    BY <1>10 DEF StartActions
  <2>2. QED
    BY <1>10, <2>1 DEF StartActions
<1>11. CASE EndBatch
  <2>1. results \o gathered \o deferred \in Seq(Intents)
    BY ConcatTyped
  <2>2. dpc' \in {"ok", "error"} /\ results' \in Seq(Intents)
    BY <1>11, <2>1 DEF EndBatch
  <2>3. QED
    BY <1>11, <2>2 DEF EndBatch
<1>12. ASSUME NEW a \in live, ActionDone(a) PROVE DispatchTypeOK'
  BY <1>12 DEF ActionDone
<1>13. ASSUME NEW a \in live, WorkflowFails(a) PROVE DispatchTypeOK'
  <2>1. a.index \in Nat
    BY LenProperties
  <2>2. QED
    BY <1>13, <2>1 DEF WorkflowFails
<1>14. ASSUME NEW a \in live, NEW h \in Transfers, WorkflowEntersHelper(a, h)
       PROVE DispatchTypeOK'
  <2>1. IsStack(stack')
    BY <1>14, PushTyped, TransfersAssumption
       DEF WorkflowEntersHelper, Push, Callees
  <2>2. [index |-> a.index, inside |-> h, calls |-> a.calls + 1]
           \in [index : DOMAIN deferred, inside : {Agent} \cup Helpers, calls : Nat]
    BY TransfersAssumption
  <2>3. QED
    BY <1>14, <2>1, <2>2 DEF WorkflowEntersHelper
<1>15. ASSUME NEW a \in live, NEW outcome \in Outcomes, WorkflowLeavesHelper(a, outcome)
       PROVE DispatchTypeOK'
  <2>1. IsStack(stack')
    BY <1>15, PopTyped DEF WorkflowLeavesHelper
  <2>2. [a EXCEPT !.inside = Agent]
           \in [index : DOMAIN deferred, inside : {Agent} \cup Helpers, calls : Nat]
    OBVIOUS
  <2>3. failed' \subseteq Nat
    BY <1>15, LenProperties DEF WorkflowLeavesHelper
  <2>4. live' \subseteq [index : DOMAIN deferred, inside : {Agent} \cup Helpers, calls : Nat]
    BY <1>15, <2>2 DEF WorkflowLeavesHelper
  <2>5. QED
    BY <1>15, <2>1, <2>3, <2>4 DEF WorkflowLeavesHelper
<1>16. QED
  BY <1>1, <1>2, <1>3, <1>4, <1>5, <1>6, <1>7, <1>8, <1>9, <1>10, <1>11,
     <1>12, <1>13, <1>14, <1>15 DEF DispatchStep

LEMMA DispatchTypes ==
    ASSUME NEW b \in Seq(Intents), Dispatch(b)
    PROVE  BatchTypeOK'
BY EmptySeq DEF Dispatch, BatchTypeOK, NoSub

LEMMA ReleaseTypes ==
    ASSUME Release
    PROVE  BatchTypeOK'
BY EmptySeq DEF Release, BatchTypeOK, NoSub

LEMMA SameBatchTypes ==
    ASSUME BatchTypeOK, UNCHANGED batchVars
    PROVE  BatchTypeOK'
BY DEF BatchTypeOK, batchVars

LEMMA SameEngineTypes ==
    ASSUME EngineTypeOK, UNCHANGED engineVars
    PROVE  EngineTypeOK'
BY DEF EngineTypeOK, engineVars

LEMMA SameDispatchTypes ==
    ASSUME DispatchTypeOK, UNCHANGED dispatchVars
    PROVE  DispatchTypeOK'
BY SameBatchTypes, SameEngineTypes
   DEF DispatchTypeOK, dispatchVars, batchVars, engineVars

LEMMA BatchesTyped == Batches \cup {<<>>} \subseteq Seq(Intents)
BY BoundedSeqTyped, BoundsAssumption, EmptySeq DEF Batches

LEMMA RecordedTyped ==
    ASSUME RunTypeOK
    PROVE  Answered \in Seq(Turn) /\ Recorded \in Seq(Turn) /\ GivenUp \in Seq(Turn)
<1> turns \in Seq(Turn) /\ calls \in Seq(Intents)
  BY DEF RunTypeOK
<1>1. Answered \in Seq(Turn)
  BY SetResponseTyped DEF Answered, ResponseKinds
<1>2. Recorded \in Seq(Turn)
  BY <1>1, SetNativeCallsTyped DEF Recorded
<1>3. GivenUp \in Seq(Turn)
  BY GiveUpTyped DEF GivenUp
<1>4. QED
  BY <1>1, <1>2, <1>3

LEMMA LimitsTyped ==
    /\ MaxForce \in Nat /\ MaxEmpty \in Nat
    /\ MaxRuns \in Nat \ {0} /\ MaxLoops \in Nat \ {0} /\ MaxHeard \in Nat \ {0}
BY LimitsAssumption, BoundsAssumption

(* The actions before the request. *)
LEMMA StartTypes ==
    ASSUME TypeOK, RejectRun \/ StartRun
    PROVE  TypeOK'
<1> USE DEF TypeOK, DispatchTypeOK
<1>1. CASE RejectRun
  <2>1. RunTypeOK'
    BY <1>1, LimitsTyped DEF RejectRun, RunTypeOK
  <2>2. BatchTypeOK'
    BY <1>1, SameBatchTypes DEF RejectRun
  <2>3. PICK s \in InitialStacks \cup {OwnStack} : stack' = s /\ ff' = Path(s)
    BY <1>1 DEF RejectRun
  <2>4. IsStack(s)
    BY StacksAssumption, OwnStackTyped DEF EngineTypeOK
  <2>5. EngineTypeOK'
    BY <1>1, <2>3, <2>4, PathTyped DEF RejectRun, EngineTypeOK
  <2>6. QED
    BY <2>1, <2>2, <2>5
<1>2. CASE StartRun
  <2>1. PICK s \in InitialStacks \cup {OwnStack}, input \in Inputs, kept \in {turns, <<>>} :
          /\ stack' = s /\ ff' = Path(s)
          /\ message' = Heard(input, s)
          /\ turns' = IF input = "given" /\ Path(s) = <<>>
                        THEN StartTurn(kept, "user") ELSE kept
    BY <1>2 DEF StartRun
  <2>2. IsStack(s)
    BY StacksAssumption, OwnStackTyped DEF EngineTypeOK
  <2>3. turns' \in Seq(Turn)
    BY <2>1, StartTyped, EmptySeq DEF RunTypeOK, InputKinds
  <2>4. RunTypeOK'
    BY <1>2, <2>3, LimitsTyped DEF StartRun, RunTypeOK
  <2>5. BatchTypeOK'
    BY <1>2, SameBatchTypes DEF StartRun
  <2>6. message' \in Nat
    BY <2>1, LimitsTyped DEF Heard, RunTypeOK, EngineTypeOK
  <2>7. EngineTypeOK'
    BY <1>2, <2>1, <2>2, <2>6, PathTyped, EmptySeq DEF StartRun, EngineTypeOK
  <2>8. QED
    BY <2>4, <2>5, <2>7
<1>3. QED
  BY <1>1, <1>2

LEMMA TopTypes ==
    ASSUME TypeOK, Teleport \/ Top \/ TeleportReturns \/ LlmStart
    PROVE  TypeOK'
<1> USE DEF TypeOK, DispatchTypeOK
<1>1. CASE Teleport
  <2>1. <<[kind |-> "helper", name |-> ff[1]]>> \in Seq(Intents)
    <3>1. ff[1] \in Callees
      BY <1>1, TailTyped DEF Teleport, EngineTypeOK
    <3>2. [kind |-> "helper", name |-> ff[1]] \in Intents
      BY <3>1 DEF Intents
    <3>3. QED
      BY <3>2
  <2>2. BatchTypeOK'
    BY <1>1, <2>1, DispatchTypes DEF Teleport, Call
  <2>3. RunTypeOK'
    BY <1>1, LimitsTyped DEF Teleport, Call, ResetRound, AtMost, RunTypeOK
  <2>4. EngineTypeOK'
    BY <1>1, EmptySeq DEF Teleport, ResetRound, EngineTypeOK
  <2>5. QED
    BY <2>2, <2>3, <2>4
<1>2. CASE Top
  <2>1. RunTypeOK'
    BY <1>2, LimitsTyped DEF Top, ResetRound, AtMost, RunTypeOK
  <2>2. BatchTypeOK'
    BY <1>2, SameBatchTypes DEF Top
  <2>3. EngineTypeOK'
    BY <1>2, EmptySeq DEF Top, ResetRound, EngineTypeOK
  <2>4. QED
    BY <2>1, <2>2, <2>3
<1>3. CASE TeleportReturns
  <2>1. turns' \in Seq(Turn)
    BY <1>3, RecordedTyped, StartResultsTyped
       DEF TeleportReturns, RunTypeOK, EngineTypeOK
  <2>2. did' \subseteq {"acted", "stopped"}
    BY <1>3 DEF TeleportReturns, BatchTypeOK
  <2>3. RunTypeOK'
    BY <1>3, <2>1, <2>2 DEF TeleportReturns, RunTypeOK
  <2>4. BatchTypeOK'
    BY <1>3, ReleaseTypes DEF TeleportReturns
  <2>5. EngineTypeOK'
    BY <1>3, SameEngineTypes DEF TeleportReturns
  <2>6. QED
    BY <2>3, <2>4, <2>5
<1>4. CASE LlmStart
  <2>1. PICK s \in InitialStacks \cup {stack} :
          stack' = s /\ (ff' = Path(s) \/ ff' = ff)
    BY <1>4 DEF LlmStart
  <2>2. IsStack(s)
    BY StacksAssumption DEF EngineTypeOK
  <2>3. EngineTypeOK'
    BY <1>4, <2>1, <2>2, PathTyped DEF LlmStart, EngineTypeOK
  <2>4. BatchTypeOK'
    BY <1>4, SameBatchTypes DEF LlmStart
  <2>5. RunTypeOK'
    BY <1>4 DEF LlmStart, RunTypeOK
  <2>6. QED
    BY <2>3, <2>4, <2>5
<1>5. QED
  BY <1>1, <1>2, <1>3, <1>4

(* The request. *)
LEMMA OpenTypes ==
    ASSUME TypeOK,
           OpenOk \/ OpenNoDriver \/ Propagate \/ Swallow \/ RetryTurn \/ RetryRun
    PROVE  TypeOK'
<1> USE DEF TypeOK, DispatchTypeOK
<1>1. CASE OpenOk
  <2>1. RunTypeOK'
    BY <1>1, LimitsTyped, EmptySeq DEF OpenOk, RunTypeOK
  <2>2. QED
    BY <1>1, <2>1, SameDispatchTypes DEF OpenOk
<1>2. CASE OpenNoDriver
  <2>1. RunTypeOK'
    BY <1>2 DEF OpenNoDriver, RunTypeOK
  <2>2. QED
    BY <1>2, <2>1, SameDispatchTypes DEF OpenNoDriver
<1>3. CASE Propagate
  <2>1. turns' \in Seq(Turn)
    BY <1>3, SetResponseTyped DEF Propagate, RunTypeOK, ResponseKinds
  <2>2. RunTypeOK'
    BY <1>3, <2>1, LimitsTyped DEF Propagate, OpenFails, AtMost, RunTypeOK
  <2>3. BatchTypeOK'
    BY <1>3, SameBatchTypes DEF Propagate, OpenFails
  <2>4. EngineTypeOK'
    BY <1>3, SameEngineTypes DEF Propagate, OpenFails, engineVars
  <2>5. QED
    BY <2>2, <2>3, <2>4
<1>4. CASE Swallow
  <2>1. turns' \in Seq(Turn)
    BY <1>4, RecordedTyped DEF Swallow
  <2>2. RunTypeOK'
    BY <1>4, <2>1, LimitsTyped DEF Swallow, OpenFails, AtMost, RunTypeOK
  <2>3. BatchTypeOK'
    BY <1>4, SameBatchTypes DEF Swallow, OpenFails
  <2>4. EngineTypeOK'
    BY <1>4, SameEngineTypes DEF Swallow, OpenFails, engineVars
  <2>5. QED
    BY <2>2, <2>3, <2>4
<1>5. CASE RetryTurn
  <2>1. turns' \in Seq(Turn)
    BY <1>5, PopLastIfEmptyTyped DEF RetryTurn, RunTypeOK
  <2>2. RunTypeOK'
    BY <1>5, <2>1, LimitsTyped
       DEF RetryTurn, OpenFails, CountRetry, RetryOverrides, AtMost, RunTypeOK
  <2>3. BatchTypeOK'
    BY <1>5, SameBatchTypes DEF RetryTurn, OpenFails
  <2>4. EngineTypeOK'
    BY <1>5, EmptySeq DEF RetryTurn, OpenFails, EngineTypeOK
  <2>5. QED
    BY <2>2, <2>3, <2>4
<1>6. CASE RetryRun
  <2>1. turns' \in Seq(Turn)
    BY <1>6, EmptySeq DEF RetryRun, RunTypeOK
  <2>2. RunTypeOK'
    BY <1>6, <2>1, LimitsTyped
       DEF RetryRun, OpenFails, CountRetry, RetryOverrides, AtMost, RunTypeOK
  <2>3. BatchTypeOK'
    BY <1>6, SameBatchTypes DEF RetryRun, OpenFails
  <2>4. IsStack(stack')
    <3>1. IsStack(<<>>)
      BY EmptySeq DEF IsStack
    <3>2. stack' = <<>> \/ stack' = stack
      BY <1>6 DEF RetryRun
    <3>3. QED
      BY <3>1, <3>2 DEF EngineTypeOK
  <2>5. EngineTypeOK'
    BY <1>6, <2>4, EmptySeq DEF RetryRun, OpenFails, EngineTypeOK
  <2>6. QED
    BY <2>2, <2>3, <2>5
<1>7. QED
  BY <1>1, <1>2, <1>3, <1>4, <1>5, <1>6

(* The stream. *)
LEMMA StreamTypes ==
    ASSUME TypeOK,
           \/ Text \/ NativeCall \/ Structured \/ StreamError
           \/ StreamEnds \/ BatchFails \/ BatchReturns
    PROVE  TypeOK'
<1> USE DEF TypeOK, DispatchTypeOK
<1>1. CASE Text
  <2>1. RunTypeOK'
    BY <1>1, LimitsTyped DEF Text, Hear, RunTypeOK
  <2>2. BatchTypeOK'
    BY <1>1, SameBatchTypes DEF Text
  <2>3. EngineTypeOK'
    BY <1>1 DEF Text, EngineTypeOK
  <2>4. QED
    BY <2>1, <2>2, <2>3
<1>2. CASE NativeCall
  <2>1. RunTypeOK'
    BY <1>2, LimitsTyped DEF NativeCall, Call, Hear, RunTypeOK
  <2>2. \A i \in Intents : <<i>> \in Seq(Intents)
    OBVIOUS
  <2>3. BatchTypeOK'
    BY <1>2, <2>2, DispatchTypes DEF NativeCall, Call
  <2>4. EngineTypeOK'
    BY <1>2, SameEngineTypes DEF NativeCall
  <2>5. QED
    BY <2>1, <2>3, <2>4
<1>3. CASE Structured
  <2>1. RunTypeOK'
    BY <1>3, LimitsTyped DEF Structured, Call, Hear, RunTypeOK
  <2>2. [kind |-> "response", name |-> Agent] \in Intents
    BY DEF Intents
  <2>3. <<[kind |-> "response", name |-> Agent]>> \in Seq(Intents)
    BY <2>2
  <2>4. BatchTypeOK'
    BY <1>3, <2>3, DispatchTypes DEF Structured, Call
  <2>5. EngineTypeOK'
    BY <1>3, SameEngineTypes DEF Structured
  <2>6. QED
    BY <2>1, <2>4, <2>5
<1>4. CASE StreamError
  <2>1. turns' \in Seq(Turn)
    BY <1>4, SetResponseTyped DEF StreamError, RunTypeOK, ResponseKinds
  <2>2. RunTypeOK'
    BY <1>4, <2>1 DEF StreamError, RunTypeOK
  <2>3. QED
    BY <1>4, <2>2, SameDispatchTypes DEF StreamError
<1>5. CASE StreamEnds
  <2>1. RunTypeOK'
    BY <1>5 DEF StreamEnds, Call, RunTypeOK
  <2>2. BatchTypeOK'
    BY <1>5, BatchesTyped, DispatchTypes DEF StreamEnds, Call
  <2>3. EngineTypeOK'
    BY <1>5, SameEngineTypes DEF StreamEnds
  <2>4. QED
    BY <2>1, <2>2, <2>3
<1>6. CASE BatchFails
  <2>1. turns' \in Seq(Turn)
    BY <1>6, RecordedTyped DEF BatchFails
  <2>2. RunTypeOK'
    BY <1>6, <2>1 DEF BatchFails, RunTypeOK
  <2>3. BatchTypeOK'
    BY <1>6, ReleaseTypes DEF BatchFails
  <2>4. EngineTypeOK'
    BY <1>6, SameEngineTypes DEF BatchFails
  <2>5. QED
    BY <2>2, <2>3, <2>4
<1>7. CASE BatchReturns
  <2>1. turns' \in Seq(Turn)
    BY <1>7, RecordedTyped DEF BatchReturns, RunTypeOK
  <2>2. calls' \in Seq(Intents)
    <3>1. calls \in Seq(Intents) /\ batch \in Seq(Intents)
      BY DEF RunTypeOK, BatchTypeOK
    <3>2. calls' = calls \/ calls' = calls \o batch
      BY <1>7 DEF BatchReturns
    <3>3. QED
      BY <3>1, <3>2, ConcatTyped
  <2>3. did' \subseteq {"acted", "stopped"} /\ pc' \in {"leaving", "stream"}
    BY <1>7 DEF BatchReturns, RunTypeOK, BatchTypeOK
  <2>4. RunTypeOK'
    BY <1>7, <2>1, <2>2, <2>3 DEF BatchReturns, RunTypeOK
  <2>5. BatchTypeOK'
    BY <1>7, ReleaseTypes DEF BatchReturns
  <2>6. EngineTypeOK'
    BY <1>7, SameEngineTypes DEF BatchReturns
  <2>7. QED
    BY <2>4, <2>5, <2>6
<1>8. QED
  BY <1>1, <1>2, <1>3, <1>4, <1>5, <1>6, <1>7

(* What follows the stream, and the end of the run. *)
LEMMA DrainedTypes ==
    ASSUME TypeOK, Drained
    PROVE  BatchTypeOK' /\ EngineTypeOK' /\ did' \subseteq {"acted", "stopped"}
<1> USE DEF TypeOK, DispatchTypeOK
<1>1. BatchTypeOK'
  BY ReleaseTypes DEF Drained
<1>2. EngineTypeOK'
  BY DEF Drained, EngineTypeOK
<1>3. did' \subseteq {"acted", "stopped"}
  BY DEF Drained, RunTypeOK, BatchTypeOK
<1>4. QED
  BY <1>1, <1>2, <1>3

LEMMA EndTypes ==
    ASSUME TypeOK, RetryEmpty \/ EndRound \/ NextRound \/ Finish \/ Fail
    PROVE  TypeOK'
<1> USE DEF TypeOK, DispatchTypeOK
<1>1. CASE RetryEmpty
  <2>1. RunTypeOK'
    BY <1>1, LimitsTyped, DrainedTypes, RecordedTyped
       DEF RetryEmpty, Drained, RunTypeOK
  <2>2. QED
    BY <1>1, <2>1, DrainedTypes DEF RetryEmpty
<1>2. CASE EndRound
  <2>1. turns' \in Seq(Turn)
    BY <1>2, RecordedTyped, SetResponseIfNoneTyped DEF EndRound, ResponseKinds
  <2>2. RunTypeOK'
    BY <1>2, <2>1, LimitsTyped, DrainedTypes
       DEF EndRound, Drained, Counted, RunTypeOK
  <2>3. QED
    BY <1>2, <2>2, DrainedTypes DEF EndRound
<1>3. CASE NextRound
  <2>1. turns' \in Seq(Turn)
    BY <1>3, RecordedTyped, AppendNativeResultsTyped, StartTyped, StartResultsTyped
       DEF NextRound, InputKinds, EngineTypeOK
  <2>2. RunTypeOK'
    BY <1>3, <2>1, LimitsTyped, DrainedTypes
       DEF NextRound, Drained, Counted, RunTypeOK
  <2>3. QED
    BY <1>3, <2>2, DrainedTypes DEF NextRound
<1>4. CASE Finish
  <2>1. RunTypeOK'
    BY <1>4, LimitsTyped, EmptySeq DEF Finish, Return, RunTypeOK
  <2>2. QED
    BY <1>4, <2>1, SameDispatchTypes DEF Finish, Return
<1>5. CASE Fail
  <2>1. turns' \in Seq(Turn)
    BY <1>5, SetResponseIfNoneTyped DEF Fail, RunTypeOK, ResponseKinds
  <2>2. RunTypeOK'
    BY <1>5, <2>1, LimitsTyped, EmptySeq DEF Fail, Return, RunTypeOK
  <2>3. QED
    BY <1>5, <2>2, SameDispatchTypes DEF Fail, Return
<1>6. QED
  BY <1>1, <1>2, <1>3, <1>4, <1>5

LEMMA MovesTypes ==
    ASSUME TypeOK, HelperInv, DispatchMoves
    PROVE  TypeOK'
<1>1. RunTypeOK'
  BY DEF DispatchMoves, TypeOK, RunTypeOK, runVars
<1>2. DispatchTypeOK'
  BY DispatchTyped DEF DispatchMoves, TypeOK
<1>3. QED
  BY <1>1, <1>2 DEF TypeOK

(* Outside process_intents, a step calls it, leaves it or does not touch it. *)
LEMMA BatchSteps ==
    ASSUME [Next]_vars
    PROVE  DispatchMoves \/ Release \/ UNCHANGED batchVars \/ \E b : Dispatch(b)
<1> USE DEF batchVars, dispatchVars
<1>1. CASE RejectRun \/ StartRun
  BY <1>1 DEF RejectRun, StartRun
<1>2. CASE Teleport \/ Top \/ TeleportReturns \/ LlmStart
  BY <1>2 DEF Teleport, Call, Top, TeleportReturns, LlmStart
<1>3. CASE OpenOk \/ OpenNoDriver \/ Propagate \/ Swallow \/ RetryTurn \/ RetryRun
  BY <1>3 DEF OpenOk, OpenNoDriver, Propagate, Swallow, RetryTurn, RetryRun, OpenFails
<1>4. CASE Text \/ NativeCall \/ Structured \/ StreamError
           \/ StreamEnds \/ BatchFails \/ BatchReturns
  BY <1>4 DEF Text, NativeCall, Structured, StreamError, StreamEnds,
     BatchFails, BatchReturns, Call
<1>5. CASE RetryEmpty \/ EndRound \/ NextRound \/ Finish \/ Fail
  BY <1>5 DEF RetryEmpty, EndRound, NextRound, Drained, Finish, Fail, Return
<1>6. CASE DispatchMoves
  BY <1>6
<1>7. CASE UNCHANGED vars
  BY <1>7 DEF vars
<1>8. QED
  BY <1>1, <1>2, <1>3, <1>4, <1>5, <1>6, <1>7 DEF Next, RunStep

LEMMA HelperKept ==
    ASSUME HelperInv, [Next]_vars
    PROVE  HelperInv'
<1> USE DEF HelperInv
<1>1. CASE Release \/ \E b : Dispatch(b)
  BY <1>1 DEF Release, Dispatch
<1>2. CASE UNCHANGED batchVars
  BY <1>2 DEF batchVars
<1>3. CASE DispatchMoves
  <2>1. CASE DropResponse \/ Respond \/ Custom \/ Skip \/ Override \/ Defer
    BY <2>1 DEF DropResponse, Respond, Custom, Skip, Override, Defer, Take, At
  <2>2. CASE EnterHelper \/ EnterStranger
    BY <2>2 DEF EnterHelper, EnterStranger, At
  <2>3. ASSUME NEW outcome \in Outcomes, LeaveHelper(outcome) PROVE HelperInv'
    BY <2>3 DEF LeaveHelper
  <2>4. CASE StartActions \/ EndBatch
    BY <2>4 DEF StartActions, EndBatch
  <2>5. ASSUME NEW a \in live,
               \/ ActionDone(a) \/ WorkflowFails(a)
               \/ \E h \in Transfers : WorkflowEntersHelper(a, h)
               \/ \E outcome \in Outcomes : WorkflowLeavesHelper(a, outcome)
        PROVE  HelperInv'
    BY <2>5 DEF ActionDone, WorkflowFails, WorkflowEntersHelper, WorkflowLeavesHelper
  <2>6. QED
    BY <1>3, <2>1, <2>2, <2>3, <2>4, <2>5 DEF DispatchMoves, DispatchStep
<1>4. QED
  BY <1>1, <1>2, <1>3, BatchSteps

(* The initial state has the types. *)
LEMMA InitTypes == Init => TypeOK /\ HelperInv
BY LimitsTyped, EmptySeq
   DEF Init, DispatchInit, TypeOK, RunTypeOK, DispatchTypeOK, BatchTypeOK,
       EngineTypeOK, HelperInv, NoSub, IsStack

(* Every step keeps them. *)
LEMMA NextTypes ==
    ASSUME TypeOK, HelperInv, [Next]_vars
    PROVE  TypeOK' /\ HelperInv'
<1>1. CASE UNCHANGED vars
  <2>1. RunTypeOK'
    BY <1>1 DEF vars, TypeOK, RunTypeOK
  <2>2. DispatchTypeOK'
    BY <1>1, SameDispatchTypes DEF vars, TypeOK
  <2>3. QED
    BY <2>1, <2>2, HelperKept DEF TypeOK
<1>2. CASE Next
  BY <1>2, StartTypes, TopTypes, OpenTypes, StreamTypes, EndTypes, MovesTypes,
     HelperKept DEF Next, RunStep
<1>3. QED
  BY <1>1, <1>2

(* Whatever models, hosts and helpers do, every variable keeps its type: the *)
(* counters stay within their limits, the stack is one a session may have,  *)
(* a turn is one a session may hold.                                       *)
THEOREM TypeCorrect == Spec => []TypeOK
<1>1. Init => TypeOK /\ HelperInv
  BY InitTypes
<1>2. (TypeOK /\ HelperInv) /\ [Next]_vars => (TypeOK /\ HelperInv)'
  BY NextTypes
<1>3. QED
  BY <1>1, <1>2, PTL DEF Spec

-----------------------------------------------------------------------------
(* The way to a suspended helper. *)

(* Whoever awaits process_intents waits in "dispatch"; the actions of a     *)
(* batch run after it was read.                                            *)
Places ==
    /\ pc # "dispatch" => dpc = "idle"
    /\ live # {} => dpc = "actions"

(* What a teleport hands to process_intents is the call of the next helper. *)
TeleportBatch ==
    pc = "dispatch" /\ back = "teleport" =>
        /\ Len(batch) = 1 /\ batch[1].kind = "helper"
        /\ ff # <<>> => batch[1].name = ff[1]
        /\ dpc = "intents" /\ pos = 1 => ff # <<>>
        /\ deferred = <<>> /\ live = {}

(* The path is walked before the model is called, and consumed on entry. *)
OffPath ==
    /\ pc \in {"llm_start", "open", "stream", "leaving"} => ff = <<>>
    /\ pc = "dispatch" /\ back # "teleport" => ff = <<>>
    /\ dpc = "helper" => ff = <<>>

(* The path ends where the stack ends. *)
PathEnds == ff # <<>> => stack # <<>> /\ Last(stack) = Last(ff)

PathInv ==
    /\ Places /\ TeleportBatch /\ OffPath /\ PathEnds /\ RunningHelperIsOnTop

LEMMA LastOfPath ==
    ASSUME NEW s, IsStack(s), Path(s) # <<>>
    PROVE  s # <<>> /\ Last(Path(s)) = Last(s)
<1>1. s \in Seq(Names) /\ Len(s) > 1 /\ Path(s) = Tail(s)
  BY DEF IsStack, Path
<1>2. s # <<>> /\ Len(s) \in Nat
  BY <1>1, EmptySeq, LenProperties
<1>3. Len(Tail(s)) = Len(s) - 1 /\ \A i \in 1..Len(Tail(s)) : Tail(s)[i] = s[i + 1]
  BY <1>1, <1>2, HeadTailProperties
<1>4. QED
  BY <1>1, <1>2, <1>3 DEF Last

LEMMA LastOfPush ==
    ASSUME NEW S, NEW s \in Seq(S), NEW h \in S
    PROVE  Append(s, h) # <<>> /\ Last(Append(s, h)) = h
BY DEF Last

(* A batch that no teleport called starts off the path. *)
LEMMA DispatchPath ==
    ASSUME PathInv, NEW b, Call(b, back'), back' # "teleport",
           pc \in {"stream", "leaving"}, ff' = ff, stack' = stack
    PROVE  PathInv'
BY DEF Call, Dispatch, PathInv, Places, TeleportBatch, OffPath, PathEnds,
       RunningHelperIsOnTop

LEMMA StartPath ==
    ASSUME TypeOK, PathInv, RejectRun \/ StartRun
    PROVE  PathInv'
<1>1. PICK s : s \in InitialStacks \cup {OwnStack} /\ stack' = s /\ ff' = Path(s)
  BY DEF RejectRun, StartRun
<1>2. IsStack(s)
  BY <1>1, StacksAssumption, OwnStackTyped DEF TypeOK, DispatchTypeOK, EngineTypeOK
<1>3. PathEnds'
  BY <1>1, <1>2, LastOfPath DEF PathEnds
<1>4. pc = "idle" /\ pc' \in {"idle", "top"} /\ dpc' = dpc /\ live' = live
  BY DEF RejectRun, StartRun, batchVars
<1>5. QED
  BY <1>3, <1>4
     DEF PathInv, Places, TeleportBatch, OffPath, RunningHelperIsOnTop

LEMMA TopPath ==
    ASSUME TypeOK, PathInv, Teleport \/ Top \/ TeleportReturns \/ LlmStart
    PROVE  PathInv'
<1> USE DEF PathInv
<1>1. CASE Teleport
  <2>1. /\ batch' = <<[kind |-> "helper", name |-> ff[1]]>> /\ pos' = 1
        /\ deferred' = <<>> /\ live' = {} /\ dpc' = "intents"
        /\ pc' = "dispatch" /\ back' = "teleport"
        /\ ff # <<>> /\ ff' = ff /\ stack' = stack
    BY <1>1 DEF Teleport, Call, Dispatch
  <2>2. Len(batch') = 1 /\ batch'[1] = [kind |-> "helper", name |-> ff[1]]
    BY <2>1
  <2>3. QED
    BY <2>1, <2>2
       DEF Places, TeleportBatch, OffPath, PathEnds, RunningHelperIsOnTop
<1>2. CASE Top
  <2>1. /\ pc = "top" /\ ff = <<>> /\ ff' = ff /\ stack' = stack
        /\ pc' \in {"llm_start", "open"}
        /\ dpc' = dpc /\ live' = live
    BY <1>2 DEF Top, batchVars
  <2>2. QED
    BY <2>1 DEF Places, TeleportBatch, OffPath, PathEnds, RunningHelperIsOnTop
<1>3. CASE TeleportReturns
  <2>1. /\ ff' = ff /\ stack' = stack /\ dpc' = "idle" /\ live' = {}
        /\ pc' \in {"fail", "finish", "top"}
    BY <1>3 DEF TeleportReturns, Release, engineVars
  <2>2. QED
    BY <2>1 DEF Places, TeleportBatch, OffPath, PathEnds, RunningHelperIsOnTop
<1>4. CASE LlmStart
  <2>1. PICK s \in InitialStacks \cup {stack} :
          /\ stack' = s
          /\ \/ Path(s) # <<>> /\ ff' = Path(s) /\ pc' = "top"
             \/ ff' = ff /\ pc' = "open"
    BY <1>4 DEF LlmStart
  <2>2. IsStack(s)
    BY StacksAssumption DEF TypeOK, DispatchTypeOK, EngineTypeOK
  <2>3. pc = "llm_start" /\ ff = <<>> /\ dpc' = dpc /\ live' = live
    BY <1>4 DEF LlmStart, batchVars, OffPath
  <2>4. PathEnds'
    BY <2>1, <2>2, <2>3, LastOfPath DEF PathEnds
  <2>5. QED
    BY <2>1, <2>3, <2>4
       DEF Places, TeleportBatch, OffPath, RunningHelperIsOnTop
<1>5. QED
  BY <1>1, <1>2, <1>3, <1>4

LEMMA OpenPath ==
    ASSUME PathInv,
           OpenOk \/ OpenNoDriver \/ Propagate \/ Swallow \/ RetryTurn \/ RetryRun
    PROVE  PathInv'
<1>1. /\ pc = "open" /\ pc' \in {"stream", "fail", "finish", "top", "exhausted"}
      /\ ff' = ff /\ dpc' = dpc /\ live' = live
  BY DEF OpenOk, OpenNoDriver, Propagate, Swallow, RetryTurn, RetryRun, OpenFails,
         dispatchVars, batchVars
<1>2. QED
  BY <1>1 DEF PathInv, Places, TeleportBatch, OffPath, PathEnds, RunningHelperIsOnTop

LEMMA StreamPath ==
    ASSUME PathInv,
           \/ Text \/ NativeCall \/ Structured \/ StreamError
           \/ StreamEnds \/ BatchFails \/ BatchReturns
    PROVE  PathInv'
<1>1. CASE NativeCall \/ Structured \/ StreamEnds
  <2>1. /\ pc \in {"stream", "leaving"} /\ ff' = ff /\ stack' = stack
        /\ \E b : Call(b, back') /\ back' # "teleport"
    BY <1>1 DEF NativeCall, Structured, StreamEnds, Hear, Call, engineVars
  <2>2. QED
    BY <2>1, DispatchPath
<1>2. CASE Text \/ StreamError
  <2>1. /\ pc = "stream" /\ pc' \in {"stream", "fail"}
        /\ ff' = ff /\ stack' = stack /\ dpc' = dpc /\ live' = live
    BY <1>2 DEF Text, StreamError, Hear, dispatchVars, batchVars
  <2>2. QED
    BY <2>1 DEF PathInv, Places, TeleportBatch, OffPath, PathEnds, RunningHelperIsOnTop
<1>3. CASE BatchFails \/ BatchReturns
  <2>1. /\ pc = "dispatch" /\ back # "teleport"
        /\ pc' \in {"fail", "leaving", "stream"}
        /\ ff' = ff /\ stack' = stack /\ dpc' = "idle" /\ live' = {}
    BY <1>3 DEF BatchFails, BatchReturns, Returned, Release, engineVars
  <2>2. QED
    BY <2>1 DEF PathInv, Places, TeleportBatch, OffPath, PathEnds, RunningHelperIsOnTop
<1>4. QED
  BY <1>1, <1>2, <1>3

LEMMA EndPath ==
    ASSUME PathInv, RetryEmpty \/ EndRound \/ NextRound \/ Finish \/ Fail
    PROVE  PathInv'
<1>1. CASE RetryEmpty \/ EndRound \/ NextRound
  <2>1. /\ pc = "dispatch" /\ pc' \in {"top", "finish"}
        /\ ff' = ff /\ stack' = stack /\ dpc' = "idle" /\ live' = {}
    BY <1>1 DEF RetryEmpty, EndRound, NextRound, Drained, Returned, Release
  <2>2. QED
    BY <2>1 DEF PathInv, Places, TeleportBatch, OffPath, PathEnds, RunningHelperIsOnTop
<1>2. CASE Finish \/ Fail
  <2>1. /\ pc # "dispatch" /\ pc' = "idle"
        /\ ff' = ff /\ stack' = stack /\ dpc' = dpc /\ live' = live
    BY <1>2 DEF Finish, Fail, Return, dispatchVars
  <2>2. QED
    BY <2>1 DEF PathInv, Places, TeleportBatch, OffPath, PathEnds, RunningHelperIsOnTop
<1>3. QED
  BY <1>1, <1>2

(* Reading the batch without entering a helper leaves stack and path alone. *)
LEMMA ReadPath ==
    ASSUME TypeOK, PathInv, pc = "dispatch", UNCHANGED runVars,
           \/ DropResponse \/ Respond \/ Custom \/ Skip \/ Override \/ Defer
           \/ StartActions \/ EndBatch
    PROVE  PathInv'
<1> USE DEF PathInv
<1>0. pos \in Nat \ {0} /\ batch \in Seq(Intents)
  BY DEF TypeOK, DispatchTypeOK, BatchTypeOK
<1>1. CASE DropResponse \/ Respond \/ Custom \/ Skip \/ Override \/ Defer
  <2>1. /\ dpc = "intents" /\ dpc' = dpc /\ pos' = pos + 1 /\ pos <= Len(batch)
        /\ batch' = batch /\ live' = live
        /\ ff' = ff /\ stack' = stack /\ pc' = pc /\ back' = back
        /\ deferred' = deferred \/ batch[pos].kind \in {"tool", "workflow"}
    BY <1>1 DEF DropResponse, Respond, Custom, Skip, Override, Defer, Take, At,
       engineVars, runVars
  <2>2. back = "teleport" => pos = 1 /\ batch[pos].kind = "helper"
    <3>1. back = "teleport" => Len(batch) = 1 /\ batch[1].kind = "helper"
      BY DEF TeleportBatch
    <3>2. Len(batch) = 1 => pos = 1
      BY <1>0, <2>1
    <3>3. QED
      BY <3>1, <3>2
  <2>3. back = "teleport" => pos' # 1 /\ deferred' = deferred
    BY <2>1, <2>2
  <2>4. TeleportBatch'
    BY <2>1, <2>3 DEF TeleportBatch
  <2>5. QED
    BY <2>1, <2>4 DEF Places, OffPath, PathEnds, RunningHelperIsOnTop
<1>2. CASE StartActions
  <2>1. /\ dpc = "intents" /\ dpc' = "actions" /\ batch' = batch
        /\ deferred' = deferred /\ (deferred = <<>> => live' = {})
        /\ ff' = ff /\ stack' = stack /\ pc' = pc /\ back' = back
    BY <1>2, EmptySeq DEF StartActions, engineVars, runVars
  <2>2. QED
    BY <2>1 DEF Places, TeleportBatch, OffPath, PathEnds, RunningHelperIsOnTop
<1>3. CASE EndBatch
  <2>1. /\ dpc' \in {"ok", "error"} /\ live = {} /\ live' = live
        /\ batch' = batch /\ deferred' = deferred
        /\ ff' = ff /\ stack' = stack /\ pc' = pc /\ back' = back
    BY <1>3 DEF EndBatch, runVars
  <2>2. QED
    BY <2>1 DEF Places, TeleportBatch, OffPath, PathEnds, RunningHelperIsOnTop
<1>4. QED
  BY <1>1, <1>2, <1>3

(* A helper is entered from the path, or pushed when there is none. *)
LEMMA EnterPath ==
    ASSUME TypeOK, PathInv, pc = "dispatch", UNCHANGED runVars,
           EnterHelper \/ EnterStranger
    PROVE  PathInv'
<1> USE DEF PathInv
<1>0. pos \in Nat \ {0} /\ ff \in Seq(Callees) /\ stack \in Seq(Names)
  BY DEF TypeOK, DispatchTypeOK, BatchTypeOK, EngineTypeOK, IsStack
<1>1. /\ dpc = "intents" /\ pos <= Len(batch) /\ batch' = batch /\ pos' = pos
      /\ deferred' = deferred /\ live' = live
      /\ pc' = pc /\ back' = back
      /\ stack' = Push(batch[pos].name)
  BY DEF EnterHelper, EnterStranger, At, runVars
<1>2. ff # <<>> => back = "teleport" /\ pos = 1 /\ batch[pos].name = ff[1]
  BY <1>0, <1>1 DEF OffPath, TeleportBatch
<1>3. ff = <<>> => stack' # <<>> /\ Last(stack') = batch[pos].name
  <2>1. batch[pos] \in Intents /\ batch[pos].kind = "helper"
    BY <1>1, BatchIntent DEF TypeOK, EnterHelper, EnterStranger, At
  <2>2. batch[pos].name \in Names
    BY <2>1, CalleeNames DEF Names
  <2>3. ff = <<>> => stack' = Append(stack, batch[pos].name)
    BY <1>1 DEF Push
  <2>4. QED
    BY <1>0, <2>2, <2>3, LastOfPush
<1>4. CASE EnterHelper
  <2>1. /\ dpc' = "helper" /\ ff' = <<>> /\ sub'.name = batch[pos].name
        /\ sub'.rest = IF ff # <<>> THEN Tail(ff) ELSE <<>>
    BY <1>2, <1>4 DEF EnterHelper, PathAfter
  <2>2. ff # <<>> /\ Tail(ff) = <<>> => Last(ff) = ff[1]
    <3> SUFFICES ASSUME ff # <<>>, Tail(ff) = <<>> PROVE Len(ff) = 1
      BY DEF Last
    <3>1. Len(Tail(ff)) = Len(ff) - 1 /\ Len(ff) \in Nat
      BY <1>0, HeadTailProperties, LenProperties
    <3>2. Len(Tail(ff)) = 0
      BY EmptySeq
    <3>3. QED
      BY <3>1, <3>2
  <2>3. RunningHelperIsOnTop'
    BY <1>1, <1>2, <1>3, <2>1, <2>2 DEF PathEnds, RunningHelperIsOnTop, Push
  <2>4. QED
    BY <1>1, <2>1, <2>3 DEF Places, TeleportBatch, OffPath, PathEnds
<1>5. CASE EnterStranger
  <2>1. dpc' = "error" /\ ff' = ff
    BY <1>5 DEF EnterStranger
  <2>2. ff # <<>> => stack' = stack
    BY <1>1 DEF Push
  <2>3. QED
    BY <1>1, <2>1, <2>2
       DEF Places, TeleportBatch, OffPath, PathEnds, RunningHelperIsOnTop
<1>6. QED
  BY <1>4, <1>5

LEMMA LeavePath ==
    ASSUME TypeOK, PathInv, pc = "dispatch", UNCHANGED runVars,
           NEW outcome \in Outcomes, LeaveHelper(outcome)
    PROVE  PathInv'
<1>0. pos \in Nat \ {0}
  BY DEF TypeOK, DispatchTypeOK, BatchTypeOK
<1>1. /\ dpc = "helper" /\ dpc' \in {"error", "intents"}
      /\ dpc' = "intents" => pos' = pos + 1
      /\ batch' = batch /\ deferred' = deferred /\ live' = live
      /\ pc' = pc /\ back' = back /\ ff' = ff
  BY DEF LeaveHelper, runVars
<1>2. ff = <<>>
  BY <1>1 DEF PathInv, OffPath
<1>3. TeleportBatch'
  BY <1>0, <1>1 DEF PathInv, TeleportBatch
<1>4. QED
  BY <1>1, <1>2, <1>3
     DEF PathInv, Places, OffPath, PathEnds, RunningHelperIsOnTop

(* Workflows change the stack only where no path is left. *)
LEMMA ActionPath ==
    ASSUME PathInv, pc = "dispatch", UNCHANGED runVars, NEW a \in live,
           \/ ActionDone(a) \/ WorkflowFails(a)
           \/ \E h \in Transfers : WorkflowEntersHelper(a, h)
           \/ \E outcome \in Outcomes : WorkflowLeavesHelper(a, outcome)
    PROVE  PathInv'
<1>1. /\ dpc' = dpc /\ ff' = ff /\ batch' = batch /\ pos' = pos
      /\ pc' = pc /\ back' = back
  <2>1. CASE ActionDone(a) \/ WorkflowFails(a)
    BY <2>1 DEF ActionDone, WorkflowFails, engineVars, runVars
  <2>2. ASSUME NEW h \in Transfers, WorkflowEntersHelper(a, h)
        PROVE  UNCHANGED <<dpc, ff, batch, pos, pc, back>>
    BY <2>2 DEF WorkflowEntersHelper, runVars
  <2>3. ASSUME NEW outcome \in Outcomes, WorkflowLeavesHelper(a, outcome)
        PROVE  UNCHANGED <<dpc, ff, batch, pos, pc, back>>
    BY <2>3 DEF WorkflowLeavesHelper, runVars
  <2>4. QED
    BY <2>1, <2>2, <2>3
<1>2. dpc = "actions" /\ back # "teleport" /\ ff = <<>>
  BY DEF PathInv, Places, TeleportBatch, OffPath
<1>3. QED
  BY <1>1, <1>2
     DEF PathInv, Places, TeleportBatch, OffPath, PathEnds, RunningHelperIsOnTop

LEMMA NextPath ==
    ASSUME TypeOK, PathInv, [Next]_vars
    PROVE  PathInv'
<1>1. CASE DispatchMoves
  BY <1>1, ReadPath, EnterPath, LeavePath, ActionPath DEF DispatchMoves, DispatchStep
<1>2. CASE UNCHANGED vars
  BY <1>2 DEF vars, dispatchVars, PathInv, Places, TeleportBatch, OffPath, PathEnds,
     RunningHelperIsOnTop
<1>3. QED
  BY <1>1, <1>2, StartPath, TopPath, OpenPath, StreamPath, EndPath DEF Next, RunStep

LEMMA InitPath == Init => PathInv
BY DEF Init, DispatchInit, PathInv, Places, TeleportBatch, OffPath, PathEnds,
       RunningHelperIsOnTop

(* Whoever changed the stack in between, a session stored while a helper    *)
(* runs resumes in that helper: the stack ends in its name.                *)
THEOREM HelperOnTop == Spec => []RunningHelperIsOnTop
<1>1. Init => TypeOK /\ HelperInv /\ PathInv
  BY InitTypes, InitPath
<1>2. (TypeOK /\ HelperInv /\ PathInv) /\ [Next]_vars
        => (TypeOK /\ HelperInv /\ PathInv)'
  BY NextTypes, NextPath
<1>3. PathInv => RunningHelperIsOnTop
  BY DEF PathInv
<1>4. QED
  BY <1>1, <1>2, <1>3, PTL DEF Spec

-----------------------------------------------------------------------------
(* What a resumed helper hears. *)

(* Until the helper at the end of the path takes it, the message of this    *)
(* run waits; only the first round may find a path behind the hook.         *)
MessageInv ==
    /\ pc = "idle" => loops = 0
    /\ pc \notin {"idle", "top"} => loops > 0
    /\ ff # <<>> /\ pc # "idle" => message = runs
    /\ pc = "llm_start" => message = runs
    /\ pc = "top" /\ loops = 0 => message = runs
    /\ ResumedHearsUser

LEMMA EnterMessage ==
    ASSUME TypeOK, PathInv, MessageInv, pc = "dispatch", UNCHANGED runVars, EnterHelper
    PROVE  MessageInv'
<1>1. /\ pos \in Nat \ {0} /\ ff \in Seq(Callees)
      /\ dpc = "intents" /\ pos <= Len(batch) /\ dpc' = "helper"
      /\ pc' = pc /\ back' = back /\ runs' = runs /\ loops' = loops
  BY DEF TypeOK, DispatchTypeOK, BatchTypeOK, EngineTypeOK, EnterHelper, At, runVars
<1>2. back = "teleport" => ff # <<>> /\ batch[pos].name = ff[1]
  <2>1. back = "teleport" => Len(batch) = 1
    BY DEF PathInv, TeleportBatch
  <2>2. Len(batch) = 1 => pos = 1
    BY <1>1
  <2>3. QED
    BY <1>1, <2>1, <2>2 DEF PathInv, TeleportBatch
<1>3. ff' # <<>> => ff' = ff /\ back # "teleport"
  BY <1>2 DEF EnterHelper, PathAfter
<1>4. back # "teleport" => ff = <<>>
  BY DEF PathInv, OffPath
<1>5. ff' = <<>>
  BY <1>3, <1>4
<1>6. back = "teleport" /\ sub'.rest = <<>> => sub'.message = message
  <2>1. back = "teleport" => sub'.rest = Tail(ff)
                             /\ sub'.message = IF Len(ff) = 1 THEN message ELSE 0
    BY <1>2 DEF EnterHelper
  <2>2. ff # <<>> => Len(Tail(ff)) = Len(ff) - 1 /\ Len(ff) \in Nat
    BY <1>1, HeadTailProperties, LenProperties
  <2>3. ASSUME ff # <<>>, Tail(ff) = <<>> PROVE Len(ff) = 1
    <3>1. Len(Tail(ff)) = 0
      BY <2>3, EmptySeq
    <3>2. QED
      BY <2>2, <2>3, <3>1
  <2>4. QED
    BY <1>2, <2>1, <2>3
<1>7. back = "teleport" => message = runs
  BY <1>2 DEF MessageInv
<1>8. QED
  BY <1>1, <1>5, <1>6, <1>7 DEF MessageInv, ResumedHearsUser

(* Every other step of process_intents leaves the message where it is. *)
LEMMA MovesMessage ==
    ASSUME TypeOK, PathInv, MessageInv, DispatchMoves
    PROVE  MessageInv'
<1>0. pc = "dispatch" /\ UNCHANGED runVars
  BY DEF DispatchMoves
<1>1. CASE EnterHelper
  BY <1>0, <1>1, EnterMessage
<1>2. CASE ~EnterHelper
  <2>1. message' = message /\ ff' = ff /\ (dpc' # "helper" \/ (dpc' = dpc /\ sub' = sub))
    <3>1. CASE DropResponse \/ Respond \/ Custom \/ Skip \/ Override \/ Defer
               \/ EnterStranger \/ StartActions \/ EndBatch
      BY <3>1 DEF DropResponse, Respond, Custom, Skip, Override, Defer, EnterStranger,
         Take, At, StartActions, EndBatch, engineVars
    <3>2. ASSUME NEW outcome \in Outcomes, LeaveHelper(outcome)
          PROVE  message' = message /\ ff' = ff /\ dpc' # "helper"
      BY <3>2 DEF LeaveHelper
    <3>3. ASSUME NEW a \in live, ActionDone(a) \/ WorkflowFails(a)
          PROVE  message' = message /\ ff' = ff /\ dpc' = dpc /\ sub' = sub
      BY <3>3 DEF ActionDone, WorkflowFails, engineVars
    <3>4. ASSUME NEW a \in live, NEW h \in Transfers, WorkflowEntersHelper(a, h)
          PROVE  message' = message /\ ff' = ff /\ dpc' = dpc /\ sub' = sub
      BY <3>4 DEF WorkflowEntersHelper
    <3>5. ASSUME NEW a \in live, NEW outcome \in Outcomes, WorkflowLeavesHelper(a, outcome)
          PROVE  message' = message /\ ff' = ff /\ dpc' = dpc /\ sub' = sub
      BY <3>5 DEF WorkflowLeavesHelper
    <3>6. QED
      BY <1>2, <3>1, <3>2, <3>3, <3>4, <3>5 DEF DispatchMoves, DispatchStep
  <2>2. QED
    BY <1>0, <2>1 DEF runVars, MessageInv, ResumedHearsUser
<1>3. QED
  BY <1>1, <1>2

LEMMA NextMessage ==
    ASSUME TypeOK, PathInv, MessageInv, Inputs = {"given"}, [Next]_vars
    PROVE  MessageInv'
<1>0. /\ runs \in Nat /\ loops \in Nat /\ MaxLoops \in Nat \ {0}
      /\ pc # "dispatch" => dpc # "helper"
  BY LimitsTyped DEF TypeOK, RunTypeOK, PathInv, Places
<1> USE DEF MessageInv, ResumedHearsUser
<1>1. CASE RejectRun
  BY <1>0, <1>1 DEF RejectRun, batchVars
<1>2. CASE StartRun
  <2>1. message' = runs' /\ loops' = loops /\ loops = 0 /\ pc' = "top" /\ dpc' = dpc
    BY <1>2 DEF StartRun, Heard, batchVars
  <2>2. QED
    BY <1>0, <1>2, <2>1 DEF StartRun
<1>3. CASE Teleport
  BY <1>0, <1>3 DEF Teleport, Call, Dispatch, ResetRound, AtMost
<1>4. CASE Top
  BY <1>0, <1>4 DEF Top, ResetRound, AtMost, batchVars
<1>5. CASE TeleportReturns
  BY <1>0, <1>5 DEF TeleportReturns, Returned, Release, engineVars
<1>6. CASE LlmStart
  <2>1. /\ pc = "llm_start" /\ pc' \in {"top", "open"} /\ loops' = loops
        /\ message' = message /\ runs' = runs /\ dpc' = dpc
    BY <1>6 DEF LlmStart, batchVars
  <2>2. QED
    BY <1>0, <2>1
<1>7. CASE OpenOk \/ OpenNoDriver \/ Propagate \/ Swallow \/ RetryTurn \/ RetryRun
  <2>1. /\ pc = "open" /\ pc' \notin {"idle", "llm_start"} /\ ff' = ff
        /\ loops' = loops /\ message' = message /\ runs' = runs /\ dpc' = dpc
    BY <1>7 DEF OpenOk, OpenNoDriver, Propagate, Swallow, RetryTurn, RetryRun,
       OpenFails, dispatchVars, batchVars
  <2>2. QED
    BY <1>0, <2>1
<1>8. CASE NativeCall \/ Structured \/ StreamEnds
  <2>1. /\ pc \notin {"idle", "top"} /\ pc' = "dispatch" /\ ff' = ff /\ dpc' = "intents"
        /\ loops' = loops /\ message' = message /\ runs' = runs
    BY <1>8 DEF NativeCall, Structured, StreamEnds, Hear, Call, Dispatch, engineVars
  <2>2. QED
    BY <1>0, <2>1
<1>9. CASE Text \/ StreamError
  <2>1. /\ pc \notin {"idle", "top"} /\ pc' \in {"stream", "fail"} /\ ff' = ff /\ dpc' = dpc
        /\ loops' = loops /\ message' = message /\ runs' = runs
    BY <1>9 DEF Text, StreamError, Hear, dispatchVars, batchVars
  <2>2. QED
    BY <1>0, <2>1, <1>9 DEF Text, StreamError, Hear
<1>10. CASE BatchFails \/ BatchReturns
  <2>1. /\ pc = "dispatch" /\ pc' \in {"fail", "leaving", "stream"} /\ ff' = ff
        /\ dpc' = "idle" /\ loops' = loops /\ message' = message /\ runs' = runs
    BY <1>10 DEF BatchFails, BatchReturns, Returned, Release, engineVars
  <2>2. QED
    BY <1>0, <2>1
<1>11. CASE RetryEmpty \/ EndRound \/ NextRound
  <2>1. /\ pc = "dispatch" /\ pc' \in {"top", "finish"} /\ ff' = ff
        /\ dpc' = "idle" /\ loops' = loops /\ message' = message /\ runs' = runs
    BY <1>11 DEF RetryEmpty, EndRound, NextRound, Drained, Returned, Release
  <2>2. QED
    BY <1>0, <2>1
<1>12. CASE Finish \/ Fail
  <2>1. pc \notin {"dispatch"} /\ pc' = "idle" /\ loops' = 0 /\ dpc' = dpc
    BY <1>12 DEF Finish, Fail, Return, dispatchVars
  <2>2. QED
    BY <1>0, <2>1
<1>13. CASE DispatchMoves
  BY <1>13, MovesMessage
<1>14. CASE UNCHANGED vars
  BY <1>14 DEF vars, dispatchVars
<1>15. QED
  BY <1>1, <1>2, <1>3, <1>4, <1>5, <1>6, <1>7, <1>8, <1>9, <1>10, <1>11, <1>12,
     <1>13, <1>14 DEF Next, RunStep

LEMMA InitMessage == Init => MessageInv
BY DEF Init, DispatchInit, MessageInv, ResumedHearsUser

(* A helper that a run resumes, from a stored stack or one a hook put       *)
(* there, hears what the user said to this very run, if every run has an    *)
(* input.                                                                  *)
THEOREM ResumedHears ==
    ASSUME Inputs = {"given"}
    PROVE  Spec => []ResumedHearsUser
<1>1. Init => TypeOK /\ HelperInv /\ PathInv /\ MessageInv
  BY InitTypes, InitPath, InitMessage
<1>2. (TypeOK /\ HelperInv /\ PathInv /\ MessageInv) /\ [Next]_vars
        => (TypeOK /\ HelperInv /\ PathInv /\ MessageInv)'
  BY NextTypes, NextPath, NextMessage, Inputs = {"given"}
<1>3. MessageInv => ResumedHearsUser
  BY DEF MessageInv
<1>4. QED
  BY <1>1, <1>2, <1>3, PTL DEF Spec

-----------------------------------------------------------------------------
(* Retries. *)

(* Within a run the engine counts at least the failures in a row.  A new    *)
(* run starts with what the engine counted, so it may retry less often.     *)
RetryInv ==
    /\ RetriesBounded
    /\ pc = "idle" => failures = 0
    /\ pc \in {"top", "llm_start", "open", "stream", "dispatch", "leaving"}
         => failures <= force /\ failures <= MaxForce

(* What a hook asked for is held by the loop, the config excepted. *)
RouteInv == asked \ {"config"} \subseteq params

LEMMA NextRetry ==
    ASSUME TypeOK, RetryInv, RouteInv, [Next]_vars
    PROVE  RetryInv' /\ RouteInv'
<1>0. failures \in Nat /\ force \in Nat /\ MaxForce \in Nat
  BY LimitsTyped DEF TypeOK, RunTypeOK
<1> USE DEF RetryInv, RetriesBounded, RouteInv
<1>1. CASE RejectRun \/ StartRun
  BY <1>0, <1>1 DEF RejectRun, StartRun
<1>2. CASE Teleport \/ Top \/ TeleportReturns
  BY <1>0, <1>2 DEF Teleport, Call, Top, TeleportReturns, Returned
<1>3. CASE LlmStart
  <2>1. pc = "llm_start" /\ pc' \in {"top", "open"} /\ failures' = failures /\ force' = force
    BY <1>3 DEF LlmStart
  <2>2. RouteInv'
    BY <1>3 DEF LlmStart
  <2>3. QED
    BY <1>0, <2>1, <2>2
<1>4. CASE OpenOk \/ OpenNoDriver
  BY <1>0, <1>4 DEF OpenOk, OpenNoDriver
<1>5. CASE Propagate \/ Swallow
  BY <1>0, <1>5 DEF Propagate, Swallow, OpenFails, AtMost
<1>6. CASE RetryTurn \/ RetryRun
  <2>1. /\ pc = "open" /\ failures' = AtMost(failures + 1, MaxForce + 2)
        /\ force' = AtMost(force + 1, MaxForce + 1)
        /\ \/ force + 1 <= MaxForce /\ pc' = "top"
           \/ pc' = "exhausted"
    BY <1>6 DEF RetryTurn, RetryRun, OpenFails, CountRetry, Retries
  <2>2. RouteInv'
    BY <1>6 DEF RetryTurn, RetryRun, RetryOverrides
  <2>3. RetryInv'
    BY <1>0, <2>1 DEF AtMost
  <2>4. QED
    BY <2>2, <2>3
<1>7. CASE Text \/ NativeCall \/ Structured \/ StreamError
           \/ StreamEnds \/ BatchFails \/ BatchReturns
  BY <1>0, <1>7 DEF Text, NativeCall, Structured, StreamError, StreamEnds,
     BatchFails, BatchReturns, Call, Hear, Returned
<1>8. CASE RetryEmpty \/ EndRound \/ NextRound
  BY <1>0, <1>8 DEF RetryEmpty, EndRound, NextRound, Drained, Returned
<1>9. CASE Finish \/ Fail
  BY <1>0, <1>9 DEF Finish, Fail, Return
<1>10. CASE DispatchMoves \/ UNCHANGED vars
  BY <1>0, <1>10 DEF DispatchMoves, runVars, vars
<1>11. QED
  BY <1>1, <1>2, <1>3, <1>4, <1>5, <1>6, <1>7, <1>8, <1>9, <1>10 DEF Next, RunStep

LEMMA InitRetry == Init => RetryInv /\ RouteInv
BY LimitsTyped DEF Init, RetryInv, RetriesBounded, RouteInv

(* An error hook that always asks for a retry gets at most MaxForce of them *)
(* in a row, whatever earlier runs left in the counter.                    *)
THEOREM RetriesEnd == Spec => []RetriesBounded
<1>1. Init => TypeOK /\ HelperInv /\ RetryInv /\ RouteInv
  BY InitTypes, InitRetry
<1>2. (TypeOK /\ HelperInv /\ RetryInv /\ RouteInv) /\ [Next]_vars
        => (TypeOK /\ HelperInv /\ RetryInv /\ RouteInv)'
  BY NextTypes, NextRetry
<1>3. RetryInv => RetriesBounded
  BY DEF RetryInv
<1>4. QED
  BY <1>1, <1>2, <1>3, PTL DEF Spec

(* The provider, model, headers or key a hook asked for reach every later   *)
(* request of the run.                                                     *)
THEOREM RoutesKept == Spec => []RoutesReachTheModel
<1>1. Init => TypeOK /\ HelperInv /\ RetryInv /\ RouteInv
  BY InitTypes, InitRetry
<1>2. (TypeOK /\ HelperInv /\ RetryInv /\ RouteInv) /\ [Next]_vars
        => (TypeOK /\ HelperInv /\ RetryInv /\ RouteInv)'
  BY NextTypes, NextRetry
<1>3. RouteInv => RoutesReachTheModel
  BY DEF RouteInv, RoutesReachTheModel
<1>4. QED
  BY <1>1, <1>2, <1>3, PTL DEF Spec

-----------------------------------------------------------------------------
(* EngineRun implements Conversation.  First how the operators on turns    *)
(* change the thread of standings, then the invariants that tie text,      *)
(* results and the open question of a round together, one lemma per part   *)
(* of the loop that keeps them and simulates Conversation, the theorems.   *)

-----------------------------------------------------------------------------
(* How the operators on turns change the standing of the questions. *)

Standings == {"open", "left", "acted", "text", "marker", "error"}

Thread(ts) == [k \in DOMAIN ts |-> Standing(ts[k])]

Closed(t, how) == [t EXCEPT ![Len(t)] = how]

LEMMA StandingTyped ==
    ASSUME NEW turn \in Turn
    PROVE  Standing(turn) \in Standings
BY DEF Standing, Standings, Turn, ResponseKinds

LEMMA SameInterval ==
    ASSUME NEW m \in Nat, NEW n \in Nat, 1..m = 1..n
    PROVE  m = n
<1>1. CASE m < n
  <2>1. n \in 1..n /\ n \notin 1..m
    BY <1>1
  <2>2. QED
    BY <2>1
<1>2. CASE n < m
  <2>1. m \in 1..m /\ m \notin 1..n
    BY <1>2
  <2>2. QED
    BY <2>1
<1>3. QED
  BY <1>1, <1>2

LEMMA ThreadTyped ==
    ASSUME NEW ts \in Seq(Turn)
    PROVE  /\ Thread(ts) \in Seq(Standings)
           /\ Len(Thread(ts)) = Len(ts)
           /\ \A k \in 1..Len(ts) : Thread(ts)[k] = Standing(ts[k])
           /\ ts = <<>> <=> Thread(ts) = <<>>
           /\ ts # <<>> => Last(Thread(ts)) = Standing(Last(ts))
<1>1. Len(ts) \in Nat /\ DOMAIN ts = 1..Len(ts)
  BY LenProperties
<1>2. \A k \in 1..Len(ts) : ts[k] \in Turn
  BY ElementOfSeq
<1>3. Thread(ts) \in [1..Len(ts) -> Standings]
  BY <1>1, <1>2, StandingTyped DEF Thread
<1>4. Thread(ts) \in Seq(Standings)
  BY <1>1, <1>3, SeqDef
<1>5. Len(Thread(ts)) = Len(ts)
  <2>1. Len(Thread(ts)) \in Nat /\ DOMAIN Thread(ts) = 1..Len(Thread(ts))
    BY <1>4, LenProperties
  <2>2. 1..Len(Thread(ts)) = 1..Len(ts)
    BY <1>3, <2>1
  <2>3. QED
    BY <1>1, <2>1, <2>2, SameInterval
<1>6. \A k \in 1..Len(ts) : Thread(ts)[k] = Standing(ts[k])
  BY <1>1 DEF Thread
<1>7. ts = <<>> <=> Thread(ts) = <<>>
  BY <1>4, <1>5, EmptySeq
<1>8. ts # <<>> => Last(Thread(ts)) = Standing(Last(ts))
  BY <1>1, <1>5, <1>6, EmptySeq DEF Last
<1>9. QED
  BY <1>4, <1>5, <1>6, <1>7, <1>8

LEMMA ClosedSame ==
    ASSUME NEW ts \in Seq(Turn), ts # <<>>
    PROVE  Closed(Thread(ts), Standing(Last(ts))) = Thread(ts)
<1>1. /\ Thread(ts) \in Seq(Standings) /\ Thread(ts) # <<>>
      /\ Thread(ts)[Len(Thread(ts))] = Standing(Last(ts))
  BY ThreadTyped DEF Last
<1>2. Len(Thread(ts)) \in 1..Len(Thread(ts))
  BY <1>1, EmptySeq
<1>3. QED
  BY <1>1, <1>2, LenProperties DEF Closed

(* A turn that starts is an open question. *)
LEMMA AppendThread ==
    ASSUME NEW ts \in Seq(Turn), NEW turn \in Turn
    PROVE  /\ Append(ts, turn) \in Seq(Turn) /\ Append(ts, turn) # <<>>
           /\ Last(Append(ts, turn)) = turn
           /\ Thread(Append(ts, turn)) = Append(Thread(ts), Standing(turn))
<1> DEFINE s == Append(ts, turn)
           t == Append(Thread(ts), Standing(turn))
<1>1. /\ s \in Seq(Turn) /\ Len(s) = Len(ts) + 1 /\ s[Len(ts) + 1] = turn
      /\ \A k \in 1..Len(ts) : s[k] = ts[k]
  OBVIOUS
<1>2. Thread(ts) \in Seq(Standings) /\ Standing(turn) \in Standings
      /\ Len(Thread(ts)) = Len(ts) /\ Len(ts) \in Nat
  BY ThreadTyped, StandingTyped, LenProperties
<1>3. /\ t \in Seq(Standings) /\ Len(t) = Len(ts) + 1 /\ t[Len(ts) + 1] = Standing(turn)
      /\ \A k \in 1..Len(ts) : t[k] = Thread(ts)[k]
  BY <1>2
<1> HIDE DEF s, t
<1>4. Thread(s) \in Seq(Standings) /\ Len(Thread(s)) = Len(t)
  BY <1>1, <1>3, ThreadTyped
<1>5. \A k \in 1..Len(Thread(s)) : Thread(s)[k] = t[k]
  <2> SUFFICES ASSUME NEW k \in 1..(Len(ts) + 1) PROVE Thread(s)[k] = t[k]
    BY <1>3, <1>4
  <2>1. Thread(s)[k] = Standing(s[k])
    BY <1>1, ThreadTyped
  <2>2. CASE k = Len(ts) + 1
    BY <1>1, <1>3, <2>1, <2>2
  <2>3. CASE k \in 1..Len(ts)
    BY <1>1, <1>3, <2>1, <2>3, ThreadTyped
  <2>4. QED
    BY <1>2, <2>2, <2>3
<1>6. Thread(s) = t
  BY <1>3, <1>4, <1>5, SeqEqual
<1>7. s # <<>> /\ Last(s) = turn
  BY <1>1, <1>2, EmptySeq DEF Last
<1>8. QED
  BY <1>1, <1>6, <1>7 DEF s, t

(* The current turn is rewritten: how it stands changes, nothing else. *)
LEMMA CurrentThread ==
    ASSUME NEW ts \in Seq(Turn), ts # <<>>, NEW turn \in Turn
    PROVE  /\ OnCurrent(ts, turn) \in Seq(Turn) /\ OnCurrent(ts, turn) # <<>>
           /\ Last(OnCurrent(ts, turn)) = turn
           /\ Thread(OnCurrent(ts, turn)) = Closed(Thread(ts), Standing(turn))
<1> DEFINE s == [ts EXCEPT ![Len(ts)] = turn]
           t == [Thread(ts) EXCEPT ![Len(Thread(ts))] = Standing(turn)]
<1>0. OnCurrent(ts, turn) = s /\ Closed(Thread(ts), Standing(turn)) = t
  BY DEF OnCurrent, Closed
<1>1. Len(ts) \in Nat \ {0}
  BY EmptySeq, LenProperties
<1>2. /\ s \in Seq(Turn) /\ Len(s) = Len(ts)
      /\ \A k \in 1..Len(ts) : s[k] = IF k = Len(ts) THEN turn ELSE ts[k]
  BY <1>1, ExceptSeq
<1>3. Thread(ts) \in Seq(Standings) /\ Standing(turn) \in Standings
      /\ Len(Thread(ts)) = Len(ts)
  BY ThreadTyped, StandingTyped
<1>4. /\ t \in Seq(Standings) /\ Len(t) = Len(ts)
      /\ \A k \in 1..Len(ts) : t[k] = IF k = Len(ts) THEN Standing(turn) ELSE Thread(ts)[k]
  BY <1>1, <1>3, ExceptSeq
<1> HIDE DEF s, t
<1>5. Thread(s) \in Seq(Standings) /\ Len(Thread(s)) = Len(t)
  BY <1>2, <1>4, ThreadTyped
<1>6. \A k \in 1..Len(Thread(s)) : Thread(s)[k] = t[k]
  <2> SUFFICES ASSUME NEW k \in 1..Len(ts) PROVE Thread(s)[k] = t[k]
    BY <1>4, <1>5
  <2>1. Thread(s)[k] = Standing(s[k]) /\ Thread(ts)[k] = Standing(ts[k])
    BY <1>2, ThreadTyped
  <2>2. QED
    BY <1>2, <1>4, <2>1
<1>7. Thread(s) = t
  BY <1>4, <1>5, <1>6, SeqEqual
<1>8. s # <<>> /\ Last(s) = turn
  BY <1>1, <1>2, EmptySeq DEF Last
<1>9. QED
  BY <1>0, <1>2, <1>7, <1>8

LEMMA AskThread ==
    ASSUME NEW ts \in Seq(Turn), NEW input \in InputKinds, NEW payload \in Seq(Intents)
    PROVE  LET s == Append(ts, NewTurn(input, payload))
           IN  /\ s \in Seq(Turn) /\ s # <<>> /\ Open(s)
               /\ Last(s).input = input /\ Last(s).results = <<>>
               /\ Thread(s) = Append(Thread(ts), "open")
<1>1. NewTurn(input, payload) \in Turn
  BY NewTurnTyped
<1>2. /\ Standing(NewTurn(input, payload)) = "open"
      /\ NewTurn(input, payload).input = input
      /\ NewTurn(input, payload).results = <<>>
  BY DEF Standing, NewTurn
<1>3. QED
  BY <1>1, <1>2, AppendThread DEF Open

LEMMA ResponseThread ==
    ASSUME NEW ts \in Seq(Turn), ts # <<>>, NEW r \in ResponseKinds \ {"none"}
    PROVE  LET s == SetResponse(ts, r)
           IN  /\ s \in Seq(Turn) /\ s # <<>> /\ ~Open(s)
               /\ Last(s).input = Last(ts).input /\ Last(s).results = Last(ts).results
               /\ Last(s).response = r
               /\ Thread(s) = Closed(Thread(ts), r)
<1> DEFINE turn == [Last(ts) EXCEPT !.response = r]
<1>1. Last(ts) \in Turn
  BY LastTyped
<1>2. /\ turn \in Turn /\ turn.response = r
      /\ turn.input = Last(ts).input /\ turn.results = Last(ts).results
  BY <1>1 DEF Turn
<1>3. SetResponse(ts, r) = OnCurrent(ts, turn)
  BY DEF SetResponse
<1> HIDE DEF turn
<1>4. Standing(turn) = r /\ r # "open"
  BY <1>2 DEF Standing, ResponseKinds
<1>5. QED
  BY <1>2, <1>3, <1>4, CurrentThread DEF Open

LEMMA NoTurnNoResponse ==
    ASSUME NEW r
    PROVE  SetResponse(<<>>, r) = <<>>
BY DEF SetResponse, OnCurrent

LEMMA GiveUpThread ==
    ASSUME NEW ts \in Seq(Turn), Open(ts)
    PROVE  LET s == GiveUp(ts)
           IN  /\ s \in Seq(Turn) /\ s # <<>> /\ ~Open(s)
               /\ Last(s).input = Last(ts).input /\ Last(s).results = Last(ts).results
               /\ Thread(s) = Closed(Thread(ts), "left")
<1> DEFINE turn == [Last(ts) EXCEPT !.left = "yes"]
<1>1. ts # <<>> /\ Last(ts) \in Turn
  BY LastTyped DEF Open
<1>2. /\ turn \in Turn /\ turn.left = "yes" /\ turn.response = Last(ts).response
      /\ turn.input = Last(ts).input /\ turn.results = Last(ts).results
  BY <1>1 DEF Turn
<1>3. GiveUp(ts) = OnCurrent(ts, turn)
  BY DEF GiveUp
<1> HIDE DEF turn
<1>4. Standing(turn) = "left"
  BY <1>1, <1>2, StandingTyped DEF Open, Standing, Turn, ResponseKinds
<1>5. QED
  BY <1>1, <1>2, <1>3, <1>4, CurrentThread DEF Open

(* Recording the calls changes nothing of how a turn stands. *)
LEMMA CallsThread ==
    ASSUME NEW ts \in Seq(Turn), ts # <<>>, NEW cs \in Seq(Intents)
    PROVE  LET s == SetNativeCalls(ts, cs)
           IN  /\ s \in Seq(Turn) /\ s # <<>>
               /\ Last(s).input = Last(ts).input /\ Last(s).results = Last(ts).results
               /\ Last(s).response = Last(ts).response
               /\ Standing(Last(s)) = Standing(Last(ts))
               /\ Thread(s) = Thread(ts)
<1> DEFINE turn == [Last(ts) EXCEPT !.calls = cs]
<1>1. Last(ts) \in Turn
  BY LastTyped
<1>2. /\ turn \in Turn /\ turn.left = Last(ts).left /\ turn.response = Last(ts).response
      /\ turn.input = Last(ts).input /\ turn.results = Last(ts).results
  BY <1>1 DEF Turn
<1>3. SetNativeCalls(ts, cs) = OnCurrent(ts, turn)
  BY DEF SetNativeCalls
<1> HIDE DEF turn
<1>4. Standing(turn) = Standing(Last(ts))
  BY <1>2 DEF Standing
<1>5. Closed(Thread(ts), Standing(Last(ts))) = Thread(ts)
  BY ClosedSame
<1>6. QED
  BY <1>2, <1>3, <1>4, <1>5, CurrentThread

LEMMA ResultsThread ==
    ASSUME NEW ts \in Seq(Turn), ts # <<>>, Last(ts).results = <<>>,
           NEW rs \in Seq(Intents)
    PROVE  LET s == AppendNativeResults(ts, rs)
               how == IF Last(ts).response = "none" /\ rs # <<>> THEN "acted"
                      ELSE Standing(Last(ts))
           IN  /\ s \in Seq(Turn) /\ s # <<>>
               /\ Thread(s) = Closed(Thread(ts), how)
<1> DEFINE turn == [Last(ts) EXCEPT !.results = @ \o rs]
<1>1. Last(ts) \in Turn
  BY LastTyped
<1>2. <<>> \o rs = rs
  BY ConcatEmptySeq
<1>3. /\ turn \in Turn /\ turn.left = Last(ts).left /\ turn.response = Last(ts).response
      /\ turn.results = rs
  BY <1>1, <1>2 DEF Turn
<1>4. AppendNativeResults(ts, rs) = OnCurrent(ts, turn)
  BY DEF AppendNativeResults
<1> HIDE DEF turn
<1>5. Standing(turn) = IF Last(ts).response = "none" /\ rs # <<>> THEN "acted"
                       ELSE Standing(Last(ts))
  BY <1>3 DEF Standing
<1>6. QED
  BY <1>3, <1>4, <1>5, CurrentThread
-----------------------------------------------------------------------------
(* The invariants of a round. *)

Block == Protocol = "block"

(* The stream is open, or what it brought is dealt with. *)
Streaming == pc \in {"stream", "leaving"} \/ (pc = "dispatch" /\ back # "teleport")

(* What a batch did so far it has results for, or actions that will have.   *)
BatchInv ==
    /\ ret # {} => batch # <<>> /\ "acted" \in ret
    /\ ret # {} => gathered # <<>> \/ deferred # <<>>
    /\ ret # {} /\ dpc = "ok" => results # <<>>

(* Only text brings intents in block mode, and only the stream itself does  *)
(* in native mode; a round that acted has text, or results, to show for it. *)
RoundInv ==
    /\ pc \in {"llm_start", "open"} => did = {}
    /\ Streaming /\ "acted" \in did => IF Block THEN Said ELSE results # <<>>
    /\ pc = "dispatch" /\ back # "teleport" /\ batch # <<>> /\ Block => Said
    /\ pc = "dispatch" /\ back = "end" /\ ~Block => batch = <<>>

(* A path is consumed by the call that enters its helper. *)
PathUse ==
    pc = "dispatch" /\ back = "teleport" /\ ff = <<>> =>
        dpc \in {"helper", "error"} \/ ret # {}

(* The current question waits for the model; a restarted run has none. *)
Waiting == Open(turns) \/ (turns = <<>> /\ "run_start" \in Decisions)

TurnInv ==
    /\ turns # <<>> => Last(turns).results = <<>>
    /\ turns # <<>> /\ Block => Last(turns).input # "empty"

(* Before the model is asked and while it answers, the last question is the *)
(* open one; when a run has returned, none is.                             *)
WaitInv ==
    /\ pc \in {"llm_start", "open", "stream"} => Waiting
    /\ pc = "top" /\ ff = <<>> => Waiting
    /\ pc = "dispatch" /\ back \in {"call", "structured"} => Waiting
    /\ pc = "leaving" \/ (pc = "dispatch" /\ back = "end") =>
         Waiting \/ (Said /\ turns # <<>> /\ Last(turns).response = "text")
    /\ pc \in {"idle", "finish"} => ~Open(turns)

RoundsInv == BatchInv /\ RoundInv /\ PathUse /\ TurnInv /\ WaitInv

-----------------------------------------------------------------------------
(* What process_intents does to them. *)

LEMMA NonEmptyConcat ==
    ASSUME NEW S, NEW r \in Seq(S), NEW s \in Seq(S), NEW t \in Seq(S),
           r # <<>> \/ s # <<>> \/ t # <<>>
    PROVE  r \o s \o t # <<>>
<1>1. /\ r \o s \in Seq(S) /\ Len(r \o s) = Len(r) + Len(s)
      /\ r \o s \o t \in Seq(S) /\ Len(r \o s \o t) = Len(r) + Len(s) + Len(t)
  <2>1. r \o s \in Seq(S) /\ Len(r \o s) = Len(r) + Len(s)
    BY ConcatProperties
  <2>2. r \o s \o t \in Seq(S) /\ Len(r \o s \o t) = Len(r \o s) + Len(t)
    BY <2>1, ConcatProperties
  <2>3. QED
    BY <2>1, <2>2
<1>2. Len(r) \in Nat /\ Len(s) \in Nat /\ Len(t) \in Nat
  BY LenProperties
<1>3. Len(r) # 0 \/ Len(s) # 0 \/ Len(t) # 0
  BY EmptySeq
<1>4. Len(r \o s \o t) # 0
  BY <1>1, <1>2, <1>3
<1>5. QED
  BY <1>1, <1>4, EmptySeq

(* A move of process_intents takes no text, result or turn away. *)
Growing ==
    /\ UNCHANGED runVars /\ batch' = batch
    /\ Said => Said'
    /\ results # <<>> => results' # <<>>

LEMMA ReadRound ==
    ASSUME TypeOK, PathInv, BatchInv, pc = "dispatch", UNCHANGED runVars,
           DropResponse \/ Respond \/ Custom \/ Skip \/ Override \/ Defer
    PROVE  Growing /\ BatchInv' /\ (PathUse => PathUse')
<1>0. /\ pos \in Nat \ {0} /\ batch \in Seq(Intents)
      /\ gathered \in Seq(Intents) /\ deferred \in Seq(Intents)
  BY DEF TypeOK, DispatchTypeOK, BatchTypeOK
<1>1. /\ dpc = "intents" /\ dpc' = dpc /\ pos <= Len(batch)
      /\ batch' = batch /\ results' = results /\ flags \subseteq flags'
      /\ ff' = ff /\ pc' = pc /\ back' = back
      /\ \/ ret' = ret /\ gathered' = gathered /\ deferred' = deferred
         \/ /\ ret' = ret \cup {"acted"}
            /\ \/ gathered' = Append(gathered, batch[pos]) /\ deferred' = deferred
               \/ gathered' = gathered /\ deferred' = Append(deferred, batch[pos])
  BY DEF DropResponse, Respond, Custom, Skip, Override, Defer, Take, At,
     engineVars, runVars
<1>2. batch # <<>>
  BY <1>0, <1>1, EmptySeq, LenProperties
<1>3. Append(gathered, batch[pos]) # <<>> /\ Append(deferred, batch[pos]) # <<>>
  BY <1>0, <1>1, ElementOfSeq, LastOfPush
<1>4. BatchInv'
  BY <1>1, <1>2, <1>3 DEF BatchInv
<1>5. PathUse => PathUse'
  BY <1>1 DEF PathUse
<1>6. QED
  BY <1>1, <1>4, <1>5 DEF Growing, Said

LEMMA HelperRound ==
    ASSUME TypeOK, HelperInv, PathInv, BatchInv, pc = "dispatch", UNCHANGED runVars,
           EnterHelper \/ EnterStranger \/ \E outcome \in Outcomes : LeaveHelper(outcome)
    PROVE  Growing /\ BatchInv' /\ (PathUse => PathUse')
<1>0. /\ pos \in Nat \ {0} /\ batch \in Seq(Intents) /\ gathered \in Seq(Intents)
  BY DEF TypeOK, DispatchTypeOK, BatchTypeOK
<1>1. CASE EnterHelper \/ EnterStranger
  <2>1. /\ dpc' \in {"helper", "error"}
        /\ UNCHANGED <<batch, ret, gathered, deferred, results, flags>>
    BY <1>1 DEF EnterHelper, EnterStranger
  <2>2. QED
    BY <2>1 DEF Growing, BatchInv, PathUse, Said
<1>2. ASSUME NEW outcome \in Outcomes, LeaveHelper(outcome)
      PROVE  Growing /\ BatchInv' /\ (PathUse => PathUse')
  <2>1. /\ dpc = "helper"
        /\ UNCHANGED <<batch, deferred, results, flags>>
        /\ \/ dpc' = "error" /\ ret' = ret /\ gathered' = gathered
           \/ /\ dpc' = "intents" /\ "acted" \in ret'
              /\ gathered' = Append(gathered, batch[pos])
    BY <1>2 DEF LeaveHelper
  <2>2. batch # <<>>
    BY <1>0, <2>1, EmptySeq, LenProperties DEF HelperInv
  <2>3. Append(gathered, batch[pos]) # <<>>
    BY <1>0, <2>1, ElementOfSeq, LastOfPush DEF HelperInv
  <2>4. QED
    BY <2>1, <2>2, <2>3 DEF Growing, BatchInv, PathUse, Said
<1>3. QED
  BY <1>1, <1>2

LEMMA ActionRound ==
    ASSUME TypeOK, PathInv, BatchInv, pc = "dispatch", UNCHANGED runVars,
           \/ StartActions \/ EndBatch
           \/ \E a \in live :
                 \/ ActionDone(a) \/ WorkflowFails(a)
                 \/ \E h \in Transfers : WorkflowEntersHelper(a, h)
                 \/ \E outcome \in Outcomes : WorkflowLeavesHelper(a, outcome)
    PROVE  Growing /\ BatchInv' /\ (PathUse => PathUse')
<1>0. /\ gathered \in Seq(Intents) /\ deferred \in Seq(Intents)
      /\ results \in Seq(Intents)
  BY DEF TypeOK, DispatchTypeOK, BatchTypeOK, EngineTypeOK
<1>1. CASE StartActions
  <2>1. /\ dpc = "intents" /\ dpc' = "actions"
        /\ UNCHANGED <<batch, ret, gathered, deferred, results, flags, ff>>
    BY <1>1 DEF StartActions, engineVars
  <2>2. QED
    BY <2>1 DEF Growing, BatchInv, PathUse, Said, runVars
<1>2. CASE EndBatch
  <2>1. /\ dpc = "actions" /\ UNCHANGED <<batch, ret, gathered, deferred, flags, ff>>
        /\ \/ dpc' = "ok" /\ results' = results \o gathered \o deferred
           \/ dpc' = "error" /\ results' = results
    BY <1>2 DEF EndBatch
  <2>2. results # <<>> \/ gathered # <<>> \/ deferred # <<>>
          => results \o gathered \o deferred # <<>>
    BY <1>0, NonEmptyConcat
  <2>3. QED
    BY <2>1, <2>2 DEF Growing, BatchInv, PathUse, Said, runVars
<1>3. ASSUME NEW a \in live,
             \/ ActionDone(a) \/ WorkflowFails(a)
             \/ \E h \in Transfers : WorkflowEntersHelper(a, h)
             \/ \E outcome \in Outcomes : WorkflowLeavesHelper(a, outcome)
      PROVE  Growing /\ BatchInv' /\ (PathUse => PathUse')
  <2>1. UNCHANGED <<dpc, batch, ret, gathered, deferred, results, flags, ff>>
    <3>1. CASE ActionDone(a) \/ WorkflowFails(a)
      BY <3>1 DEF ActionDone, WorkflowFails, engineVars
    <3>2. CASE \E h \in Transfers : WorkflowEntersHelper(a, h)
      BY <3>2 DEF WorkflowEntersHelper
    <3>3. CASE \E outcome \in Outcomes : WorkflowLeavesHelper(a, outcome)
      BY <3>3 DEF WorkflowLeavesHelper
    <3>4. QED
      BY <1>3, <3>1, <3>2, <3>3
  <2>2. QED
    BY <2>1 DEF Growing, BatchInv, PathUse, Said, runVars
<1>4. QED
  BY <1>1, <1>2, <1>3

LEMMA MovesRound ==
    ASSUME TypeOK, HelperInv, PathInv, RoundsInv, DispatchMoves
    PROVE  RoundsInv'
<1>1. pc = "dispatch" /\ UNCHANGED runVars
  BY DEF DispatchMoves
<1>2. Growing /\ BatchInv' /\ (PathUse => PathUse')
  BY <1>1, ReadRound, HelperRound, ActionRound DEF DispatchMoves, DispatchStep, RoundsInv
<1>3. RoundInv' /\ TurnInv' /\ WaitInv'
  BY <1>1, <1>2
     DEF Growing, RoundsInv, RoundInv, TurnInv, WaitInv, Waiting, Open, Streaming,
         runVars
<1>4. QED
  BY <1>2, <1>3 DEF RoundsInv

-----------------------------------------------------------------------------
(* How the turns change, step by step. *)

(* The step is one of a conversation, or leaves what it sees alone. *)
Kept == Conversation!Next \/ Thread(turns') = Thread(turns)

LEMMA KeptSteps ==
    ASSUME turns \in Seq(Turn)
    PROVE  LET t == Thread(turns)
               u == Thread(turns')
           IN  /\ u = t => Kept
               /\ u = <<>> \/ u = Append(<<>>, "open") => Kept
               /\ ~Open(turns) /\ u = Append(t, "open") => Kept
               /\ Open(turns) /\ (\E how \in {"text", "marker", "error", "left"} :
                                    u = Closed(t, how)) => Kept
               /\ Open(turns) /\ (\E how \in {"text", "acted", "left"} :
                                    u = Append(Closed(t, how), "open")) => Kept
               /\ turns # <<>> /\ Standing(Last(turns)) = "left"
                    /\ u = Closed(t, "error") => Kept
<1> DEFINE t == Thread(turns)
           u == Thread(turns')
<1>1. /\ turns = <<>> <=> t = <<>>
      /\ turns # <<>> => Last(t) = Standing(Last(turns))
  BY ThreadTyped
<1>2. Conversation!Settled(t) <=> ~Open(turns)
  BY <1>1 DEF Conversation!Settled, Conversation!Last, Last, Open
<1>3. u = <<>> \/ u = Append(<<>>, "open") => Kept
  BY DEF Kept, Conversation!Next, Conversation!Forget, Conversation!Restart,
         Conversation!Asked, Thread
<1>4. ~Open(turns) /\ u = Append(t, "open") => Kept
  BY <1>2 DEF Kept, Conversation!Next, Conversation!Ask, Conversation!Asked, Thread
<1>5. ASSUME Open(turns), NEW how \in {"text", "marker", "error", "left"},
             u = Closed(t, how)
      PROVE  Kept
  BY <1>2, <1>5 DEF Kept, Conversation!Next, Conversation!Answer, Conversation!Leave,
     Conversation!Answers, Conversation!Closed, Closed, Thread
<1>6. ASSUME Open(turns), NEW how \in {"text", "acted", "left"},
             u = Append(Closed(t, how), "open")
      PROVE  Kept
  BY <1>2, <1>6 DEF Kept, Conversation!Next, Conversation!Continue,
     Conversation!Asked, Conversation!Closed, Closed, Thread
<1>7. turns # <<>> /\ Standing(Last(turns)) = "left" /\ u = Closed(t, "error") => Kept
  BY <1>1 DEF Kept, Conversation!Next, Conversation!FailLate, Conversation!Closed,
     Conversation!Last, Last, Closed, Thread
<1>8. u = t => Kept
  BY DEF Kept
<1>9. QED
  BY <1>3, <1>4, <1>5, <1>6, <1>7, <1>8

LEMMA ResponseStanding ==
    ASSUME NEW ts \in Seq(Turn), ts # <<>>
    PROVE  /\ Last(ts).response # "none" => Standing(Last(ts)) = Last(ts).response
                                           /\ ~Open(ts)
           /\ Last(ts).response = "none" /\ Last(ts).results = <<>>
                => Standing(Last(ts)) \in {"left", "open"}
           /\ Open(ts) => Last(ts).response = "none"
BY LastTyped DEF Open, Standing, Turn, ResponseKinds

(* The current question is answered. *)
LEMMA AnswerTurns ==
    ASSUME turns \in Seq(Turn), TurnInv, NEW r \in ResponseKinds \ {"none"},
           turns' = SetResponse(turns, r),
           \/ turns = <<>> \/ Open(turns) \/ Last(turns).response = r
           \/ Standing(Last(turns)) = "left" /\ r = "error"
    PROVE  /\ TurnInv' /\ Kept /\ ~Open(turns')
           /\ turns # <<>> => turns' # <<>> /\ Last(turns').response = r
<1>1. CASE turns = <<>>
  <2>1. turns' = turns
    BY <1>1, NoTurnNoResponse
  <2>2. QED
    BY <1>1, <2>1, KeptSteps DEF TurnInv, Open
<1>2. CASE turns # <<>>
  <2>1. /\ turns' \in Seq(Turn) /\ turns' # <<>> /\ ~Open(turns')
        /\ Last(turns').input = Last(turns).input
        /\ Last(turns').results = Last(turns).results
        /\ Last(turns').response = r
        /\ Thread(turns') = Closed(Thread(turns), r)
    BY <1>2, ResponseThread
  <2>2. TurnInv'
    BY <1>2, <2>1 DEF TurnInv, Block
  <2>3. Kept
    <3>1. CASE Open(turns)
      BY <2>1, <3>1, KeptSteps DEF ResponseKinds
    <3>2. CASE Last(turns).response = r
      <4>1. Standing(Last(turns)) = r
        BY <1>2, <3>2, ResponseStanding
      <4>2. Thread(turns') = Thread(turns)
        BY <1>2, <2>1, <4>1, ClosedSame
      <4>3. QED
        BY <4>2 DEF Kept
    <3>3. CASE Standing(Last(turns)) = "left" /\ r = "error"
      BY <1>2, <2>1, <3>3, KeptSteps
    <3>4. QED
      BY <1>2, <3>1, <3>2, <3>3
  <2>4. QED
    BY <2>1, <2>2, <2>3
<1>3. QED
  BY <1>1, <1>2

LEMMA GivenUpTurns ==
    ASSUME turns \in Seq(Turn), TurnInv
    PROVE  /\ GivenUp \in Seq(Turn) /\ ~Open(GivenUp)
           /\ \/ Thread(GivenUp) = Thread(turns) /\ GivenUp = turns
              \/ /\ Open(turns) /\ Thread(GivenUp) = Closed(Thread(turns), "left")
                 /\ GivenUp # <<>>
                 /\ Last(GivenUp).input = Last(turns).input
                 /\ Last(GivenUp).results = Last(turns).results
BY GiveUpThread DEF GivenUp

(* ...or left. *)
LEMMA LeaveTurns ==
    ASSUME turns \in Seq(Turn), TurnInv, turns' = GivenUp
    PROVE  TurnInv' /\ Kept /\ ~Open(turns')
<1>1. ~Open(turns')
  BY GivenUpTurns
<1>2. TurnInv'
  BY GivenUpTurns DEF TurnInv, Block, Open
<1>3. Kept
  BY GivenUpTurns, KeptSteps
<1>4. QED
  BY <1>1, <1>2, <1>3

LEMMA AskedTurns ==
    ASSUME NEW ts \in Seq(Turn), NEW input \in InputKinds, NEW payload \in Seq(Intents),
           turns' = Append(ts, NewTurn(input, payload)), input # "empty" \/ ~Block
    PROVE  /\ TurnInv' /\ Open(turns')
           /\ Thread(turns') = Append(Thread(ts), "open")
<1>1. /\ turns' \in Seq(Turn) /\ turns' # <<>> /\ Open(turns')
      /\ Last(turns').input = input /\ Last(turns').results = <<>>
      /\ Thread(turns') = Append(Thread(ts), "open")
  BY AskThread
<1>2. TurnInv'
  BY <1>1 DEF TurnInv, Block
<1>3. QED
  BY <1>1, <1>2

-----------------------------------------------------------------------------
(* Every step of the run keeps the invariants and the conversation.  A host *)
(* that gives every run an input, and error hooks that do not retry a turn  *)
(* in native mode, are what it takes.                                      *)

NothingDropped ==
    /\ Inputs = {"given"}
    /\ Protocol = "block" \/ "llm_start" \notin Decisions

LEMMA RunTyped ==
    TypeOK => turns \in Seq(Turn) /\ calls \in Seq(Intents) /\ results \in Seq(Intents)
BY DEF TypeOK, RunTypeOK, DispatchTypeOK, EngineTypeOK

LEMMA StartRound ==
    ASSUME TypeOK, PathInv, RoundsInv, NothingDropped, RejectRun \/ StartRun
    PROVE  RoundsInv' /\ Kept
<1> USE DEF RoundsInv
<1>0. turns \in Seq(Turn) /\ pc = "idle" /\ dpc = "idle" /\ ~Open(turns)
  BY RunTyped DEF RejectRun, StartRun, PathInv, Places, WaitInv
<1>1. CASE RejectRun
  <2>1. pc' = pc /\ turns' = turns /\ results' = results /\ UNCHANGED batchVars
    BY <1>1 DEF RejectRun
  <2>2. RoundsInv'
    BY <1>0, <2>1 DEF batchVars, BatchInv, RoundInv, Streaming, PathUse, TurnInv,
       WaitInv, Open
  <2>3. QED
    BY <1>0, <2>1, <2>2, KeptSteps
<1>2. CASE StartRun
  <2>1. PICK s \in InitialStacks \cup {OwnStack}, input \in Inputs,
             kept \in {turns, <<>>} :
          /\ ff' = Path(s)
          /\ turns' = IF input = "given" /\ Path(s) = <<>>
                        THEN StartTurn(kept, "user") ELSE kept
    BY <1>2 DEF StartRun
  <2>2. pc' = "top" /\ UNCHANGED batchVars
    BY <1>2 DEF StartRun
  <2>3. input = "given"
    BY DEF NothingDropped
  <2>4. kept \in Seq(Turn) /\ Thread(<<>>) = <<>>
    BY <1>0, EmptySeq, ThreadTyped
  <2>5. BatchInv' /\ RoundInv' /\ PathUse'
    BY <1>0, <2>2 DEF batchVars, BatchInv, RoundInv, Streaming, PathUse
  <2>6. TurnInv' /\ (Path(s) = <<>> => Open(turns')) /\ Kept
    <3>1. CASE Path(s) = <<>>
      <4>1. turns' = Append(kept, NewTurn("user", <<>>))
        BY <2>1, <2>3, <3>1 DEF StartTurn
      <4>2. TurnInv' /\ Open(turns') /\ Thread(turns') = Append(Thread(kept), "open")
        BY <2>4, <4>1, AskedTurns, EmptySeq DEF InputKinds
      <4>3. QED
        BY <1>0, <2>4, <4>2, KeptSteps
    <3>2. CASE Path(s) # <<>>
      <4>1. turns' = turns \/ turns' = <<>>
        BY <2>1, <3>2
      <4>2. TurnInv'
        BY <4>1 DEF TurnInv
      <4>3. QED
        BY <1>0, <2>4, <3>2, <4>1, <4>2, KeptSteps
    <3>3. QED
      BY <3>1, <3>2
  <2>7. WaitInv'
    BY <2>1, <2>2, <2>6 DEF WaitInv, Waiting
  <2>8. QED
    BY <2>5, <2>6, <2>7
<1>3. QED
  BY <1>1, <1>2

LEMMA TopRound ==
    ASSUME TypeOK, PathInv, RoundsInv, Teleport \/ Top \/ LlmStart
    PROVE  RoundsInv' /\ Kept
<1> USE DEF RoundsInv
<1>0. turns \in Seq(Turn) /\ turns' = turns
  BY RunTyped DEF Teleport, Top, LlmStart
<1>1. TurnInv' /\ Kept
  BY <1>0, KeptSteps DEF TurnInv
<1>2. CASE Teleport
  <2>1. /\ pc' = "dispatch" /\ back' = "teleport" /\ ret' = {}
        /\ ff # <<>> /\ ff' = ff
    BY <1>2 DEF Teleport, Call, Dispatch
  <2>2. QED
    BY <1>1, <2>1 DEF BatchInv, RoundInv, Streaming, PathUse, WaitInv
<1>3. CASE Top
  <2>1. /\ pc = "top" /\ ff = <<>> /\ pc' \in {"llm_start", "open"} /\ did' = {}
        /\ dpc = "idle" /\ UNCHANGED batchVars
    BY <1>3 DEF Top, ResetRound, PathInv, Places
  <2>2. QED
    BY <1>0, <1>1, <2>1
       DEF batchVars, BatchInv, RoundInv, Streaming, PathUse, WaitInv, Waiting
<1>4. CASE LlmStart
  <2>1. /\ pc = "llm_start" /\ did' = did /\ results' = results
        /\ UNCHANGED batchVars
        /\ pc' = "open" \/ (pc' = "top" /\ ff' # <<>>)
    BY <1>4 DEF LlmStart
  <2>2. QED
    BY <1>0, <1>1, <2>1
       DEF batchVars, BatchInv, RoundInv, Streaming, PathUse, WaitInv, Waiting
<1>5. QED
  BY <1>2, <1>3, <1>4

LEMMA TeleportRound ==
    ASSUME TypeOK, PathInv, RoundsInv, TeleportReturns
    PROVE  RoundsInv' /\ Kept
<1> USE DEF RoundsInv
<1>0. turns \in Seq(Turn) /\ results \in Seq(Intents)
  BY RunTyped
<1>1. /\ pc = "dispatch" /\ back = "teleport" /\ dpc \in {"ok", "error"}
      /\ ret' = {} /\ ff' = ff /\ dpc' = "idle"
  BY DEF TeleportReturns, Returned, Release, engineVars
<1>2. CASE dpc = "error" \/ ret = {}
  <2>1. turns' = turns /\ pc' \in {"fail", "top"} /\ (pc' = "top" => ret = {} /\ dpc = "ok")
    BY <1>1, <1>2 DEF TeleportReturns
  <2>2. pc' = "top" => ff' # <<>>
    BY <1>1, <2>1 DEF PathUse
  <2>3. Kept
    BY <1>0, <2>1, KeptSteps
  <2>4. QED
    BY <1>1, <2>1, <2>2, <2>3
       DEF BatchInv, RoundInv, Streaming, PathUse, TurnInv, WaitInv
<1>3. CASE dpc = "ok" /\ ret # {} /\ "stopped" \in ret
  <2>1. turns' = GivenUp /\ pc' = "finish"
    BY <1>3 DEF TeleportReturns
  <2>2. TurnInv' /\ Kept /\ ~Open(turns')
    BY <1>0, <2>1, LeaveTurns
  <2>3. QED
    BY <1>1, <2>1, <2>2 DEF BatchInv, RoundInv, Streaming, PathUse, WaitInv
<1>4. CASE dpc = "ok" /\ ret # {} /\ "stopped" \notin ret
  <2>1. turns' = Append(GivenUp, NewTurn("results", results)) /\ pc' = "top"
    BY <1>4 DEF TeleportReturns, StartResultsTurn
  <2>2. /\ TurnInv' /\ Open(turns')
        /\ Thread(turns') = Append(Thread(GivenUp), "open")
    BY <1>0, <2>1, GivenUpTurns, AskedTurns DEF InputKinds
  <2>3. Kept
    BY <1>0, <2>2, GivenUpTurns, KeptSteps
  <2>4. QED
    BY <1>1, <2>1, <2>2, <2>3
       DEF BatchInv, RoundInv, Streaming, PathUse, WaitInv, Waiting
<1>5. QED
  BY <1>1, <1>2, <1>3, <1>4

LEMMA OpenRound ==
    ASSUME TypeOK, PathInv, RoundsInv, NothingDropped,
           OpenOk \/ OpenNoDriver \/ Propagate \/ Swallow \/ RetryTurn \/ RetryRun
    PROVE  RoundsInv' /\ Kept
<1> USE DEF RoundsInv
<1>0. /\ turns \in Seq(Turn) /\ pc = "open" /\ dpc = "idle" /\ ff = <<>> /\ Waiting
      /\ did = {} /\ did' = did /\ dpc' = dpc /\ ret' = ret /\ batch' = batch
      /\ gathered' = gathered /\ deferred' = deferred
      /\ pc' \in {"stream", "fail", "finish", "top", "exhausted"}
  BY RunTyped
     DEF OpenOk, OpenNoDriver, Propagate, Swallow, RetryTurn, RetryRun, OpenFails,
         dispatchVars, batchVars, PathInv, Places, OffPath, WaitInv, RoundInv
<1>1. BatchInv' /\ RoundInv' /\ PathUse'
  BY <1>0 DEF BatchInv, RoundInv, Streaming, PathUse
<1>2. ASSUME turns' = turns, pc' # "finish" PROVE RoundsInv' /\ Kept
  <2>1. TurnInv' /\ Kept
    BY <1>0, <1>2, KeptSteps DEF TurnInv
  <2>2. WaitInv'
    BY <1>0, <1>2 DEF WaitInv, Waiting
  <2>3. QED
    BY <1>1, <2>1, <2>2
<1>3. CASE OpenOk \/ OpenNoDriver
  BY <1>2, <1>3 DEF OpenOk, OpenNoDriver
<1>4. CASE Propagate
  <2>1. turns' = SetResponse(turns, "error") /\ pc' = "fail"
    BY <1>4 DEF Propagate
  <2>2. TurnInv' /\ Kept
    BY <1>0, <2>1, AnswerTurns DEF Waiting, ResponseKinds
  <2>3. QED
    BY <1>1, <2>1, <2>2 DEF WaitInv
<1>5. CASE Swallow
  <2>1. turns' = GivenUp /\ pc' = "finish"
    BY <1>5 DEF Swallow
  <2>2. TurnInv' /\ Kept /\ ~Open(turns')
    BY <1>0, <2>1, LeaveTurns
  <2>3. QED
    BY <1>1, <2>1, <2>2 DEF WaitInv
<1>6. CASE RetryTurn
  <2>1. /\ "llm_start" \in Decisions /\ pc' # "finish"
        /\ turns' = turns \/ turns' = PopLastIfEmpty(turns)
    BY <1>6 DEF RetryTurn, OpenFails
  <2>2. PopLastIfEmpty(turns) = turns
    BY <2>1 DEF PopLastIfEmpty, TurnInv, NothingDropped, Block
  <2>3. QED
    BY <1>2, <2>1, <2>2
<1>7. CASE RetryRun
  <2>1. /\ "run_start" \in Decisions /\ pc' # "finish"
        /\ turns' = turns \/ (turns' = <<>> /\ pc' = "top")
    BY <1>7 DEF RetryRun, OpenFails
  <2>2. ASSUME turns' = <<>>, pc' = "top" PROVE RoundsInv' /\ Kept
    <3>1. Thread(turns') = <<>>
      BY <2>2, EmptySeq, ThreadTyped
    <3>2. Kept
      BY <1>0, <3>1, KeptSteps
    <3>3. TurnInv' /\ WaitInv'
      BY <2>1, <2>2 DEF TurnInv, WaitInv, Waiting
    <3>4. QED
      BY <1>1, <3>2, <3>3
  <2>3. QED
    BY <1>2, <2>1, <2>2
<1>8. QED
  BY <1>3, <1>4, <1>5, <1>6, <1>7

(* The stream brings intents, and text with them in block mode. *)
LEMMA StreamRound ==
    ASSUME TypeOK, PathInv, RoundsInv,
           \/ Text \/ NativeCall \/ Structured \/ StreamError \/ StreamEnds
    PROVE  RoundsInv' /\ Kept
<1> USE DEF RoundsInv
<1>0. turns \in Seq(Turn) /\ dpc = "idle" /\ pc \in {"stream", "leaving"}
  BY RunTyped DEF Text, NativeCall, Structured, StreamError, StreamEnds, Hear,
     PathInv, Places
<1>1. CASE StreamError
  <2>1. /\ turns' = SetResponse(turns, "error") /\ pc = "stream" /\ pc' = "fail"
        /\ UNCHANGED dispatchVars
    BY <1>1 DEF StreamError
  <2>2. TurnInv' /\ Kept
    BY <1>0, <2>1, AnswerTurns DEF WaitInv, Waiting, ResponseKinds
  <2>3. QED
    BY <2>1, <2>2
       DEF dispatchVars, BatchInv, RoundInv, Streaming, PathUse, WaitInv
<1>2. CASE Text \/ NativeCall \/ Structured \/ StreamEnds
  <2>1. turns' = turns /\ did' = did /\ results' = results /\ flags \subseteq flags'
    BY <1>2 DEF Text, NativeCall, Structured, StreamEnds, engineVars
  <2>2. TurnInv' /\ Kept
    BY <1>0, <2>1, KeptSteps DEF TurnInv
  <2>3. CASE Text
    <3>1. pc = "stream" /\ pc' = pc /\ UNCHANGED batchVars
      BY <2>3 DEF Text, Hear
    <3>2. QED
      BY <1>0, <2>1, <2>2, <3>1
         DEF batchVars, BatchInv, RoundInv, Streaming, PathUse, WaitInv, Waiting, Said
  <2>4. CASE NativeCall \/ Structured
    <3>1. /\ pc = "stream" /\ pc' = "dispatch" /\ ret' = {}
          /\ back' \in {"call", "structured"}
          /\ Block => Said'
      BY <2>4 DEF NativeCall, Structured, Hear, Call, Dispatch, Block, Said
    <3>2. QED
      BY <1>0, <2>1, <2>2, <3>1
         DEF BatchInv, RoundInv, Streaming, PathUse, WaitInv, Waiting, Said
  <2>5. CASE StreamEnds
    <3>1. /\ pc' = "dispatch" /\ ret' = {} /\ back' = "end"
          /\ batch' # <<>> => Block /\ Said
      BY <2>5 DEF StreamEnds, Call, Dispatch, Block, Said
    <3>2. RoundInv'
      BY <1>0, <2>1, <3>1 DEF RoundInv, Streaming, Said
    <3>3. WaitInv'
      BY <1>0, <2>1, <3>1 DEF WaitInv, Waiting, Said
    <3>4. QED
      BY <2>2, <3>1, <3>2, <3>3 DEF BatchInv, PathUse
  <2>6. QED
    BY <1>2, <2>3, <2>4, <2>5
<1>3. QED
  BY <1>1, <1>2

(* The question waits, or got the text that came with what stopped the stream.*)
Ending == Waiting \/ (Said /\ turns # <<>> /\ Last(turns).response = "text")

LEMMA AnsweredTurns ==
    ASSUME turns \in Seq(Turn), TurnInv, Ending, turns' = Answered
    PROVE  /\ TurnInv' /\ Kept
           /\ ~Said => turns' = turns
           /\ Said /\ turns' # <<>> => Last(turns').response = "text"
           /\ turns = <<>> <=> turns' = <<>>
<1>1. CASE Said
  <2>1. turns' = SetResponse(turns, "text")
    BY <1>1 DEF Answered
  <2>2. /\ TurnInv' /\ Kept
        /\ turns # <<>> => turns' # <<>> /\ Last(turns').response = "text"
    BY <2>1, AnswerTurns DEF Ending, Waiting, ResponseKinds
  <2>3. turns = <<>> => turns' = <<>>
    BY <2>1, NoTurnNoResponse
  <2>4. QED
    BY <1>1, <2>2, <2>3
<1>2. CASE ~Said
  BY <1>2, KeptSteps DEF Answered, TurnInv
<1>3. QED
  BY <1>1, <1>2

LEMMA ReturnRound ==
    ASSUME TypeOK, PathInv, RoundsInv, BatchFails \/ BatchReturns
    PROVE  RoundsInv' /\ Kept
<1> USE DEF RoundsInv
<1>0. turns \in Seq(Turn) /\ pc = "dispatch" /\ back # "teleport"
  BY RunTyped DEF BatchFails, BatchReturns, Returned
<1>1. ret' = {} /\ results' = results /\ flags' = flags
  BY DEF BatchFails, BatchReturns, Release, engineVars
<1>2. CASE BatchFails
  <2>1. turns' = Answered /\ pc' = "fail" /\ Ending
    BY <1>2 DEF BatchFails, Returned, WaitInv, Ending
  <2>2. TurnInv' /\ Kept
    BY <1>0, <2>1, AnsweredTurns
  <2>3. QED
    BY <1>1, <2>1, <2>2 DEF BatchInv, RoundInv, Streaming, PathUse, WaitInv
<1>3. CASE BatchReturns
  <2>1. /\ back \in {"call", "structured"} /\ dpc = "ok" /\ did' = did \cup ret
        /\ \/ pc' = "leaving" /\ turns' = Answered
           \/ pc' = "stream" /\ turns' = turns
    BY <1>3 DEF BatchReturns, Returned
  <2>2. Waiting /\ Ending
    BY <1>0, <2>1 DEF WaitInv, Ending
  <2>3. RoundInv'
    <3>1. ret # {} => IF Block THEN Said ELSE results # <<>>
      BY <1>0, <2>1 DEF BatchInv, RoundInv
    <3>2. "acted" \in did => IF Block THEN Said ELSE results # <<>>
      BY <1>0 DEF RoundInv, Streaming
    <3>3. "acted" \in did' => IF Block THEN Said ELSE results # <<>>
      BY <2>1, <3>1, <3>2
    <3>4. QED
      BY <1>1, <2>1, <3>3 DEF RoundInv, Streaming, Said
  <2>4. TurnInv' /\ WaitInv' /\ Kept
    <3>1. CASE pc' = "leaving" /\ turns' = Answered
      <4>1. /\ TurnInv' /\ Kept
            /\ ~Said => turns' = turns
            /\ Said /\ turns' # <<>> => Last(turns').response = "text"
            /\ turns = <<>> <=> turns' = <<>>
        BY <1>0, <2>2, <3>1, AnsweredTurns
      <4>2. Waiting' \/ (Said' /\ turns' # <<>> /\ Last(turns').response = "text")
        BY <1>1, <2>2, <4>1 DEF Waiting, Open, Said
      <4>3. QED
        BY <3>1, <4>1, <4>2 DEF WaitInv
    <3>2. CASE pc' = "stream" /\ turns' = turns
      BY <1>0, <2>2, <3>2, KeptSteps DEF TurnInv, WaitInv, Waiting
    <3>3. QED
      BY <2>1, <3>1, <3>2
  <2>5. QED
    BY <1>1, <2>1, <2>3, <2>4 DEF BatchInv, PathUse
<1>4. QED
  BY <1>2, <1>3

(* What is recorded when the stream is over. *)
LEMMA RecordedTurns ==
    ASSUME turns \in Seq(Turn), calls \in Seq(Intents), TurnInv, Ending
    PROVE  /\ Recorded \in Seq(Turn)
           /\ Recorded = <<>> <=> turns = <<>>
           /\ turns # <<>> => /\ Last(Recorded).results = <<>>
                             /\ Last(Recorded).input = Last(turns).input
           /\ ~Said => /\ Thread(Recorded) = Thread(turns)
                       /\ Open(turns) => Open(Recorded)
           /\ Said /\ turns # <<>> =>
                /\ Last(Recorded).response = "text"
                /\ \/ Open(turns) /\ Thread(Recorded) = Closed(Thread(turns), "text")
                   \/ ~Open(turns) /\ Thread(Recorded) = Thread(turns)
<1> DEFINE a == Answered
<1>1. CASE turns = <<>>
  <2>1. Recorded = <<>>
    BY <1>1 DEF Recorded, Answered, SetResponse, SetNativeCalls, OnCurrent
  <2>2. QED
    BY <1>1, <2>1 DEF Open
<1>2. CASE turns # <<>>
  <2>1. /\ a \in Seq(Turn) /\ a # <<>>
        /\ Last(a).results = <<>> /\ Last(a).input = Last(turns).input
        /\ ~Said => a = turns
        /\ Said => /\ Last(a).response = "text"
                   /\ \/ Open(turns) /\ Thread(a) = Closed(Thread(turns), "text")
                      \/ ~Open(turns) /\ Thread(a) = Thread(turns)
    <3>1. CASE Said
      <4>1. a = SetResponse(turns, "text")
        BY <3>1 DEF Answered
      <4>2. /\ a \in Seq(Turn) /\ a # <<>>
            /\ Last(a).results = Last(turns).results /\ Last(a).input = Last(turns).input
            /\ Last(a).response = "text" /\ Thread(a) = Closed(Thread(turns), "text")
        BY <1>2, <4>1, ResponseThread DEF ResponseKinds
      <4>3. ~Open(turns) => Thread(a) = Thread(turns)
        <5>1. ~Open(turns) => Last(turns).response = "text"
          BY <1>2 DEF Ending, Waiting
        <5>2. ~Open(turns) => Standing(Last(turns)) = "text"
          BY <1>2, <5>1, ResponseStanding
        <5>3. QED
          BY <1>2, <4>2, <5>2, ClosedSame
      <4>4. QED
        BY <1>2, <3>1, <4>2, <4>3 DEF TurnInv
    <3>2. CASE ~Said
      BY <1>2, <3>2 DEF Answered, TurnInv
    <3>3. QED
      BY <3>1, <3>2
  <2>2. Recorded = a \/ Recorded = SetNativeCalls(a, calls)
    BY DEF Recorded
  <2>3. /\ Recorded \in Seq(Turn) /\ Recorded # <<>>
        /\ Last(Recorded).results = Last(a).results
        /\ Last(Recorded).input = Last(a).input
        /\ Last(Recorded).response = Last(a).response
        /\ Standing(Last(Recorded)) = Standing(Last(a))
        /\ Thread(Recorded) = Thread(a)
    <3> HIDE DEF a
    <3>1. QED
      BY <2>1, <2>2, CallsThread
  <2>4. QED
    <3> HIDE DEF a
    <3>1. QED
      BY <1>2, <2>1, <2>3 DEF Open
<1>3. QED
  BY <1>1, <1>2

LEMMA DrainedRound ==
    ASSUME TypeOK, PathInv, RoundsInv, Drained, pc' \in {"top", "finish"}
    PROVE  /\ BatchInv' /\ RoundInv' /\ PathUse'
           /\ turns \in Seq(Turn) /\ calls \in Seq(Intents) /\ results \in Seq(Intents)
           /\ Ending /\ ff' = <<>>
           /\ Acted => IF Block THEN Said ELSE results # <<>>
           /\ HardStop => Said
<1>1. /\ pc = "dispatch" /\ back = "end" /\ ret' = {} /\ ff' = ff
  BY DEF Drained, Returned, Release
<1>2. ret # {} => Block /\ Said
  BY <1>1 DEF RoundsInv, BatchInv, RoundInv
<1>3. "acted" \in did => IF Block THEN Said ELSE results # <<>>
  BY <1>1 DEF RoundsInv, RoundInv, Streaming
<1>4. Acted => IF Block THEN Said ELSE results # <<>>
  BY <1>2, <1>3 DEF Acted
<1>5. HardStop => Said
  BY <1>2 DEF HardStop
<1>6. BatchInv' /\ RoundInv' /\ PathUse'
  BY <1>1 DEF BatchInv, RoundInv, Streaming, PathUse
<1>7. Ending /\ ff' = <<>>
  BY <1>1 DEF RoundsInv, WaitInv, Ending, PathInv, OffPath
<1>8. QED
  BY <1>4, <1>5, <1>6, <1>7, RunTyped

(* An empty completion is asked for again: its question still waits. *)
LEMMA EmptyRound ==
    ASSUME TypeOK, PathInv, RoundsInv, RetryEmpty
    PROVE  RoundsInv' /\ Kept
<1>1. Drained /\ pc' = "top" /\ turns' = Recorded /\ ~Said
  BY DEF RetryEmpty, EmptyCompletion, Said
<1>2. /\ BatchInv' /\ RoundInv' /\ PathUse' /\ Ending
      /\ turns \in Seq(Turn) /\ calls \in Seq(Intents)
  BY <1>1, DrainedRound
<1>3. TurnInv
  BY DEF RoundsInv
<1>4. /\ Thread(turns') = Thread(turns) /\ (turns' = <<>> <=> turns = <<>>)
      /\ turns # <<>> => /\ Last(turns').results = <<>>
                        /\ Last(turns').input = Last(turns).input
      /\ Open(turns) => Open(turns')
  BY <1>1, <1>2, <1>3, RecordedTurns
<1>5. TurnInv' /\ Kept
  BY <1>2, <1>3, <1>4, KeptSteps DEF TurnInv, Block
<1>6. WaitInv'
  BY <1>1, <1>2, <1>4 DEF WaitInv, Waiting, Ending
<1>7. QED
  BY <1>2, <1>5, <1>6 DEF RoundsInv

(* The last round leaves an answer, or a marker in its place. *)
LEMMA LastRound ==
    ASSUME TypeOK, PathInv, RoundsInv, EndRound
    PROVE  RoundsInv' /\ Kept
<1>1. /\ Drained /\ pc' = "finish"
      /\ turns' = IF HardStop THEN Recorded ELSE SetResponseIfNone(Recorded, "marker")
  BY DEF EndRound
<1>2. /\ BatchInv' /\ RoundInv' /\ PathUse' /\ Ending /\ (HardStop => Said)
      /\ turns \in Seq(Turn) /\ calls \in Seq(Intents)
  BY <1>1, DrainedRound
<1>3. TurnInv
  BY DEF RoundsInv
<1> DEFINE r == Recorded
<1>4. /\ r \in Seq(Turn) /\ (r = <<>> <=> turns = <<>>)
      /\ turns # <<>> => /\ Last(r).results = <<>>
                        /\ Last(r).input = Last(turns).input
      /\ ~Said => Thread(r) = Thread(turns) /\ (Open(turns) => Open(r))
      /\ Said /\ turns # <<>> =>
           /\ Last(r).response = "text"
           /\ \/ Open(turns) /\ Thread(r) = Closed(Thread(turns), "text")
              \/ ~Open(turns) /\ Thread(r) = Thread(turns)
  BY <1>2, <1>3, RecordedTurns
<1>5. turns' = IF HardStop THEN r ELSE SetResponseIfNone(r, "marker")
  BY <1>1
<1> HIDE DEF r
<1>6. CASE turns = <<>>
  <2>1. turns' = <<>>
    BY <1>4, <1>5, <1>6 DEF SetResponseIfNone
  <2>2. QED
    BY <1>1, <1>2, <1>6, <2>1, KeptSteps DEF RoundsInv, TurnInv, WaitInv, Open
<1>7. CASE turns # <<>> /\ Said
  <2>1. turns' = r
    BY <1>4, <1>5, <1>7 DEF SetResponseIfNone
  <2>2. ~Open(turns')
    BY <1>4, <1>7, <2>1, ResponseStanding
  <2>3. TurnInv' /\ Kept
    BY <1>2, <1>3, <1>4, <1>7, <2>1, KeptSteps DEF TurnInv, Block
  <2>4. QED
    BY <1>1, <1>2, <2>2, <2>3 DEF RoundsInv, WaitInv
<1>8. CASE turns # <<>> /\ ~Said
  <2>1. Open(turns) /\ Open(r) /\ r # <<>> /\ Thread(r) = Thread(turns)
    BY <1>2, <1>4, <1>8 DEF Ending, Waiting
  <2>2. turns' = SetResponse(r, "marker")
    <3>1. Last(r).response = "none"
      BY <1>4, <2>1, ResponseStanding
    <3>2. QED
      BY <1>2, <1>5, <1>8, <2>1, <3>1 DEF SetResponseIfNone
  <2>3. /\ turns' # <<>> /\ ~Open(turns') /\ Last(turns').results = <<>>
        /\ Last(turns').input = Last(turns).input
        /\ Thread(turns') = Closed(Thread(turns), "marker")
    BY <1>4, <1>8, <2>1, <2>2, ResponseThread DEF ResponseKinds
  <2>4. TurnInv' /\ Kept
    BY <1>2, <1>3, <1>8, <2>1, <2>3, KeptSteps DEF TurnInv, Block
  <2>5. QED
    BY <1>1, <1>2, <2>3, <2>4 DEF RoundsInv, WaitInv
<1>9. QED
  BY <1>6, <1>7, <1>8

(* The results of a round end its question and are the next one. *)
LEMMA ResultsRound ==
    ASSUME TypeOK, PathInv, RoundsInv, NextRound
    PROVE  RoundsInv' /\ Kept
<1>1. /\ Drained /\ pc' = "top" /\ Acted
      /\ turns' = IF Protocol = "native"
                    THEN StartTurn(AppendNativeResults(Recorded, results), "empty")
                    ELSE StartResultsTurn(Recorded, results)
  BY DEF NextRound
<1>2. /\ BatchInv' /\ RoundInv' /\ PathUse' /\ Ending
      /\ IF Block THEN Said ELSE results # <<>>
      /\ turns \in Seq(Turn) /\ calls \in Seq(Intents) /\ results \in Seq(Intents)
  BY <1>1, DrainedRound
<1>3. TurnInv
  BY DEF RoundsInv
<1> DEFINE r == Recorded
           q == IF Block THEN r ELSE AppendNativeResults(r, results)
<1>4. /\ r \in Seq(Turn) /\ (r = <<>> <=> turns = <<>>)
      /\ turns # <<>> => Last(r).results = <<>>
      /\ ~Said => Thread(r) = Thread(turns) /\ (Open(turns) => Open(r))
      /\ Said /\ turns # <<>> =>
           /\ Last(r).response = "text"
           /\ \/ Open(turns) /\ Thread(r) = Closed(Thread(turns), "text")
              \/ ~Open(turns) /\ Thread(r) = Thread(turns)
  BY <1>2, <1>3, RecordedTurns
<1>5. \/ Block /\ turns' = Append(q, NewTurn("results", results))
      \/ ~Block /\ turns' = Append(q, NewTurn("empty", <<>>))
  BY <1>1, ProtocolAssumption DEF Block, StartTurn, StartResultsTurn
<1> HIDE DEF r
<1>6. /\ q \in Seq(Turn)
      /\ \/ turns = <<>> /\ q = <<>>
         \/ turns # <<>> /\ ~Open(turns) /\ Thread(q) = Thread(turns)
         \/ /\ Open(turns)
            /\ \E how \in {"text", "acted"} : Thread(q) = Closed(Thread(turns), how)
  <2>1. CASE turns = <<>>
    <3>1. q = <<>>
      BY <1>4, <2>1 DEF AppendNativeResults, OnCurrent
    <3>2. QED
      BY <2>1, <3>1, EmptySeq
  <2>2. CASE turns # <<>> /\ Said
    <3>1. q \in Seq(Turn) /\ Thread(q) = Thread(r)
      <4>1. CASE Block
        BY <1>4, <4>1
      <4>2. CASE ~Block
        <5>1. /\ q = AppendNativeResults(r, results) /\ r # <<>>
              /\ Last(r).results = <<>> /\ Last(r).response = "text"
          BY <1>4, <2>2, <4>2
        <5>2. /\ q \in Seq(Turn)
              /\ Thread(q) = Closed(Thread(r), Standing(Last(r)))
          BY <1>2, <1>4, <5>1, ResultsThread
        <5>3. QED
          BY <1>4, <5>1, <5>2, ClosedSame
      <4>3. QED
        BY <4>1, <4>2
    <3>2. QED
      BY <1>4, <2>2, <3>1
  <2>3. CASE turns # <<>> /\ ~Said
    <3>1. /\ ~Block /\ results # <<>> /\ Open(turns) /\ Open(r)
          /\ r # <<>> /\ Thread(r) = Thread(turns) /\ Last(r).results = <<>>
      BY <1>2, <1>4, <2>3 DEF Ending, Waiting
    <3>2. Last(r).response = "none"
      BY <1>4, <3>1, ResponseStanding
    <3>3. q \in Seq(Turn) /\ Thread(q) = Closed(Thread(r), "acted")
      BY <1>2, <1>4, <3>1, <3>2, ResultsThread
    <3>4. QED
      BY <3>1, <3>3
  <2>4. QED
    BY <2>1, <2>2, <2>3
<1> HIDE DEF q
<1>7. TurnInv' /\ Open(turns') /\ Thread(turns') = Append(Thread(q), "open")
  <2>1. <<>> \in Seq(Intents)
    BY EmptySeq
  <2>2. QED
    BY <1>2, <1>5, <1>6, <2>1, AskedTurns DEF InputKinds
<1>8. Kept
  <2>1. CASE turns = <<>> /\ q = <<>>
    BY <1>2, <1>7, <2>1, KeptSteps DEF Open
  <2>2. CASE ~Open(turns) /\ Thread(q) = Thread(turns)
    BY <1>2, <1>7, <2>2, KeptSteps
  <2>3. ASSUME Open(turns), NEW how \in {"text", "acted"},
               Thread(q) = Closed(Thread(turns), how)
        PROVE  Kept
    BY <1>2, <1>7, <2>3, KeptSteps
  <2>4. QED
    BY <1>6, <2>1, <2>2, <2>3
<1>9. WaitInv'
  BY <1>1, <1>7 DEF WaitInv, Waiting
<1>10. QED
  BY <1>2, <1>7, <1>8, <1>9 DEF RoundsInv

LEMMA RunEndRound ==
    ASSUME TypeOK, PathInv, RoundsInv, Finish \/ Fail
    PROVE  RoundsInv' /\ Kept
<1>0. /\ turns \in Seq(Turn) /\ pc' = "idle" /\ UNCHANGED dispatchVars
      /\ pc \in {"finish", "fail", "exhausted"} /\ TurnInv
  BY RunTyped DEF Finish, Fail, Return, RoundsInv
<1>1. BatchInv' /\ RoundInv' /\ PathUse'
  BY <1>0 DEF RoundsInv, dispatchVars, BatchInv, RoundInv, Streaming, PathUse
<1>2. CASE Finish
  <2>1. turns' = turns /\ ~Open(turns)
    BY <1>2 DEF Finish, RoundsInv, WaitInv
  <2>2. QED
    BY <1>0, <1>1, <2>1, KeptSteps DEF RoundsInv, TurnInv, WaitInv
<1>3. CASE Fail
  <2>1. turns' = SetResponseIfNone(turns, "error")
    BY <1>3 DEF Fail
  <2>2. CASE turns # <<>> /\ Last(turns).response = "none"
    <3>1. turns' = SetResponse(turns, "error")
      BY <2>1, <2>2 DEF SetResponseIfNone
    <3>2. Open(turns) \/ Standing(Last(turns)) = "left"
      BY <1>0, <2>2, ResponseStanding DEF TurnInv, Open
    <3>3. TurnInv' /\ Kept /\ ~Open(turns')
      BY <1>0, <3>1, <3>2, AnswerTurns DEF ResponseKinds
    <3>4. QED
      BY <1>0, <1>1, <3>3 DEF RoundsInv, WaitInv
  <2>3. CASE ~(turns # <<>> /\ Last(turns).response = "none")
    <3>1. turns' = turns
      BY <2>1, <2>3 DEF SetResponseIfNone
    <3>2. ~Open(turns)
      BY <1>0, <2>3, ResponseStanding DEF Open
    <3>3. QED
      BY <1>0, <1>1, <3>1, <3>2, KeptSteps DEF RoundsInv, TurnInv, WaitInv
  <2>4. QED
    BY <2>2, <2>3
<1>4. QED
  BY <1>2, <1>3

LEMMA NextRounds ==
    ASSUME TypeOK, HelperInv, PathInv, RoundsInv, NothingDropped, [Next]_vars
    PROVE  RoundsInv' /\ Kept
<1>0. turns \in Seq(Turn)
  BY RunTyped
<1>1. CASE DispatchMoves
  <2>1. turns' = turns
    BY <1>1 DEF DispatchMoves, runVars
  <2>2. QED
    BY <1>0, <1>1, <2>1, MovesRound, KeptSteps
<1>2. CASE UNCHANGED vars
  <2>1. RoundsInv'
    BY <1>2
       DEF vars, dispatchVars, RoundsInv, BatchInv, RoundInv, Streaming, Said, PathUse,
           TurnInv, WaitInv, Waiting, Open
  <2>2. QED
    BY <1>0, <1>2, <2>1, KeptSteps DEF vars
<1>3. QED
  BY <1>1, <1>2, StartRound, TopRound, TeleportRound, OpenRound, StreamRound,
     ReturnRound, EmptyRound, LastRound, ResultsRound, RunEndRound DEF Next, RunStep

LEMMA InitRounds == Init => RoundsInv
BY DEF Init, DispatchInit, RoundsInv, BatchInv, RoundInv, Streaming, PathUse, TurnInv,
       WaitInv, Waiting, Open

ConversationInv == TypeOK /\ HelperInv /\ PathInv /\ RoundsInv

LEMMA ConversationInvariance ==
    ASSUME NothingDropped
    PROVE  Spec => []ConversationInv
<1>1. Init => ConversationInv
  BY InitTypes, InitPath, InitRounds DEF ConversationInv
<1>2. ConversationInv /\ [Next]_vars => ConversationInv'
  BY NextTypes, NextPath, NextRounds DEF ConversationInv
<1>3. QED
  BY <1>1, <1>2, PTL DEF Spec

-----------------------------------------------------------------------------

(* If every run has an input, and native turns are not retried, the turns   *)
(* are a Conversation whatever streams, batches, teleports, hooks and errors *)
(* do: one open question at a time, no answer changed.                     *)
THEOREM KeepsConversation ==
    ASSUME NothingDropped
    PROVE  Spec => ConversationKept
<1>1. Init => Conversation!Init
  BY EmptySeq DEF Init, Conversation!Init
<1>2. ConversationInv /\ [Next]_vars
        => [Conversation!Next]_([k \in DOMAIN turns |-> Standing(turns[k])])
  BY NextRounds DEF ConversationInv, Kept, Thread
<1>3. QED
  BY <1>1, <1>2, ConversationInvariance, PTL DEF Spec, ConversationKept, Conversation!Spec

(* Under the same assumptions no question that was answered is put to the   *)
(* model again.                                                            *)
THEOREM OneCall ==
    ASSUME NothingDropped
    PROVE  Spec => []OneCallPerTurn
<1>1. ConversationInv => OneCallPerTurn
  BY DEF ConversationInv, RoundsInv, WaitInv, Waiting, OneCallPerTurn
<1>2. QED
  BY <1>1, ConversationInvariance, PTL

(* The model is asked nothing only where a run was restarted. *)
THEOREM RequestsHaveTurns ==
    ASSUME NothingDropped, "run_start" \notin Decisions
    PROVE  Spec => []RequestHasTurn
<1>1. ConversationInv => RequestHasTurn
  BY DEF ConversationInv, RoundsInv, WaitInv, Waiting, Open, RequestHasTurn
<1>2. QED
  BY <1>1, ConversationInvariance, PTL

-----------------------------------------------------------------------------
(* How often an intent occurs. *)

Where(s, i) == {k \in DOMAIN s : s[k] = i}

LEMMA WhereFinite ==
    ASSUME NEW S, NEW s \in Seq(S), NEW i
    PROVE  /\ IsFiniteSet(Where(s, i)) /\ Count(s, i) = Cardinality(Where(s, i))
           /\ Count(s, i) \in Nat
<1>1. DOMAIN s = 1..Len(s) /\ Len(s) \in Nat
  BY LenProperties
<1>2. IsFiniteSet(1..Len(s))
  BY <1>1, FS_Interval
<1>3. Where(s, i) \in SUBSET (1..Len(s))
  BY <1>1 DEF Where
<1>4. IsFiniteSet(Where(s, i))
  BY <1>2, <1>3, FS_Subset
<1>5. QED
  BY <1>4, FS_CardinalityType DEF Count, Where

LEMMA CountEmpty ==
    ASSUME NEW i
    PROVE  Count(<<>>, i) = 0
<1>1. Where(<<>>, i) = {}
  BY DEF Where
<1>2. QED
  BY <1>1, FS_EmptySet DEF Count, Where

LEMMA CountAppend ==
    ASSUME NEW S, NEW s \in Seq(S), NEW x \in S, NEW i
    PROVE  Count(Append(s, x), i) = Count(s, i) + (IF x = i THEN 1 ELSE 0)
<1> DEFINE n == Len(s) + 1
           t == Append(s, x)
<1>1. /\ DOMAIN s = 1..Len(s) /\ Len(s) \in Nat
      /\ DOMAIN t = 1..n /\ t[n] = x /\ \A k \in 1..Len(s) : t[k] = s[k]
  BY LenProperties, AppendProperties
<1>2. IsFiniteSet(Where(s, i)) /\ n \notin Where(s, i)
  <2>1. n \notin DOMAIN s
    BY <1>1
  <2>2. QED
    BY <2>1, WhereFinite DEF Where
<1>3. Count(s, i) = Cardinality(Where(s, i)) /\ Count(t, i) = Cardinality(Where(t, i))
  BY DEF Count, Where
<1>4. CASE x = i
  <2>1. Where(t, i) = Where(s, i) \cup {n}
    <3> HIDE DEF t
    <3>1. QED
      BY <1>1, <1>4 DEF Where
  <2>2. Cardinality(Where(s, i) \cup {n}) = Cardinality(Where(s, i)) + 1
    BY <1>2, FS_AddElement
  <2>3. QED
    BY <1>3, <1>4, <2>1, <2>2
<1>5. CASE x # i
  <2>1. Where(t, i) = Where(s, i)
    <3> HIDE DEF t
    <3>1. QED
      BY <1>1, <1>5 DEF Where
  <2>2. QED
    BY <1>3, <1>5, <2>1, WhereFinite
<1>6. QED
  BY <1>4, <1>5

(* The same result on both sides of the account. *)
LEMMA AppendBoth ==
    ASSUME NEW r \in Seq(Intents), NEW s \in Seq(Intents), NEW t \in Seq(Intents),
           NEW x \in Intents, NEW i, Count(r, i) = Count(s, i) + Count(t, i)
    PROVE  Count(Append(r, x), i) = Count(s, i) + Count(Append(t, x), i)
<1>1. Count(r, i) \in Nat /\ Count(s, i) \in Nat /\ Count(t, i) \in Nat
  BY WhereFinite
<1>2. /\ Count(Append(r, x), i) = Count(r, i) + (IF x = i THEN 1 ELSE 0)
      /\ Count(Append(t, x), i) = Count(t, i) + (IF x = i THEN 1 ELSE 0)
  BY CountAppend
<1>3. CASE x = i
  BY <1>1, <1>2, <1>3
<1>4. CASE x # i
  BY <1>1, <1>2, <1>4
<1>5. QED
  BY <1>3, <1>4

LEMMA CountConcat ==
    ASSUME NEW S, NEW s \in Seq(S), NEW t \in Seq(S), NEW i
    PROVE  Count(s \o t, i) = Count(s, i) + Count(t, i)
<1> DEFINE n == Len(s)
           u == s \o t
           moved == {k \in (n + 1)..(n + Len(t)) : u[k] = i}
           shift == [k \in Where(t, i) |-> k + n]
<1>1. /\ n \in Nat /\ Len(t) \in Nat
      /\ DOMAIN s = 1..n /\ DOMAIN t = 1..Len(t) /\ DOMAIN u = 1..(n + Len(t))
      /\ \A k \in 1..n : u[k] = s[k]
      /\ \A k \in (n + 1)..(n + Len(t)) : u[k] = t[k - n]
  <2>1. u \in Seq(S) /\ Len(u) = n + Len(t) /\ n \in Nat /\ Len(t) \in Nat
    BY ConcatProperties, LenProperties
  <2>2. \A k \in 1..(n + Len(t)) : u[k] = IF k <= n THEN s[k] ELSE t[k - n]
    BY ConcatProperties
  <2>3. QED
    BY <2>1, <2>2, LenProperties
<1> HIDE DEF n, u
<1>2. Where(u, i) = Where(s, i) \cup moved /\ Where(s, i) \cap moved = {}
  BY <1>1 DEF Where
<1>3. IsFiniteSet(moved) /\ Cardinality(moved) = Cardinality(Where(t, i))
  <2>1. \A k \in Where(t, i) : k \in 1..Len(t) /\ t[k] = i
    BY <1>1 DEF Where
  <2>2. \A k \in Where(t, i) : k + n \in (n + 1)..(n + Len(t)) /\ u[k + n] = t[k]
    <3> SUFFICES ASSUME NEW k \in Where(t, i)
                 PROVE  k + n \in (n + 1)..(n + Len(t)) /\ u[k + n] = t[k]
      OBVIOUS
    <3>1. k + n \in (n + 1)..(n + Len(t)) /\ (k + n) - n = k
      BY <1>1, <2>1
    <3>2. QED
      BY <1>1, <3>1
  <2>3. shift \in [Where(t, i) -> moved]
    BY <2>1, <2>2
  <2>4. ASSUME NEW a \in Where(t, i), NEW b \in Where(t, i), shift[a] = shift[b]
        PROVE  a = b
    BY <1>1, <2>1, <2>4
  <2>5. ASSUME NEW m \in moved PROVE \E k \in Where(t, i) : shift[k] = m
    <3>1. m - n \in 1..Len(t) /\ t[m - n] = i /\ (m - n) + n = m
      BY <1>1, <2>5
    <3>2. m - n \in Where(t, i)
      BY <1>1, <3>1 DEF Where
    <3>3. QED
      BY <3>1, <3>2
  <2>6. shift \in Bijection(Where(t, i), moved)
    <3> HIDE DEF shift, moved
    <3>1. QED
      BY <2>3, <2>4, <2>5 DEF Bijection, Injection, Surjection, IsInjective
  <2>7. ExistsBijection(Where(t, i), moved)
    BY <2>6 DEF ExistsBijection
  <2>8. QED
    BY <2>7, WhereFinite, FS_Bijection
<1>4. Cardinality(Where(u, i)) = Cardinality(Where(s, i)) + Cardinality(moved)
  <2> HIDE DEF moved
  <2>1. Cardinality(Where(s, i) \cup moved)
          = Cardinality(Where(s, i)) + Cardinality(moved) - Cardinality(Where(s, i) \cap moved)
    BY <1>3, WhereFinite, FS_Union
  <2>2. Cardinality(Where(s, i) \cap moved) = 0
    BY <1>2, FS_EmptySet
  <2>3. Cardinality(Where(s, i)) \in Nat /\ Cardinality(moved) \in Nat
    BY <1>3, WhereFinite, FS_CardinalityType
  <2>4. QED
    BY <1>2, <2>1, <2>2, <2>3
<1>5. Count(s \o t, i) = Cardinality(Where(u, i))
  BY DEF Count, Where, u
<1>6. QED
  BY <1>3, <1>4, <1>5, WhereFinite

-----------------------------------------------------------------------------
(* The account of a round. *)

(* The deferred actions that gave a result: neither running nor failed. *)
Ended(i) == {k \in DOMAIN deferred : /\ deferred[k] = i
                                     /\ k \notin failed
                                     /\ \A a \in live : a.index # k}

(* Every deferred action runs once. *)
LiveInv ==
    /\ \A a, b \in live : a.index = b.index => a = b
    /\ \A a \in live : a.index \notin failed
    /\ dpc \in {"idle", "intents", "helper"} => failed = {}
    /\ dpc # "actions" => live = {}

(* What gave a result is in pending_tool_results, or gathered, or ended; a  *)
(* batch that fails ends the run, and what it executed with it.            *)
AccountInv == \A i \in Intents :
    /\ dpc \in {"idle", "ok"} /\ pc \in {"stream", "leaving", "dispatch"} =>
         Count(ran, i) = Count(results, i)
    /\ dpc \in {"intents", "helper"} =>
         Count(ran, i) = Count(results, i) + Count(gathered, i)
    /\ dpc = "actions" =>
         Count(ran, i) = Count(results, i) + Count(gathered, i) + Cardinality(Ended(i))

(* A round that has not acted has executed nothing. *)
QuietInv ==
    /\ pc \in {"llm_start", "open"} => ran = <<>> /\ results = <<>> /\ did = {}
    /\ pc \in {"stream", "leaving"} /\ "acted" \notin did => ran = <<>>
    /\ pc = "dispatch" /\ "acted" \notin did \cup ret => ran = <<>> /\ deferred = <<>>
    /\ pc = "dispatch" /\ back = "teleport" => did = {}

-----------------------------------------------------------------------------
(* A move of process_intents keeps the account. *)

BatchOK == LiveInv /\ AccountInv /\ QuietInv

LEMMA MovesTyped ==
    TypeOK => /\ gathered \in Seq(Intents) /\ deferred \in Seq(Intents)
              /\ results \in Seq(Intents) /\ ran \in Seq(Intents)
              /\ batch \in Seq(Intents) /\ pos \in Nat \ {0}
              /\ \A a \in live : a.index \in DOMAIN deferred
BY DEF TypeOK, DispatchTypeOK, BatchTypeOK, EngineTypeOK

(* Reading an intent: nothing, a result more on both sides, or one deferred. *)
LEMMA ReadAccount ==
    ASSUME TypeOK, PathInv, BatchOK, pc = "dispatch", UNCHANGED runVars,
           DropResponse \/ Respond \/ Custom \/ Skip \/ Override \/ Defer
    PROVE  BatchOK'
<1>0. /\ gathered \in Seq(Intents) /\ deferred \in Seq(Intents)
      /\ results \in Seq(Intents) /\ ran \in Seq(Intents)
  BY MovesTyped
<1>1. /\ dpc = "intents" /\ dpc' = dpc /\ live' = live /\ failed' = failed
      /\ results' = results /\ pc' = pc /\ back' = back /\ did' = did
      /\ \/ ret' = ret /\ gathered' = gathered /\ deferred' = deferred /\ ran' = ran
         \/ /\ ret' = ret \cup {"acted"} /\ deferred' = deferred
            /\ gathered' = Append(gathered, batch[pos]) /\ ran' = Append(ran, batch[pos])
         \/ ret' = ret \cup {"acted"} /\ gathered' = gathered /\ ran' = ran
  BY DEF DropResponse, Respond, Custom, Skip, Override, Defer, Take, At,
     engineVars, runVars
<1>2. LiveInv' /\ QuietInv'
  BY <1>1 DEF BatchOK, LiveInv, QuietInv
<1>3. batch[pos] \in Intents
  BY BatchIntent DEF DropResponse, Respond, Custom, Skip, Override, Defer, Take, At, TypeOK
<1>4. ASSUME NEW i \in Intents
      PROVE  Count(ran', i) = Count(results', i) + Count(gathered', i)
  <2>1. Count(ran, i) = Count(results, i) + Count(gathered, i)
    BY <1>1 DEF BatchOK, AccountInv
  <2>2. Count(Append(ran, batch[pos]), i)
          = Count(results, i) + Count(Append(gathered, batch[pos]), i)
    BY <1>0, <1>3, <2>1, AppendBoth
  <2>3. QED
    BY <1>1, <2>1, <2>2
<1>5. AccountInv'
  BY <1>1, <1>4 DEF AccountInv
<1>6. QED
  BY <1>2, <1>5 DEF BatchOK

LEMMA HelperAccount ==
    ASSUME TypeOK, HelperInv, PathInv, BatchOK, pc = "dispatch", UNCHANGED runVars,
           EnterHelper \/ EnterStranger \/ \E outcome \in Outcomes : LeaveHelper(outcome)
    PROVE  BatchOK'
<1>0. /\ gathered \in Seq(Intents) /\ results \in Seq(Intents) /\ ran \in Seq(Intents)
  BY MovesTyped
<1>1. CASE EnterHelper \/ EnterStranger
  <2>1. /\ dpc = "intents" /\ dpc' \in {"helper", "error"}
        /\ UNCHANGED <<live, failed, ret, gathered, deferred, results, ran, pc, back, did>>
    BY <1>1 DEF EnterHelper, EnterStranger, At, runVars
  <2>2. QED
    BY <2>1 DEF BatchOK, LiveInv, AccountInv, QuietInv
<1>2. ASSUME NEW outcome \in Outcomes, LeaveHelper(outcome)
      PROVE  BatchOK'
  <2>1. /\ dpc = "helper"
        /\ UNCHANGED <<live, failed, deferred, results, pc, back, did>>
        /\ \/ dpc' = "error" /\ ret' = ret /\ gathered' = gathered /\ ran' = ran
           \/ /\ dpc' = "intents" /\ "acted" \in ret'
              /\ gathered' = Append(gathered, batch[pos])
              /\ ran' = Append(ran, batch[pos])
    BY <1>2 DEF LeaveHelper, runVars
  <2>2. LiveInv' /\ QuietInv'
    BY <2>1 DEF BatchOK, LiveInv, QuietInv
  <2>3. batch[pos] \in Intents
    BY <2>1, BatchIntent DEF HelperInv, TypeOK
  <2>4. ASSUME NEW i \in Intents, dpc' = "intents"
        PROVE  Count(ran', i) = Count(results', i) + Count(gathered', i)
    <3>1. Count(ran, i) = Count(results, i) + Count(gathered, i)
      BY <2>1 DEF BatchOK, AccountInv
    <3>2. Count(Append(ran, batch[pos]), i)
            = Count(results, i) + Count(Append(gathered, batch[pos]), i)
      BY <1>0, <2>3, <3>1, AppendBoth
    <3>3. QED
      BY <2>1, <2>4, <3>2
  <2>5. AccountInv'
    BY <2>1, <2>4 DEF AccountInv
  <2>6. QED
    BY <2>2, <2>5 DEF BatchOK
<1>3. QED
  BY <1>1, <1>2

(* The deferred actions that ended, by those still running or failed. *)
Busy(k) == k \in failed \/ \E a \in live : a.index = k

LEMMA SameEnded ==
    ASSUME deferred' = deferred, \A k \in DOMAIN deferred : Busy(k)' <=> Busy(k), NEW i
    PROVE  Ended(i)' = Ended(i)
BY DEF Ended, Busy

LEMMA EndedFinite ==
    ASSUME TypeOK, NEW i
    PROVE  IsFiniteSet(Ended(i)) /\ Cardinality(Ended(i)) \in Nat
<1>1. IsFiniteSet(Where(deferred, i))
  BY MovesTyped, WhereFinite
<1>2. Ended(i) \in SUBSET Where(deferred, i)
  BY DEF Ended, Where
<1>3. QED
  BY <1>1, <1>2, FS_Subset, FS_CardinalityType

(* An action gives its result: it ended, and is one more of those that ran. *)
LEMMA DoneAccount ==
    ASSUME TypeOK, PathInv, BatchOK, pc = "dispatch", UNCHANGED runVars,
           NEW a \in live, ActionDone(a)
    PROVE  BatchOK'
<1>0. /\ deferred \in Seq(Intents) /\ gathered \in Seq(Intents)
      /\ results \in Seq(Intents) /\ ran \in Seq(Intents)
      /\ a.index \in DOMAIN deferred
  BY MovesTyped
<1>1. /\ dpc = "actions" /\ dpc' = dpc /\ live' = live \ {a}
      /\ ran' = Append(ran, deferred[a.index])
      /\ UNCHANGED <<failed, deferred, gathered, results, ret, pc, back, did>>
  BY DEF ActionDone, PathInv, Places, runVars
<1>2. deferred # <<>> /\ deferred[a.index] \in Intents
  BY <1>0, EmptySeq, ElementOfSeq, LenProperties
<1>3. LiveInv' /\ QuietInv'
  BY <1>1, <1>2 DEF BatchOK, LiveInv, QuietInv
<1>4. ASSUME NEW i \in Intents
      PROVE  Count(ran', i) = Count(results', i) + Count(gathered', i) + Cardinality(Ended(i)')
  <2>1. Count(ran, i) = Count(results, i) + Count(gathered, i) + Cardinality(Ended(i))
    BY <1>1 DEF BatchOK, AccountInv
  <2>2. /\ Count(ran, i) \in Nat /\ Count(results, i) \in Nat /\ Count(gathered, i) \in Nat
        /\ IsFiniteSet(Ended(i)) /\ Cardinality(Ended(i)) \in Nat
    BY <1>0, WhereFinite, EndedFinite
  <2>3. a.index \notin failed /\ \A b \in live' : b.index # a.index
    BY <1>1 DEF BatchOK, LiveInv
  <2>4. Ended(i)' = IF deferred[a.index] = i THEN Ended(i) \cup {a.index} ELSE Ended(i)
    BY <1>0, <1>1, <2>3 DEF Ended
  <2>5. a.index \notin Ended(i)
    BY DEF Ended
  <2>6. Count(ran', i) = Count(ran, i) + (IF deferred[a.index] = i THEN 1 ELSE 0)
    BY <1>0, <1>1, <1>2, CountAppend
  <2>7. CASE deferred[a.index] = i
    <3>1. Cardinality(Ended(i)') = Cardinality(Ended(i)) + 1
      BY <2>2, <2>4, <2>5, <2>7, FS_AddElement
    <3>2. QED
      BY <1>1, <2>1, <2>2, <2>6, <2>7, <3>1
  <2>8. CASE deferred[a.index] # i
    BY <1>1, <2>1, <2>2, <2>4, <2>6, <2>8
  <2>9. QED
    BY <2>7, <2>8
<1>5. AccountInv'
  BY <1>1, <1>4 DEF AccountInv
<1>6. QED
  BY <1>3, <1>5 DEF BatchOK

(* A workflow fails, or enters or leaves a helper: no result, and it is as  *)
(* busy as it was.                                                         *)
LEMMA WorkflowAccount ==
    ASSUME TypeOK, PathInv, BatchOK, pc = "dispatch", UNCHANGED runVars, NEW a \in live,
           \/ WorkflowFails(a)
           \/ \E h \in Transfers : WorkflowEntersHelper(a, h)
           \/ \E outcome \in Outcomes : WorkflowLeavesHelper(a, outcome)
    PROVE  BatchOK'
<1>0. dpc = "actions"
  BY DEF PathInv, Places
<1>1. /\ UNCHANGED <<dpc, ran, deferred, gathered, results, ret, pc, back, did>>
      /\ \/ live' = live \ {a} /\ failed' = failed \cup {a.index}
         \/ /\ failed' = failed
            /\ \E b : b.index = a.index /\ live' = (live \ {a}) \cup {b}
  <2>1. CASE WorkflowFails(a)
    BY <2>1 DEF WorkflowFails, engineVars, runVars
  <2>2. ASSUME NEW h \in Transfers, WorkflowEntersHelper(a, h)
        PROVE  /\ UNCHANGED <<dpc, ran, deferred, gathered, results, ret, pc, back, did>>
               /\ failed' = failed
               /\ \E b : b.index = a.index /\ live' = (live \ {a}) \cup {b}
    <3> DEFINE b == [index |-> a.index, inside |-> h, calls |-> a.calls + 1]
    <3>1. b.index = a.index /\ live' = (live \ {a}) \cup {b}
      BY <2>2 DEF WorkflowEntersHelper
    <3>2. QED
      BY <2>2, <3>1 DEF WorkflowEntersHelper, runVars
  <2>3. ASSUME NEW outcome \in Outcomes, WorkflowLeavesHelper(a, outcome)
        PROVE  /\ UNCHANGED <<dpc, ran, deferred, gathered, results, ret, pc, back, did>>
               /\ \/ live' = live \ {a} /\ failed' = failed \cup {a.index}
                  \/ /\ failed' = failed
                     /\ \E b : b.index = a.index /\ live' = (live \ {a}) \cup {b}
    <3> DEFINE b == [a EXCEPT !.inside = Agent]
    <3>0. b.index = a.index
      BY DEF TypeOK, DispatchTypeOK, BatchTypeOK
    <3>1. \/ live' = live \ {a} /\ failed' = failed \cup {a.index}
          \/ live' = (live \ {a}) \cup {b} /\ failed' = failed
      BY <2>3 DEF WorkflowLeavesHelper
    <3>2. QED
      BY <2>3, <3>0, <3>1 DEF WorkflowLeavesHelper, runVars
  <2>4. QED
    BY <2>1, <2>2, <2>3
<1>2. LiveInv' /\ \A k : Busy(k)' <=> Busy(k)
  <2>1. CASE live' = live \ {a} /\ failed' = failed \cup {a.index}
    BY <1>0, <1>1, <2>1 DEF BatchOK, LiveInv, Busy
  <2>2. ASSUME failed' = failed, NEW b, b.index = a.index, live' = (live \ {a}) \cup {b}
        PROVE  LiveInv' /\ \A k : Busy(k)' <=> Busy(k)
    <3>1. \A c, d \in live' : c.index = d.index => c = d
      BY <2>2 DEF BatchOK, LiveInv
    <3>2. \A c \in live' : c.index \notin failed'
      BY <2>2 DEF BatchOK, LiveInv
    <3>3. LiveInv'
      BY <1>0, <1>1, <3>1, <3>2 DEF LiveInv
    <3>4. \A k : (\E c \in live' : c.index = k) <=> (\E c \in live : c.index = k)
      BY <2>2
    <3>5. QED
      BY <2>2, <3>3, <3>4 DEF Busy
  <2>3. QED
    BY <1>1, <2>1, <2>2
<1>3. \A i : Ended(i)' = Ended(i)
  BY <1>1, <1>2, SameEnded
<1>4. AccountInv' /\ QuietInv'
  BY <1>0, <1>1, <1>3 DEF BatchOK, AccountInv, QuietInv
<1>5. QED
  BY <1>2, <1>4 DEF BatchOK

(* When the actions start none has ended, and when the batch ends all have. *)
LEMMA EndAccount ==
    ASSUME TypeOK, PathInv, BatchOK, pc = "dispatch", UNCHANGED runVars,
           StartActions \/ EndBatch
    PROVE  BatchOK'
<1>0. /\ deferred \in Seq(Intents) /\ gathered \in Seq(Intents)
      /\ results \in Seq(Intents) /\ ran \in Seq(Intents)
  BY MovesTyped
<1>1. CASE StartActions
  <2>1. /\ dpc = "intents" /\ dpc' = "actions"
        /\ live' = {[index |-> k, inside |-> Agent, calls |-> 0] : k \in DOMAIN deferred}
        /\ UNCHANGED <<failed, deferred, gathered, results, ran, ret, pc, back, did>>
    BY <1>1 DEF StartActions, engineVars, runVars
  <2>2. failed = {}
    BY <2>1 DEF BatchOK, LiveInv
  <2>3. LiveInv' /\ QuietInv'
    BY <2>1, <2>2 DEF BatchOK, LiveInv, QuietInv
  <2>4. \A i : Ended(i)' = {}
    <3>1. ASSUME NEW k \in DOMAIN deferred PROVE \E a \in live' : a.index = k
      <4>1. [index |-> k, inside |-> Agent, calls |-> 0] \in live'
        BY <2>1
      <4>2. QED
        BY <4>1
    <3>2. QED
      BY <2>1, <3>1 DEF Ended
  <2>5. ASSUME NEW i \in Intents
        PROVE  Count(ran', i) = Count(results', i) + Count(gathered', i) + Cardinality(Ended(i)')
    <3>1. Count(ran, i) = Count(results, i) + Count(gathered, i)
      BY <2>1 DEF BatchOK, AccountInv
    <3>2. Cardinality(Ended(i)') = 0
      BY <2>4, FS_EmptySet
    <3>3. Count(results, i) + Count(gathered, i) + 0 = Count(results, i) + Count(gathered, i)
      BY <1>0, WhereFinite
    <3>4. QED
      BY <2>1, <3>1, <3>2, <3>3
  <2>6. AccountInv'
    BY <2>1, <2>5 DEF AccountInv
  <2>7. QED
    BY <2>3, <2>6 DEF BatchOK
<1>2. CASE EndBatch
  <2>1. /\ dpc = "actions" /\ live = {}
        /\ \/ failed = {} /\ dpc' = "ok" /\ results' = (results \o gathered) \o deferred
           \/ dpc' = "error"
        /\ UNCHANGED <<live, failed, deferred, gathered, ran, ret, pc, back, did>>
    BY <1>2 DEF EndBatch, runVars
  <2>2. LiveInv' /\ QuietInv'
    BY <2>1 DEF BatchOK, LiveInv, QuietInv
  <2>3. ASSUME NEW i \in Intents, dpc' = "ok"
        PROVE  Count(ran', i) = Count(results', i)
    <3>1. Count(ran, i) = Count(results, i) + Count(gathered, i) + Cardinality(Ended(i))
      BY <2>1 DEF BatchOK, AccountInv
    <3>2. Ended(i) = Where(deferred, i)
      BY <2>1, <2>3 DEF Ended, Where
    <3>3. Cardinality(Ended(i)) = Count(deferred, i)
      BY <1>0, <3>2, WhereFinite
    <3>4. results \o gathered \in Seq(Intents)
      BY <1>0, ConcatProperties
    <3>5. Count((results \o gathered) \o deferred, i)
            = Count(results, i) + Count(gathered, i) + Count(deferred, i)
      <4>1. Count((results \o gathered) \o deferred, i)
              = Count(results \o gathered, i) + Count(deferred, i)
        BY <1>0, <3>4, CountConcat
      <4>2. Count(results \o gathered, i) = Count(results, i) + Count(gathered, i)
        BY <1>0, CountConcat
      <4>3. QED
        BY <4>1, <4>2
    <3>6. QED
      BY <2>1, <2>3, <3>1, <3>3, <3>5
  <2>4. AccountInv'
    BY <2>1, <2>3 DEF AccountInv
  <2>5. QED
    BY <2>2, <2>4 DEF BatchOK
<1>3. QED
  BY <1>1, <1>2

LEMMA MovesAccount ==
    ASSUME TypeOK, HelperInv, PathInv, BatchOK, DispatchMoves
    PROVE  BatchOK'
<1>1. pc = "dispatch" /\ UNCHANGED runVars
  BY DEF DispatchMoves
<1>2. QED
  BY <1>1, ReadAccount, HelperAccount, DoneAccount, WorkflowAccount, EndAccount
     DEF DispatchMoves, DispatchStep

-----------------------------------------------------------------------------
(* No result waits in the current turn, and block mode asks with an input.  *)

Clear(ts) ==
    /\ ts # <<>> => Last(ts).results = <<>>
    /\ ts # <<>> /\ Block => Last(ts).input # "empty"

LEMMA ResponseClear ==
    ASSUME NEW ts \in Seq(Turn), Clear(ts), NEW r \in ResponseKinds \ {"none"}
    PROVE  /\ SetResponse(ts, r) \in Seq(Turn) /\ Clear(SetResponse(ts, r))
           /\ Clear(SetResponseIfNone(ts, r))
<1> DEFINE s == SetResponse(ts, r)
<1>1. s \in Seq(Turn) /\ Clear(s)
  <2>1. CASE ts = <<>>
    BY <2>1, NoTurnNoResponse
  <2>2. CASE ts # <<>>
    <3>1. /\ s \in Seq(Turn)
          /\ Last(s).input = Last(ts).input /\ Last(s).results = Last(ts).results
      BY <2>2, ResponseThread
    <3> HIDE DEF s
    <3>2. QED
      BY <2>2, <3>1 DEF Clear
  <2>3. QED
    BY <2>1, <2>2
<1>2. QED
  BY <1>1 DEF SetResponseIfNone

LEMMA CallsClear ==
    ASSUME NEW ts \in Seq(Turn), Clear(ts), NEW cs \in Seq(Intents)
    PROVE  SetNativeCalls(ts, cs) \in Seq(Turn) /\ Clear(SetNativeCalls(ts, cs))
<1> DEFINE s == SetNativeCalls(ts, cs)
<1>1. CASE ts = <<>>
  BY <1>1 DEF SetNativeCalls, OnCurrent
<1>2. CASE ts # <<>>
  <2>1. /\ s \in Seq(Turn)
        /\ Last(s).input = Last(ts).input /\ Last(s).results = Last(ts).results
    BY <1>2, CallsThread
  <2> HIDE DEF s
  <2>2. Clear(s)
    BY <1>2, <2>1 DEF Clear
  <2>3. QED
    BY <2>1, <2>2 DEF s
<1>3. QED
  BY <1>1, <1>2

LEMMA GivenUpClear ==
    ASSUME turns \in Seq(Turn), Clear(turns)
    PROVE  GivenUp \in Seq(Turn) /\ Clear(GivenUp)
<1>1. CASE Open(turns)
  <2> DEFINE s == GiveUp(turns)
  <2>1. /\ s \in Seq(Turn) /\ s # <<>> /\ turns # <<>>
        /\ Last(s).input = Last(turns).input /\ Last(s).results = Last(turns).results
    BY <1>1, GiveUpThread DEF Open
  <2>2. GivenUp = s
    BY <1>1 DEF GivenUp
  <2> HIDE DEF s
  <2>3. QED
    BY <2>1, <2>2 DEF Clear
<1>2. CASE ~Open(turns)
  BY <1>2 DEF GivenUp
<1>3. QED
  BY <1>1, <1>2

LEMMA RecordedClear ==
    ASSUME turns \in Seq(Turn), calls \in Seq(Intents), Clear(turns)
    PROVE  /\ Answered \in Seq(Turn) /\ Clear(Answered)
           /\ Recorded \in Seq(Turn) /\ Clear(Recorded)
<1>1. Answered \in Seq(Turn) /\ Clear(Answered)
  BY ResponseClear DEF Answered, ResponseKinds
<1>2. QED
  BY <1>1, CallsClear DEF Recorded

LEMMA AskedClear ==
    ASSUME NEW ts \in Seq(Turn), NEW input \in InputKinds, NEW payload \in Seq(Intents),
           input # "empty" \/ ~Block
    PROVE  Clear(Append(ts, NewTurn(input, payload)))
<1> DEFINE s == Append(ts, NewTurn(input, payload))
<1>1. Last(s).input = input /\ Last(s).results = <<>>
  BY AskThread
<1> HIDE DEF s
<1>2. Clear(s)
  BY <1>1 DEF Clear
<1>3. QED
  BY <1>2 DEF s

(* Only a native turn that is asked again can bring back an older turn.     *)
NoneBrought == Block \/ "llm_start" \notin Decisions

LEMMA NextClear ==
    ASSUME TypeOK, NoneBrought, Clear(turns), [Next]_vars
    PROVE  Clear(turns')
<1>0. turns \in Seq(Turn) /\ calls \in Seq(Intents) /\ results \in Seq(Intents)
  BY RunTyped
<1>1. Clear(<<>>)
  BY DEF Clear
<1>2. CASE StartRun
  <2>1. PICK kept \in {turns, <<>>} :
          turns' = kept \/ turns' = Append(kept, NewTurn("user", <<>>))
    BY <1>2 DEF StartRun, StartTurn
  <2>2. kept \in Seq(Turn) /\ Clear(kept)
    BY <1>0, <1>1, EmptySeq
  <2>3. Clear(Append(kept, NewTurn("user", <<>>)))
    BY <2>2, AskedClear, EmptySeq DEF InputKinds
  <2>4. QED
    BY <2>1, <2>2, <2>3
<1>3. CASE TeleportReturns
  <2>1. \/ turns' = turns \/ turns' = GivenUp
        \/ turns' = Append(GivenUp, NewTurn("results", results))
    BY <1>3 DEF TeleportReturns, StartResultsTurn
  <2>2. QED
    BY <1>0, <2>1, GivenUpClear, AskedClear DEF InputKinds
<1>4. CASE Propagate \/ StreamError \/ Fail
  <2>1. turns' = SetResponse(turns, "error") \/ turns' = SetResponseIfNone(turns, "error")
    BY <1>4 DEF Propagate, StreamError, Fail
  <2>2. QED
    BY <1>0, <2>1, ResponseClear DEF ResponseKinds
<1>5. CASE Swallow
  BY <1>0, <1>5, GivenUpClear DEF Swallow
<1>6. CASE RetryTurn
  <2>1. "llm_start" \in Decisions /\ (turns' = turns \/ turns' = PopLastIfEmpty(turns))
    BY <1>6 DEF RetryTurn, OpenFails
  <2>2. PopLastIfEmpty(turns) = turns
    BY <2>1 DEF NoneBrought, Clear, PopLastIfEmpty
  <2>3. QED
    BY <2>1, <2>2
<1>7. CASE RetryRun
  BY <1>1, <1>7 DEF RetryRun
<1>8. CASE BatchFails \/ BatchReturns
  <2>1. turns' = Answered \/ turns' = turns
    BY <1>8 DEF BatchFails, BatchReturns
  <2>2. QED
    BY <1>0, <2>1, RecordedClear
<1>9. CASE RetryEmpty \/ EndRound
  <2>1. turns' = Recorded \/ turns' = SetResponseIfNone(Recorded, "marker")
    BY <1>9 DEF RetryEmpty, EndRound
  <2>2. QED
    BY <1>0, <2>1, RecordedClear, ResponseClear DEF ResponseKinds
<1>10. CASE NextRound
  <2>1. \/ Block /\ turns' = Append(Recorded, NewTurn("results", results))
        \/ ~Block /\ turns' = Append(AppendNativeResults(Recorded, results),
                                     NewTurn("empty", <<>>))
    BY <1>10, ProtocolAssumption DEF NextRound, Block, StartTurn, StartResultsTurn
  <2>2. Recorded \in Seq(Turn) /\ AppendNativeResults(Recorded, results) \in Seq(Turn)
    BY <1>0, RecordedClear, AppendNativeResultsTyped
  <2>3. QED
    BY <1>0, <2>1, <2>2, AskedClear, EmptySeq DEF InputKinds
<1>11. CASE UNCHANGED turns
  BY <1>11
<1>12. CASE RejectRun \/ Teleport \/ Top \/ LlmStart \/ OpenOk \/ OpenNoDriver \/ Text
            \/ NativeCall \/ Structured \/ StreamEnds \/ Finish \/ DispatchMoves
            \/ UNCHANGED vars
  BY <1>11, <1>12 DEF RejectRun, Teleport, Top, LlmStart, OpenOk, OpenNoDriver, Text,
     NativeCall, Structured, StreamEnds, Finish, DispatchMoves, runVars, vars
<1>13. QED
  BY <1>2, <1>3, <1>4, <1>5, <1>6, <1>7, <1>8, <1>9, <1>10, <1>12 DEF Next, RunStep

-----------------------------------------------------------------------------
(* The loop hands the results of the round on to the next request. *)

(* A batch is given to process_intents with its account even. *)
LEMMA CallAccount ==
    ASSUME NEW b, Dispatch(b), pc' = "dispatch", results' \in Seq(Intents),
           back' = "teleport" => did' = {},
           \A i \in Intents : Count(ran', i) = Count(results', i),
           "acted" \notin did' => ran' = <<>>
    PROVE  BatchOK'
<1>1. /\ dpc' = "intents" /\ live' = {} /\ failed' = {} /\ ret' = {}
      /\ deferred' = <<>> /\ gathered' = <<>>
  BY DEF Dispatch
<1>2. LiveInv' /\ QuietInv'
  BY <1>1 DEF LiveInv, QuietInv
<1>3. ASSUME NEW i \in Intents
      PROVE  Count(ran', i) = Count(results', i) + Count(gathered', i)
  <2>1. Count(results', i) \in Nat /\ Count(gathered', i) = 0
    BY <1>1, CountEmpty, WhereFinite
  <2>2. QED
    BY <2>1
<1>4. AccountInv'
  BY <1>1, <1>3 DEF AccountInv
<1>5. QED
  BY <1>2, <1>4 DEF BatchOK

(* process_intents has returned to the loop, which goes on or ends. *)
LEMMA ReturnAccount ==
    ASSUME BatchOK, pc = "dispatch", dpc \in {"ok", "error"}, Release,
           UNCHANGED <<ran, results>>,
           pc' \notin {"llm_start", "open", "dispatch"},
           pc' \in {"stream", "leaving"} => dpc = "ok" /\ did' = did \cup ret
    PROVE  BatchOK'
<1>1. dpc' = "idle" /\ live' = {} /\ failed' = {} /\ ret' = {}
  BY DEF Release
<1>2. LiveInv' /\ QuietInv'
  BY <1>1 DEF BatchOK, LiveInv, QuietInv
<1>3. AccountInv'
  BY <1>1 DEF BatchOK, AccountInv
<1>4. QED
  BY <1>2, <1>3 DEF BatchOK

(* The other steps leave process_intents alone. *)
LEMMA IdleAccount ==
    ASSUME BatchOK, dpc = "idle", UNCHANGED <<dpc, live, failed>>,
           pc' # "dispatch",
           pc' \in {"llm_start", "open"} => ran' = <<>> /\ results' = <<>> /\ did' = {},
           pc' \in {"stream", "leaving"} =>
               \/ ran' = <<>> /\ results' = <<>>
               \/ pc' = pc /\ UNCHANGED <<ran, results, did>>
    PROVE  BatchOK'
<1>1. LiveInv' /\ QuietInv'
  BY DEF BatchOK, LiveInv, QuietInv
<1>2. AccountInv'
  BY DEF BatchOK, AccountInv
<1>3. QED
  BY <1>1, <1>2 DEF BatchOK

LEMMA NextAccount ==
    ASSUME TypeOK, HelperInv, PathInv, BatchOK, [Next]_vars
    PROVE  BatchOK'
<1>0. pc # "dispatch" => dpc = "idle"
  BY DEF PathInv, Places
<1>1. CASE RejectRun \/ StartRun \/ Top \/ LlmStart
  <2>1. /\ pc \in {"idle", "top", "llm_start"} /\ UNCHANGED <<dpc, live, failed>>
        /\ pc' \in {"idle", "top", "llm_start", "open"}
        /\ pc' \in {"llm_start", "open"} => ran' = <<>> /\ results' = <<>> /\ did' = {}
    <3>1. CASE RejectRun \/ StartRun
      BY <3>1 DEF RejectRun, StartRun, batchVars
    <3>2. CASE Top
      BY <3>2 DEF Top, ResetRound, batchVars
    <3>3. CASE LlmStart
      BY <3>3 DEF LlmStart, batchVars, BatchOK, QuietInv
    <3>4. QED
      BY <1>1, <3>1, <3>2, <3>3
  <2>2. QED
    BY <1>0, <2>1, IdleAccount
<1>2. CASE Teleport
  <2>1. /\ Dispatch(<<[kind |-> "helper", name |-> ff[1]]>>) /\ pc' = "dispatch"
        /\ did' = {} /\ ran' = <<>> /\ results' = <<>>
    BY <1>2 DEF Teleport, Call, ResetRound
  <2>2. QED
    BY <2>1, CallAccount, EmptySeq
<1>3. CASE TeleportReturns
  <2>1. /\ pc = "dispatch" /\ Release /\ dpc \in {"ok", "error"}
        /\ UNCHANGED <<ran, results>> /\ pc' \in {"fail", "finish", "top"}
    BY <1>3 DEF TeleportReturns, Returned, Release, engineVars
  <2>2. QED
    BY <2>1, ReturnAccount
<1>4. CASE OpenOk \/ OpenNoDriver \/ Propagate \/ Swallow \/ RetryTurn \/ RetryRun
  <2>1. /\ pc = "open" /\ pc' \in {"stream", "fail", "finish", "top", "exhausted"}
        /\ UNCHANGED <<dpc, live, failed>>
        /\ pc' = "stream" => ran' = ran /\ results' = results
    BY <1>4 DEF OpenOk, OpenNoDriver, Propagate, Swallow, RetryTurn, RetryRun,
       OpenFails, dispatchVars, batchVars
  <2>2. ran = <<>> /\ results = <<>>
    BY <2>1 DEF BatchOK, QuietInv
  <2>3. QED
    BY <1>0, <2>1, <2>2, IdleAccount
<1>5. CASE Text \/ StreamError
  <2>1. /\ pc = "stream" /\ pc' \in {"stream", "fail"}
        /\ UNCHANGED <<dpc, live, failed, ran, results, did>>
    BY <1>5 DEF Text, Hear, StreamError, dispatchVars, batchVars
  <2>2. QED
    BY <1>0, <2>1, IdleAccount
<1>6. CASE NativeCall \/ Structured \/ StreamEnds
  <2>1. /\ pc \in {"stream", "leaving"} /\ UNCHANGED <<ran, results, did>>
        /\ pc' = "dispatch" /\ back' # "teleport" /\ \E b : Dispatch(b)
    BY <1>6 DEF NativeCall, Structured, StreamEnds, Hear, Call, engineVars
  <2>2. /\ \A i \in Intents : Count(ran, i) = Count(results, i)
        /\ "acted" \notin did => ran = <<>>
    BY <1>0, <2>1 DEF BatchOK, AccountInv, QuietInv
  <2>3. QED
    BY <2>1, <2>2, CallAccount, RunTyped
<1>7. CASE BatchFails \/ BatchReturns
  <2>1. /\ pc = "dispatch" /\ Release /\ dpc \in {"ok", "error"}
        /\ UNCHANGED <<ran, results>> /\ pc' \in {"fail", "leaving", "stream"}
        /\ pc' \in {"stream", "leaving"} => dpc = "ok" /\ did' = did \cup ret
    BY <1>7 DEF BatchFails, BatchReturns, Returned, engineVars
  <2>2. QED
    BY <2>1, ReturnAccount
<1>8. CASE RetryEmpty \/ EndRound \/ NextRound
  <2>1. /\ pc = "dispatch" /\ Release /\ dpc = "ok"
        /\ UNCHANGED <<ran, results>> /\ pc' \in {"top", "finish"}
    BY <1>8 DEF RetryEmpty, EndRound, NextRound, Drained, Returned
  <2>2. QED
    BY <2>1, ReturnAccount
<1>9. CASE Finish \/ Fail
  <2>1. /\ pc # "dispatch" /\ pc' = "idle" /\ UNCHANGED <<dpc, live, failed>>
    BY <1>9 DEF Finish, Fail, Return, dispatchVars
  <2>2. QED
    BY <1>0, <2>1, IdleAccount
<1>10. CASE DispatchMoves
  BY <1>10, MovesAccount
<1>11. CASE UNCHANGED vars
  BY <1>11 DEF vars, dispatchVars, BatchOK, LiveInv, AccountInv, Ended, QuietInv
<1>12. QED
  BY <1>1, <1>2, <1>3, <1>4, <1>5, <1>6, <1>7, <1>8, <1>9, <1>10, <1>11 DEF Next, RunStep

(* A turn asked with the results tells the model just these. *)
LEMMA ToldResults ==
    ASSUME NEW ts \in Seq(Turn), NEW rs \in Seq(Intents), Clear(ts), ts # <<>>
    PROVE  LET s == Append(AppendNativeResults(ts, rs), NewTurn("empty", <<>>))
           IN  Last(s).input = "empty" /\ s[Len(s) - 1].results = rs
<1> DEFINE q == AppendNativeResults(ts, rs)
           turn == [Last(ts) EXCEPT !.results = @ \o rs]
           new == NewTurn("empty", <<>>)
<1>1. Last(ts) \in Turn /\ Last(ts).results = <<>>
  BY LastTyped DEF Clear
<1>2. <<>> \o rs = rs
  BY ConcatEmptySeq
<1>3. turn \in Turn /\ turn.results = rs
  BY <1>1, <1>2 DEF Turn
<1>4. q = OnCurrent(ts, turn)
  BY DEF AppendNativeResults
<1> HIDE DEF turn
<1>5. q \in Seq(Turn) /\ q # <<>> /\ Last(q) = turn
  BY <1>3, <1>4, CurrentThread
<1>6. new \in Turn /\ new.input = "empty"
  BY NewTurnTyped, EmptySeq DEF InputKinds, NewTurn
<1> HIDE DEF q, new
<1> DEFINE s == Append(q, new)
<1>7. /\ Len(q) \in Nat \ {0} /\ Len(s) = Len(q) + 1 /\ s[Len(q) + 1] = new
      /\ s[Len(q)] = q[Len(q)]
  BY <1>5, <1>6, EmptySeq, LenProperties, AppendProperties
<1>8. Last(s) = new /\ s[Len(s) - 1] = turn
  BY <1>5, <1>7 DEF Last
<1>9. QED
  BY <1>3, <1>6, <1>8 DEF s, q, new

(* Wherever a round is followed by another, it is told. *)
LEMMA TopReported ==
    ASSUME TypeOK, HelperInv, PathInv, BatchOK, Clear(turns), Next, pc' = "top"
    PROVE  ExecutedAreReported'
<1>0. turns \in Seq(Turn) /\ calls \in Seq(Intents) /\ results \in Seq(Intents)
  BY RunTyped
<1>1. ASSUME ran' = <<>> PROVE ExecutedAreReported'
  BY <1>1 DEF ExecutedAreReported
<1>2. ASSUME \A i \in Intents : Count(ran', i) = Count(results, i), Told' = results
      PROVE  ExecutedAreReported'
  BY <1>2 DEF ExecutedAreReported
<1>3. CASE StartRun
  BY <1>1, <1>3 DEF StartRun
<1>4. CASE LlmStart \/ RetryTurn \/ RetryRun
  <2>1. pc \in {"llm_start", "open"} /\ ran' = ran
    BY <1>4 DEF LlmStart, RetryTurn, RetryRun, OpenFails
  <2>2. QED
    BY <1>1, <2>1 DEF BatchOK, QuietInv
<1>5. CASE TeleportReturns
  <2>1. /\ pc = "dispatch" /\ back = "teleport" /\ dpc = "ok" /\ ran' = ran
        /\ ret = {} \/ turns' = Append(GivenUp, NewTurn("results", results))
    BY <1>5 DEF TeleportReturns, Returned, Release, engineVars, StartResultsTurn
  <2>2. ret = {} => ran = <<>>
    BY <2>1 DEF BatchOK, QuietInv
  <2>3. \A i \in Intents : Count(ran', i) = Count(results, i)
    BY <2>1 DEF BatchOK, AccountInv
  <2>4. ASSUME turns' = Append(GivenUp, NewTurn("results", results)) PROVE Told' = results
    <3>1. GivenUp \in Seq(Turn) /\ NewTurn("results", results) \in Turn
      BY <1>0, GivenUpClear, NewTurnTyped DEF InputKinds
    <3>2. Last(turns') = NewTurn("results", results)
      BY <2>4, <3>1, AppendThread
    <3>3. Last(turns').input = "results" /\ Last(turns').payload = results
      BY <3>2 DEF NewTurn
    <3>4. QED
      BY <3>3 DEF Told
  <2>5. QED
    BY <1>1, <1>2, <2>1, <2>2, <2>3, <2>4
<1>6. CASE RetryEmpty
  <2>1. /\ pc = "dispatch" /\ "acted" \notin did \cup ret /\ ran' = ran
    BY <1>6 DEF RetryEmpty, Drained, Returned, EmptyCompletion, Acted
  <2>2. QED
    BY <1>1, <2>1 DEF BatchOK, QuietInv
<1>7. CASE NextRound
  <2>1. /\ pc = "dispatch" /\ dpc = "ok" /\ ran' = ran
        /\ \/ Block /\ turns' = Append(Recorded, NewTurn("results", results))
           \/ turns' = Append(AppendNativeResults(Recorded, results), NewTurn("empty", <<>>))
    BY <1>7, ProtocolAssumption
       DEF NextRound, Drained, Returned, Block, StartTurn, StartResultsTurn
  <2>2. \A i \in Intents : Count(ran', i) = Count(results, i)
    BY <2>1 DEF BatchOK, AccountInv
  <2>3. Recorded \in Seq(Turn) /\ Clear(Recorded)
    BY <1>0, RecordedClear
  <2>4. ASSUME turns' = Append(Recorded, NewTurn("results", results)) PROVE Told' = results
    <3>1. NewTurn("results", results) \in Turn
      BY <1>0, NewTurnTyped DEF InputKinds
    <3>2. Last(turns') = NewTurn("results", results)
      BY <2>3, <2>4, <3>1, AppendThread
    <3>3. Last(turns').input = "results" /\ Last(turns').payload = results
      BY <3>2 DEF NewTurn
    <3>4. QED
      BY <3>3 DEF Told
  <2>5. ASSUME turns' = Append(AppendNativeResults(Recorded, results), NewTurn("empty", <<>>)),
               Recorded # <<>>
        PROVE  Told' = results
    <3>1. Last(turns').input = "empty" /\ turns'[Len(turns') - 1].results = results
      BY <1>0, <2>3, <2>5, ToldResults
    <3>2. QED
      BY <3>1 DEF Told
  <2>6. ASSUME turns' = Append(AppendNativeResults(Recorded, results), NewTurn("empty", <<>>)),
               Recorded = <<>>
        PROVE  NoTurnForResults'
    <3>1. AppendNativeResults(Recorded, results) = <<>>
      BY <2>6 DEF AppendNativeResults, OnCurrent
    <3>2. turns' = Append(<<>>, NewTurn("empty", <<>>))
      BY <2>6, <3>1
    <3>3. <<>> \in Seq(Turn) /\ NewTurn("empty", <<>>) \in Turn /\ Len(<<>>) = 0
      BY EmptySeq, NewTurnTyped DEF InputKinds
    <3>4. Last(turns') = NewTurn("empty", <<>>)
      BY <3>2, <3>3, AppendThread
    <3>5. Len(turns') = 1
      <4> DEFINE new == NewTurn("empty", <<>>)
      <4> HIDE DEF new
      <4>1. Len(Append(<<>>, new)) = 1
        OBVIOUS
      <4>2. QED
        BY <3>2, <4>1 DEF new
    <3>6. QED
      BY <3>4, <3>5 DEF NoTurnForResults, NewTurn
  <2>7. QED
    BY <1>2, <2>1, <2>2, <2>4, <2>5, <2>6 DEF ExecutedAreReported
<1>8. QED
  <2>1. CASE RejectRun \/ Teleport \/ Top \/ OpenOk \/ OpenNoDriver \/ Propagate \/ Swallow
    BY <2>1 DEF RejectRun, Teleport, Call, Top, OpenOk, OpenNoDriver, Propagate, Swallow
  <2>2. CASE Text \/ NativeCall \/ Structured \/ StreamError \/ StreamEnds
    BY <2>2 DEF Text, NativeCall, Structured, StreamError, StreamEnds, Hear, Call
  <2>3. CASE BatchFails \/ BatchReturns \/ EndRound \/ Finish \/ Fail
    BY <2>3 DEF BatchFails, BatchReturns, EndRound, Finish, Fail, Return
  <2>4. CASE DispatchMoves
    BY <2>4 DEF DispatchMoves, runVars
  <2>5. QED
    BY <1>3, <1>4, <1>5, <1>6, <1>7, <2>1, <2>2, <2>3, <2>4 DEF Next, RunStep

ResultsInv ==
    /\ TypeOK /\ HelperInv /\ PathInv
    /\ BatchOK /\ Clear(turns) /\ ExecutedAreReported

LEMMA NextResults ==
    ASSUME NoneBrought, ResultsInv, [Next]_vars
    PROVE  ResultsInv'
<1>1. TypeOK' /\ HelperInv' /\ PathInv' /\ BatchOK'
  BY NextTypes, NextPath, NextAccount DEF ResultsInv
<1>2. Clear(turns')
  BY NextClear DEF ResultsInv
<1>3. ExecutedAreReported'
  <2>1. CASE UNCHANGED vars
    BY <2>1 DEF ResultsInv, vars, dispatchVars, ExecutedAreReported, NoTurnForResults, Told
  <2>2. CASE Next /\ pc' = "top"
    BY <2>2, TopReported DEF ResultsInv
  <2>3. CASE pc' # "top"
    BY <2>3 DEF ExecutedAreReported
  <2>4. QED
    BY <2>1, <2>2, <2>3
<1>4. QED
  BY <1>1, <1>2, <1>3 DEF ResultsInv, Clear

LEMMA InitResults == Init => ResultsInv
<1> SUFFICES ASSUME Init PROVE ResultsInv
  OBVIOUS
<1>1. TypeOK /\ HelperInv /\ PathInv
  BY InitTypes, InitPath
<1>2. BatchOK /\ Clear(turns) /\ ExecutedAreReported
  BY DEF Init, DispatchInit, BatchOK, LiveInv, AccountInv, QuietInv, Clear, ExecutedAreReported
<1>3. QED
  BY <1>1, <1>2 DEF ResultsInv

(* Whatever batches, overrides, helpers, workflows and teleports a round    *)
(* was made of, the next request tells the model the result of each action *)
(* that ran, once: unless a restarted native run has no turn to keep them   *)
(* in, and if error hooks do not retry native turns.                       *)
THEOREM ResultsReported ==
    ASSUME NoneBrought
    PROVE  Spec => []ExecutedAreReported
<1>1. ResultsInv /\ [Next]_vars => ResultsInv'
  BY NextResults
<1>2. ResultsInv => ExecutedAreReported
  BY DEF ResultsInv
<1>3. QED
  BY <1>1, <1>2, InitResults, PTL DEF Spec
===============================================================================

----------------------------- MODULE Conversation -----------------------------
(***************************************************************************)
(* What a session promises its readers, without streams, batches, retries  *)
(* or hooks: one question is open at a time, it is the last one, and an    *)
(* answer once given is never changed.  A question ends with an answer,    *)
(* with the results of the actions it led to, or with nobody answering it  *)
(* because the host swallowed the error or a helper took over.             *)
(***************************************************************************)
EXTENDS Sequences, SequencesExt, Integers

VARIABLE thread    \* how each question stands

Answers == {"text", "marker", "error"}

Init == thread = <<>>

Settled(t) == t = <<>> \/ Last(t) # "open"

Asked(t) == Append(t, "open")

Closed(t, how) == [t EXCEPT ![Len(t)] = how]

Ask == Settled(thread) /\ thread' = Asked(thread)

Answer ==
    /\ ~Settled(thread)
    /\ \E a \in Answers : thread' = Closed(thread, a)

Leave == ~Settled(thread) /\ thread' = Closed(thread, "left")

(* A question nobody answered is still the last one when the resumption of *)
(* a helper fails: the error is written to it.                             *)
FailLate ==
    /\ thread # <<>> /\ Last(thread) = "left"
    /\ thread' = Closed(thread, "error")

(* The answer called for actions: their results are the next question. *)
Continue ==
    /\ ~Settled(thread)
    /\ \E how \in {"text", "acted", "left"} : thread' = Asked(Closed(thread, how))

(* The host imports a session without turns, or restarts the run. *)
Forget == thread' = <<>>

Restart == thread' = Asked(<<>>)

Next == Ask \/ Answer \/ Leave \/ FailLate \/ Continue \/ Forget \/ Restart

Spec == Init /\ [][Next]_thread
===============================================================================

---------------------------- MODULE CallResolution ----------------------------
(***************************************************************************)
(* What the C ABI promises about one asynchronous tool call or middleware  *)
(* event, without registries, ids or threads: the host is asked at most    *)
(* once, the first answer stands, and the call returns that answer once    *)
(* the host was asked.                                                     *)
(***************************************************************************)
CONSTANTS Calls, KindOf

VARIABLES
    asked,       \* calls the host was asked to answer
    answer,      \* answer[c]: "open" or the host's answer
    returned     \* returned[c]: what the call returned, "none" before

Init ==
    /\ asked = {}
    /\ answer = [c \in Calls |-> "open"]
    /\ returned = [c \in Calls |-> "none"]

Ask(c) ==
    /\ c \notin asked /\ returned[c] = "none"
    /\ asked' = asked \cup {c}
    /\ UNCHANGED <<answer, returned>>

(* The host answers, or what it answers to a call of the other kind counts *)
(* as an answer to this one.                                               *)
Settle(c, a) ==
    /\ c \in asked \/ \E d \in asked : KindOf[d] # KindOf[c]
    /\ returned[c] = "none" /\ answer[c] = "open"
    /\ answer' = [answer EXCEPT ![c] = a]
    /\ UNCHANGED <<asked, returned>>

Meaning(c) ==
    CASE answer[c] = "good" -> "value"
      [] answer[c] = "bad"  -> IF KindOf[c] = "tool" THEN "error" ELSE "value"
      [] answer[c] = "fail" -> IF KindOf[c] = "tool" THEN "error" ELSE "nothing"

Return(c) ==
    /\ c \in asked /\ answer[c] # "open" /\ returned[c] = "none"
    /\ returned' = [returned EXCEPT ![c] = Meaning(c)]
    /\ UNCHANGED <<asked, answer>>

Next ==
    \E c \in Calls :
        \/ Ask(c) \/ Return(c)
        \/ \E a \in {"good", "bad", "fail"} : Settle(c, a)

Spec == Init /\ [][Next]_<<asked, answer, returned>>
===============================================================================

----------------------------- MODULE MCHostCalls -----------------------------
(* Small instance of HostCalls: two tool calls that a batch awaits together *)
(* and one middleware event, answered by two host threads.                  *)
EXTENDS HostCalls, TLC

CONSTANTS t1, t2, e1

MCKindOf == (t1 :> "tool") @@ (t2 :> "tool") @@ (e1 :> "middleware")
=============================================================================

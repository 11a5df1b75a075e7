------------------------------ MODULE MCEngine ------------------------------
(***************************************************************************)
(* One engine in either protocol: in block mode with a helper it goes on   *)
(* after, in native mode with one that hands over or one that returns.     *)
(* The three have different bounds; the configuration's are the largest.   *)
(***************************************************************************)
EXTENDS EngineRun

Root == <<"agent">>
Suspended == <<"agent", "desk">>      \* a helper waits for the user

NoStacks == {}
Stacks == {Root, Suspended}

HandsOver == [h \in {"desk"} |-> "user"]
Returns == [h \in {"desk"} |-> "return"]
Continues == [h \in {"desk"} |-> "thenContinue"]

VARIABLE mode   \* the protocol and the handoff mode of the helper

Block == INSTANCE EngineRun WITH
    Protocol <- "block", ModeOf <- Continues,
    Decisions <- {"propagate", "swallow", "llm_start"}, Overrides <- {"route"},
    MaxLoops <- 1, MaxHeard <- 1

NativeUser == INSTANCE EngineRun WITH
    Protocol <- "native", ModeOf <- HandsOver, MaxTransfers <- 0,
    Decisions <- {"propagate", "run_start"}, Overrides <- {},
    MaxRuns <- 1, MaxBatch <- 1

NativeReturn == INSTANCE EngineRun WITH
    Protocol <- "native", ModeOf <- Returns, MaxTransfers <- 0,
    Decisions <- {"propagate", "run_start"}, Overrides <- {"config"},
    InitialStacks <- NoStacks, MaxRuns <- 1, MaxHeard <- 1, MaxBatch <- 1

In(m, A) == mode = m /\ A /\ UNCHANGED mode

ModesInit == \/ mode = "block" /\ Block!Init
             \/ mode = "native user" /\ NativeUser!Init
             \/ mode = "native return" /\ NativeReturn!Init
ModesNext == \/ In("block", Block!Next)
             \/ In("native user", NativeUser!Next)
             \/ In("native return", NativeReturn!Next)
ModesStep == \/ In("block", Block!RunStep)
             \/ In("native user", NativeUser!RunStep)
             \/ In("native return", NativeReturn!RunStep)

\* FairSpec of the engine that there is.
ModesSpec == ModesInit /\ [][ModesNext]_<<vars, mode>> /\ WF_<<vars, mode>>(ModesStep)

\* The engine in native mode whose helper hands over to the user.
HandoffSpec == /\ mode = "native user" /\ NativeUser!Init
               /\ [][In("native user", NativeUser!Next)]_<<vars, mode>>
=============================================================================

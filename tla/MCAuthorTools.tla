--------------------------- MODULE MCAuthorTools ---------------------------
(***************************************************************************)
(* What the author of agent files is given: the diagnostics the language   *)
(* server shows of an agent and a file it imports, and the bindings that   *)
(* are generated from agent files.  Either is used in a behaviour.         *)
(***************************************************************************)
EXTENDS MCAgentBindings, LanguageServer

OneImport == [f \in Files |-> IF f = "agent" THEN {"shared"} ELSE {}]

VARIABLE tool   \* the one that is used

ToolsInit ==
    /\ Init
    /\ \/ /\ tool = "language server"
          /\ file = Nothing /\ stage = "no file" /\ ir = <<>> /\ target = "" /\ bindings = <<>>
          /\ host = Nothing /\ engine = <<>> /\ call = <<>>
       \/ tool = "bindings" /\ EngineInit

ToolsNext ==
    \/ tool = "language server" /\ Next /\ UNCHANGED <<tool, bindingVars, engineVars>>
    \/ tool = "bindings" /\ EngineNext /\ UNCHANGED <<tool, vars>>

ToolsSpec == ToolsInit /\ [][ToolsNext]_<<tool, vars, bindingVars, engineVars>>
=============================================================================

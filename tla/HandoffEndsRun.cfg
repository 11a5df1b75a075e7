SPECIFICATION HandoffSpec
CONSTANTS
    Agent = "agent"
    Helpers = {"desk"}
    Strangers = {}
    Tools = {"tool"}
    Workflows = {"flow"}
    ModeOf <- Continues
    Transfers = {"desk"}
    MaxTransfers = 1
    Protocol = "block"
    MaxForce = 1
    MaxEmpty = 1
    InitialStacks <- Stacks
    Inputs = {"given"}
    Decisions = {"propagate", "swallow", "llm_start", "run_start"}
    Overrides = {"config", "route"}
    MaxRuns = 2
    MaxLoops = 2
    MaxHeard = 2
    MaxBatch = 2
CHECK_DEADLOCK FALSE
PROPERTIES
    HandoffEndsRun

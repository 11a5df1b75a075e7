SPECIFICATION Spec
CONSTANTS
    SDKs = {"typescript", "python", "dart", "rust"}
    Agent = "agent"
    Helper = "desk"
    Tools = {}
    Targets <- TwoAndHelper
    Keys = {"trace"}
    RunStacks <- Stacks
    HookStacks <- NoStacks
    MaxRuns = 2
    MaxEvents = 1
    MaxWrites = 0
    MaxPartials = 0
CHECK_DEADLOCK FALSE
INVARIANT ReturnedSessionRuns

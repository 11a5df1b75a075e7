SPECIFICATION Spec
CONSTANTS
    first = first
    second = second
    SDKs = {"typescript", "python", "dart", "rust"}
    Agent = "agent"
    Helper = "desk"
    Tools = {first, second}
    Targets <- TwoAndHelper
    Keys = {"trace", "user"}
    RunStacks <- RootOnly
    HookStacks <- NoStacks
    MaxRuns = 2
    MaxEvents = 2
    MaxWrites = 3
    MaxPartials = 1
SYMMETRY AlikeTools
CHECK_DEADLOCK FALSE
INVARIANTS
    HooksSeeEarlierWrites

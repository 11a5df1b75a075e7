SPECIFICATION Spec
CONSTANTS
    Answers <- Mixed
    Outcomes = {"done", "skipped", "failed", "handoff"}
    MaxEmpty = 1
    MaxRounds = 3
CHECK_DEADLOCK FALSE
INVARIANTS
    CallsArriveWhole
    ResultsFindTheirCalls
    RolesAlternate

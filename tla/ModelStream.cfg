SPECIFICATION Spec
CONSTANTS
    Documents <- Mixed
    MaxTurns = 2
    MaxBlocks = 2
CHECK_DEADLOCK FALSE
INVARIANTS
    DeltasAccumulate
    DocumentIsUnderstood
    ShownIsSaid
PROPERTIES
    TextOnlyGrows

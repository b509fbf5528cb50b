SPECIFICATION Spec
CONSTANTS
    MaxSize = 3
    Sizes <- MCSizes
    Deltas <- MCDeltas
INVARIANTS
    TypeOK
    SharesExact
    GapNeverGrows
PROPERTY
    Returns
CHECK_DEADLOCK FALSE

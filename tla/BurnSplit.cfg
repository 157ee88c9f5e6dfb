SPECIFICATION Spec
CONSTANTS
    MaxExited = 12
    Pieces = {1}
    Rates <- ThirdsRate
INVARIANT BurnMatchesBulk
CHECK_DEADLOCK FALSE

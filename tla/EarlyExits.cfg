SPECIFICATION Spec
CONSTANTS
    MaxExited = 120
    Pieces = {1, 2, 3, 7}
    Rates <- AllRates
INVARIANTS TypeOK PenaltyMatchesBulk BurnAtMostBulk
CHECK_DEADLOCK FALSE

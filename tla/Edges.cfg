SPECIFICATION MCSpec
CONSTANTS
    U64_MAX = 2
    U128_MAX = 9
    REWARD_INDEX_SCALE = 1
    I64_MAX = 4
    Owners = {u1, u2}
    Funders = {u1, u2}
    Policies <- FreePolicy
    Deposits = {1}
    Exits = {1}
    Fundings = {1}
    Donations = {}
    Snapshots = {}
    InitialWallet = 1
    MaxCreated = 0
    MaxTime = 4
    MaxDeposited = 4
    MaxLocked = 4
    MaxFunded = 4
    MaxStray = 0
    MaxBurned = 4
    MaxGeneration = 0
    u1 = u1
    u2 = u2
SYMMETRY Symmetry
INVARIANTS ExitNeverTrapped LedgersAgree
CHECK_DEADLOCK FALSE

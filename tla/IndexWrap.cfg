SPECIFICATION MCSpec
CONSTANTS
    U64_MAX = 20
    U128_MAX = 20
    REWARD_INDEX_SCALE = 1
    I64_MAX = 1000
    Owners = {u1, u2}
    Funders = {u1}
    Policies <- FreePolicy
    Deposits = {1}
    Exits = {1}
    Fundings = {7}
    Donations = {}
    Snapshots = {}
    InitialWallet = 9
    MaxCreated = 0
    MaxTime = 3
    MaxDeposited = 1
    MaxLocked = 20
    MaxFunded = 20
    MaxStray = 0
    MaxBurned = 10
    MaxGeneration = 2
    u1 = u1
    u2 = u2
INVARIANTS Solvent TrappedOnlyWhileIdle WrapTakesAllRewards
PROPERTIES LazyAccountingIsExact
CHECK_DEADLOCK FALSE

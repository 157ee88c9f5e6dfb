SPECIFICATION MCSpec
CONSTANTS
    U64_MAX = 40
    U128_MAX = 100000
    REWARD_INDEX_SCALE = 20
    I64_MAX = 1000
    Owners = {u1}
    Funders = {f}
    Policies <- FreePolicy
    Deposits = {1}
    Exits = {1}
    Fundings = {}
    Donations = {}
    Snapshots = {}
    InitialWallet = 4
    MaxCreated = 1
    MaxTime = 5
    MaxDeposited = 3
    MaxLocked = 20
    MaxFunded = 0
    MaxStray = 0
    MaxBurned = 10
    MaxGeneration = 0
    u1 = u1
    f = f
INVARIANT LockOutlastsWarming
CHECK_DEADLOCK FALSE

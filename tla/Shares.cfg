SPECIFICATION MCSpec
CONSTANTS
    U64_MAX = 16
    U128_MAX = 100000
    REWARD_INDEX_SCALE = 7
    I64_MAX = 4
    Owners = {u1, u2}
    Funders = {f}
    Policies <- SharedPolicy
    Deposits = {2}
    Exits = {2}
    Fundings = {1}
    Donations = {}
    Snapshots = {}
    InitialWallet = 5
    MaxCreated = 0
    MaxTime = 3
    MaxDeposited = 4
    MaxLocked = 4
    MaxFunded = 1
    MaxStray = 0
    MaxBurned = 10
    MaxGeneration = 0
    u1 = u1
    f = f
    u2 = u2
SYMMETRY Symmetry
PROPERTIES LazyAccountingIsExact
CHECK_DEADLOCK FALSE

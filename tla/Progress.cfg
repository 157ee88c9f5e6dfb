SPECIFICATION ProgressSpec
CONSTANTS
    U64_MAX = 40
    U128_MAX = 100000
    REWARD_INDEX_SCALE = 5
    I64_MAX = 1000
    Owners = {u1}
    Funders = {f}
    Policies <- OnePolicy
    Deposits = {4}
    Exits = {2, 4}
    Fundings = {2}
    Donations = {1}
    Snapshots = {}
    InitialWallet = 7
    MaxCreated = 0
    MaxTime = 20
    MaxDeposited = 8
    MaxLocked = 20
    MaxFunded = 2
    MaxStray = 1
    MaxBurned = 40
    MaxGeneration = 0
    Horizon = 2
    u1 = u1
    f = f
PROPERTIES StakeMatures RewardsGetPaid NothingStaysBehind
CHECK_DEADLOCK FALSE

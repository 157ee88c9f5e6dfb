SPECIFICATION MCSpec
CONSTANTS
    U64_MAX = 40
    U128_MAX = 100000
    REWARD_INDEX_SCALE = 5
    I64_MAX = 4
    Owners = {u1, u2}
    Funders = {f}
    Policies <- OnePolicy
    Deposits = {4}
    Exits = {2, 4}
    Fundings = {2}
    Donations = {}
    Snapshots = {}
    InitialWallet = 5
    MaxCreated = 0
    MaxTime = 3
    MaxDeposited = 4
    MaxLocked = 20
    MaxFunded = 2
    MaxStray = 0
    MaxBurned = 2
    MaxGeneration = 0
    u1 = u1
    f = f
    u2 = u2
SYMMETRY Symmetry
INVARIANTS TotalsAreSums Solvent ExitNeverTrapped FullExitLeavesNoDebt
CHECK_DEADLOCK FALSE

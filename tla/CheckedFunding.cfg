SPECIFICATION MCSpec
CONSTANTS
    U64_MAX = 40
    U128_MAX = 100000
    REWARD_INDEX_SCALE = 6
    I64_MAX = 4
    Owners = {u1, u2}
    Funders = {f}
    Policies <- FreePolicies
    Deposits = {1}
    Exits = {1}
    Fundings = {1}
    Donations = {}
    Snapshots = {}
    InitialWallet = 2
    MaxTime = 3
    MaxDeposited = 1
    MaxLanded = 2
    u1 = u1
    u2 = u2
    f = f
SYMMETRY Symmetry
INVARIANTS NoLatecomer
PROPERTIES SharedAsQuoted
CHECK_DEADLOCK FALSE

SPECIFICATION MCSpec
CONSTANTS
    U64_MAX = 40
    U128_MAX = 100000
    REWARD_INDEX_SCALE = 20
    I64_MAX = 6
    Owners = {u1}
    Funders = {f}
    Policies <- TwoPolicies
    Deposits = {4}
    Exits = {3, 4}
    Fundings = {1}
    Donations = {1}
    Snapshots <- OneSnapshot
    InitialWallet = 8
    MaxCreated = 1
    MaxTime = 3
    MaxDeposited = 8
    MaxLocked = 20
    MaxFunded = 1
    MaxStray = 1
    MaxBurned = 10
    MaxGeneration = 0
    u1 = u1
    f = f
INVARIANTS TypeOK StakeBuckets VaultBacksPrincipal RewardsConserved LedgersAgree
    EpochsKeepSchedule TokensConserved
PROPERTIES LockNeverShortens FreshStakeWaitsAnEpoch
CHECK_DEADLOCK FALSE

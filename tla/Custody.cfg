SPECIFICATION MCSpec
CONSTANTS
    system_program = system_program
    spl_token = spl_token
    spl_token_2022 = spl_token_2022
    u1 = u1
    u2 = u2
    w1 = w1
    w2 = w2
    x = x
    main = main
    other = other
    wallet <- KnownWallet
    People = {u1, u2}
    Authorities = {u1}
    ConfigIds = {1, 2}
    First = {t1, t2}
    Second = {t3, t4}
    TokenAccounts = {w1, w2, x, t1, t2, t3, t4}
    Mints = {main, other}
    MaxStake = 1
    MaxChanges = 1
    Changeable = {w1, t1, t2}
    MinimumBalance = 2
    t1 = t1
    t2 = t2
    t3 = t3
    t4 = t4
SYMMETRY Symmetry
INVARIANTS BuiltAccountsAccepted CustodyBacksEachArena ProgramAccountsPaidFor
PROPERTIES PayoutsReachOwner
CHECK_DEADLOCK FALSE

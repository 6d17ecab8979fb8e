\* The periods credited when a trade is frozen, with no admin and no failure.
CONSTANTS
    Trades = {t1}
    Users = {u1}
    Admins = {}
    Clients = {c1}
    Sweeps = {s1}
    Plans <- MCPlans
    Principals = {100}
    ManualAmounts <- MCManualAmounts
    InitialBalance = 100
    MinRate = 10
    MaxRate = 10
    CommissionPercent = 10
    Referred = {u1}
    MaxPeriodsPerPass = 10
    MaxTime = 4
    MaxManual = 5
    MaxPayouts = 2
    MaxFaults = 0
SPECIFICATION FairSpec
PROPERTY ElapsedPeriodsCredited

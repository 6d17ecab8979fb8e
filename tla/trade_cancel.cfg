\* The amount a cancelled trade gives back.
CONSTANTS
    Trades = {t1}
    Users = {u1}
    Admins = {a1}
    Clients = {c1}
    Sweeps = {s1}
    Plans <- MCPlans
    Principals = {100}
    ManualAmounts = {}
    InitialBalance = 100
    MinRate = 10
    MaxRate = 10
    CommissionPercent = 10
    Referred = {u1}
    MaxPeriodsPerPass = 2
    MaxTime = 4
    MaxManual = 5
    MaxPayouts = 2
    MaxFaults = 0
SPECIFICATION FairSpec
PROPERTY CancelReleasesPrincipalOnly

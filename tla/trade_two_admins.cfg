\* Two admin requests in flight at once.
CONSTANTS
    Trades = {t1}
    Users = {u1}
    Admins = {a1, a2}
    Clients = {c1}
    Sweeps = {s1}
    Plans <- MCPlans
    Principals = {100}
    ManualAmounts <- MCManualAmounts
    InitialBalance = 100
    MinRate = 10
    MaxRate = 10
    CommissionPercent = 10
    Referred = {u1}
    MaxPeriodsPerPass = 2
    MaxTime = 2
    MaxManual = 5
    MaxPayouts = 2
    MaxFaults = 0
SPECIFICATION Spec
INVARIANT CompletesOnce

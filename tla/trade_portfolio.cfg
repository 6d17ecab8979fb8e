\* Two trades of one user under two sweeps that overlap and an admin.
CONSTANTS
    Trades = {t1, t2}
    Users = {u1}
    Admins = {a1}
    Clients = {}
    Sweeps = {s1, s2}
    Plans <- MCShortPlan
    Principals = {100}
    ManualAmounts <- MCManualAmounts
    InitialBalance = 150
    MinRate = 10
    MaxRate = 10
    CommissionPercent = 10
    Referred = {u1}
    MaxPeriodsPerPass = 2
    MaxTime = 2
    MaxManual = 5
    MaxPayouts = 2
    MaxFaults = 0
SPECIFICATION Spec
INVARIANTS
    MoneyConserved
    CommissionAtMostOnce
PROPERTIES
    TradesAreEscrowed

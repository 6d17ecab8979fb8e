\* One admin request at a time, against overlapping sweeps and the owner.
CONSTANTS
    Trades = {t1}
    Users = {u1}
    Admins = {a1}
    Clients = {c1}
    Sweeps = {s1}
    Plans <- MCPlans
    Principals = {100}
    ManualAmounts <- MCManualAmounts
    InitialBalance = 100
    MinRate = 10
    MaxRate = 10
    CommissionPercent = 10
    Referred = {u1}
    MaxPeriodsPerPass = 2
    MaxTime = 4
    MaxManual = 5
    MaxPayouts = 2
    MaxFaults = 1
SPECIFICATION FairSpec
INVARIANTS
    TypeOK
    BooksBalance
    NoPeriodPaidTwice
    PaidOnceIffEnded
PROPERTIES
    EndedIsFinal
    CycleEndIsNoticed
    AccrualCatchesUp

\* Overlapping transactions with nested calls and calls that outlive them.
CONSTANTS
    complete = complete
    save = save
    readUser = readUser
    readPlan = readPlan
    other = other
    NoWork = NoWork
    Works <- MCWorks
    Within <- MCWithin
    Legs <- MCLegs
    Statements <- MCStatements
SPECIFICATION FairSpec
INVARIANTS
    TypeOK
    NestingNeverWaits
    NoCircularWait
PROPERTIES
    NoStrangerStatement
    EveryCallSettles
    ServesInTurn
\* Every call may have been answered.
CHECK_DEADLOCK FALSE

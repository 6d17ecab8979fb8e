SPECIFICATION Spec
CONSTANTS
    Users = {"ann", "bob", "cid"}
    Passwords = {"p", "q"}
    Requests = {1, 2}
    MaxRequests = 3
    MaxOtpAttempts = 1
    Subjects = {"bob", "cid"}
    Nobody = "ann"
    NoPassword = "p"
    FirstUsers <- MCUsers
    FirstTokens <- MCTokens
INVARIANTS
    TypeOK
    FreezeFollowsStatus
    ResetEndsSessions
    DeadBeforeSuccessor
    OneBonusPerAccount
    UsedOnce
    GuessesBounded
PROPERTIES
    ColumnsKept
    ApprovalKept
CHECK_DEADLOCK FALSE

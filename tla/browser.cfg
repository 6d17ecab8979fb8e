\* Two tabs of one browser, two acts of the user or of time.
SPECIFICATION FairSpec
CONSTANTS
    t1 = t1
    t2 = t2
    Tabs <- Two
    DataCalls <- TwoAndOne
    MaxActs = 2
INVARIANTS TypeOK RefusedWithCause SessionsHeld
PROPERTY NoCallStuck
CHECK_DEADLOCK FALSE

\* A driver an operator and an accept, one crash, two promotions of up to two files.
SPECIFICATION Spec
CONSTANTS
    Driver = d
    Operators = {o}
    Acceptors = {a}
    NoProc = NoProc
    LastFile = 2
    Git = TRUE
    LastRow = 4
    MaxPromotions = 2
    MaxCrashes = 1
INVARIANTS
    LandedAsRecorded
PROPERTY RefinesLanding
CHECK_DEADLOCK FALSE

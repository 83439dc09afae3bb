SPECIFICATION Spec
CONSTANTS
    r1 = r1
    r2 = r2
    p1 = p1
    p2 = p2
    None = None
    Earlier = Earlier
    Runs <- TwoRuns
    Projects <- OneProject
    Target = 1
    FailLimit = 0
    PastRows <- Past
SYMMETRY Symmetry
INVARIANTS
    TypeOK
    BillingAgrees
    KeyRecorded
    OfficialRecorded
PROPERTIES
    FinalStates
    RetryNeedsABind
CHECK_DEADLOCK FALSE

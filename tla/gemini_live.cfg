SPECIFICATION FairSpec
CONSTANTS
    r1 = r1
    r2 = r2
    r3 = r3
    None = None
    Requests <- TwoRequests
    BatchIDs <- TwoBatches
    BatchMaxSize = 2
    ZeroTimeout = TRUE
PROPERTIES
    AddReturns
    EarlyRequestAnswered

SPECIFICATION Spec
CONSTANTS
    r1 = r1
    r2 = r2
    r3 = r3
    None = None
    Requests <- ThreeRequests
    BatchIDs <- ThreeBatches
    BatchMaxSize = 2
    ZeroTimeout = TRUE
SYMMETRY Symmetry
INVARIANTS
    TypeOK
    MappedIsPending
    UnstartedIsScheduled
    OwnAnswer
    HeaderOfFirst
    OneSizeTrigger
PROPERTIES
    JoinsMapped
    ExecutionAnswersAll
    ImplementsService

SPECIFICATION FairLoginSpec
CONSTANTS
    s1 = s1
    s2 = s2
    s3 = s3
    Submitters <- ThreeClients
INVARIANTS
    LoginTypeOK
    AnswersFit
    StatusFollowsClient
PROPERTIES
    ImplementsService
    LoginReturns
    KeyGetsVerdict
    SessionEnds
CHECK_DEADLOCK FALSE

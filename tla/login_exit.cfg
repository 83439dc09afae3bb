SPECIFICATION LoginSpec
CONSTANTS
    s1 = s1
    s2 = s2
    s3 = s3
    Submitters <- OneClient
INVARIANTS
    ExitNoticed
CHECK_DEADLOCK FALSE

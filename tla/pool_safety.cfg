SPECIFICATION Spec
CONSTANTS
    v1 = v1
    v2 = v2
    v3 = v3
    v4 = v4
    ip1 = ip1
    ip2 = ip2
    ip3 = ip3
    ip4 = ip4
    t1 = t1
    None = None
    VMs <- ThreeVMs
    IPs <- TwoIPs
    Initial <- OldVM
    Legacy <- OldVM
    Num = 1
    Callers <- ReplacementOnly
    Operated <- Nobody
    Refreshed <- OldVMs
    CleanOld = FALSE
    Tokens <- OneToken
SYMMETRY Symmetry
INVARIANTS
    TypeOK
PROPERTIES
    MovedToPooled
    VictimsReplaced
    SyncSparesRunning

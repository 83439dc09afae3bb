SPECIFICATION Spec
CONSTANTS
    v1 = v1
    v2 = v2
    v3 = v3
    v4 = v4
    ip1 = ip1
    ip2 = ip2
    ip3 = ip3
    ip4 = ip4
    t1 = t1
    None = None
    VMs <- FourVMs
    IPs <- FourIPs
    Initial <- OldVMs
    Legacy <- Nobody
    Num = 2
    Callers <- ReplacementOnly
    Operated <- Nobody
    Refreshed <- Nobody
    CleanOld = FALSE
    Tokens <- OneToken
PROPERTIES
    NoTokenLeftBehind

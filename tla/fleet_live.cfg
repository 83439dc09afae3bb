SPECIFICATION FairFleetSpec
CONSTANTS
    v1 = v1
    v2 = v2
    ip1 = ip1
    ip2 = ip2
    None = None
    VMs <- TwoVMs
    IPs <- TwoIPs
    Initial <- OldVM
    Legacy <- Nobody
    Num = 1
    Callers <- CronAndHandler
    Operated <- NewVM
    Refreshed <- Nobody
    CleanOld = FALSE
PROPERTIES
    PendingGetsDeleted

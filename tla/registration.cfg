SPECIFICATION Spec
CONSTANTS
    v1 = v1
    v2 = v2
    ip1 = ip1
    ip2 = ip2
    r1 = r1
    r2 = r2
    e1 = e1
    e2 = e2
    m2 = m2
    None = None
    VMs <- TwoVMs
    IPs <- TwoIPs
    Initial <- OldVM
    Legacy <- Nobody
    Num = 1
    Callers <- HandlerOnly
    Operated <- OldVM
    Refreshed <- Nobody
    CleanOld = FALSE
    Requests <- TwoRequests
    Emails <- TwoEmails
    Names <- ThreeNames
    Extracted <- Extraction
    Owned <- FirstOwns
SYMMETRY Symmetry
CONSTRAINT Bound
INVARIANTS
    TypeOK
    AccountVmHasRow
    NoOtherLeak
    LoggedInThere
    LoginRecorded
    OneVmPerAccount
    VmOfOneAccount

\* Either site asked to follow and to lead, with every disturbance
SPECIFICATION FairSpec
CONSTANTS
    None = None
    Faults = {"call", "timeout", "election", "override", "restart"}
    MaxRequests = 3
    MaxReports = 1
INVARIANTS
    TypeOK
    NoBlankLeader
    OthersGoAfterCopy
    PartialHasTrigger
PROPERTIES
    RebuildCompletes
\* Operators stop asking at MaxRequests.
CHECK_DEADLOCK FALSE

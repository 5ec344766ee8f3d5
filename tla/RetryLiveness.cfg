\* Runs that hang, are deleted or end unrecognised, a watch that ends and relists
SPECIFICATION FairSpec
CONSTANTS
    Site = "gold"
    Own = "own"
    Releases = {"own", "other"}
    MaxRetries = 1
    RetryInterval = 1
    AttemptTimeout = 2
    TotalCap = 4
    None = None
    Faults = {"relist", "delete", "unknown"}
    Requests = {"active-passive", "golddr-primary"}
    MaxTime = 6
    StartBy = 0
    MaxTransitions = 1
    MaxForeign = 0
    MaxStream = 2
PROPERTIES
    TransitionResolves
    SuccessEndsMaintenance
\* The clock stops at MaxTime.
CHECK_DEADLOCK FALSE

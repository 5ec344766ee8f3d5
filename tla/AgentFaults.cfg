\* The passive site: calls that raise, relists, restarts, unrecognised ends
SPECIFICATION Spec
CONSTANTS
    Site = "golddr"
    Own = "own"
    Releases = {"own", "other"}
    MaxRetries = 1
    RetryInterval = 1
    AttemptTimeout = 1
    TotalCap = 2
    None = None
    Faults = {"api", "relist", "restart", "unknown"}
    Requests = {"active-passive", "golddr-primary", "gold-standby", "golddr-maintenance"}
    MaxTime = 2
    StartBy = 1
    MaxTransitions = 1
    MaxForeign = 1
    MaxStream = 1
PROPERTIES
    FailureOnlyWhenSpent
    MaintenanceEndsOnlyOnSuccess
    OutcomeSpec
\* The clock stops at MaxTime.
CHECK_DEADLOCK FALSE

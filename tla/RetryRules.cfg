\* A second transition at any point of the first, a watch that ends and relists
SPECIFICATION Spec
CONSTANTS
    Site = "gold"
    Own = "own"
    Releases = {"own", "other"}
    MaxRetries = 2
    RetryInterval = 1
    AttemptTimeout = 2
    TotalCap = 4
    None = None
    Faults = {"relist"}
    Requests = {"active-passive", "golddr-primary", "gold-standby"}
    MaxTime = 5
    StartBy = 1
    MaxTransitions = 2
    MaxForeign = 0
    MaxStream = 1
INVARIANTS
    TypeOK
    AttemptsSpaced
    AttemptsWithinCap
    RetryBudget
    TrackingCoherent
    FailedOncePerTransition
PROPERTIES
    OnlyOverdueRunsStopped
    OutcomeSpec
\* The clock stops at MaxTime.
CHECK_DEADLOCK FALSE

\* A failover while the passive site is still being rebuilt
SPECIFICATION FairSpec
CONSTANTS
    None = None
    Starts = {"serving"}
    OperatorMayAsk <- CycleAsks
    Patient = TRUE
    Automation = TRUE
    Faults = {}
    MaxRequests = 5
    MaxCopies = 1
PROPERTIES
    FailoverPromotes
\* Operators stop asking at MaxRequests.
CHECK_DEADLOCK FALSE

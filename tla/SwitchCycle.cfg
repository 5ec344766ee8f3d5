\* The switchover and back, one request at a time
SPECIFICATION FairSpec
CONSTANTS
    None = None
    Starts = {"serving"}
    OperatorMayAsk <- CycleAsks
    Patient = TRUE
    Automation = FALSE
    Faults = {}
    MaxRequests = 8
    MaxCopies = 1
INVARIANTS
    RecordsAgree
    TrafficServed
PROPERTIES
    FollowsCycle
    RequestsSettle
    FailoverPromotes
\* Operators stop asking at MaxRequests.
CHECK_DEADLOCK FALSE

\* Automatic failover at any point, messages lost, the connection breaking
SPECIFICATION Spec
CONSTANTS
    None = None
    Starts = {"fresh", "serving"}
    OperatorMayAsk <- ForceAsks
    Patient = TRUE
    Automation = TRUE
    Faults = {"drop", "peer"}
    MaxRequests = 5
    MaxCopies = 1
INVARIANTS
    OneLeads
PROPERTIES
    WipeOnlyBesideLeader
    ConsentStillTrue
\* Operators and automation stop asking at MaxRequests.
CHECK_DEADLOCK FALSE

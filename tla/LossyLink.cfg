\* Messages between the agents lost and delivered twice, handlers that raise
SPECIFICATION Spec
CONSTANTS
    None = None
    Starts = {"serving"}
    OperatorMayAsk <- CycleAsks
    Patient = TRUE
    Automation = FALSE
    Faults = {"drop", "duplicate", "call"}
    MaxRequests = 4
    MaxCopies = 2
INVARIANTS
    OneLeads
PROPERTIES
    WipeOnlyBesideLeader
\* Operators stop asking at MaxRequests.
CHECK_DEADLOCK FALSE

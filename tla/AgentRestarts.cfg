\* Agents replaced at any point, messages lost, the connection breaking
SPECIFICATION Spec
CONSTANTS
    None = None
    Starts = {"fresh", "serving"}
    OperatorMayAsk <- ForceAsks
    Patient = TRUE
    Automation = FALSE
    Faults = {"drop", "peer", "restart"}
    MaxRequests = 4
    MaxCopies = 1
INVARIANTS
    TypeOK
    RecordsMatchSites
PROPERTIES
    ConsentStillTrue
\* Operators stop asking at MaxRequests.
CHECK_DEADLOCK FALSE

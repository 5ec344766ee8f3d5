\* Either site in regular operation, or new, with every disturbance
SPECIFICATION FairSpec
CONSTANTS
    None = None
    Requests = {"active-passive", "active-passive-force", "gold-standby"}
    Faults = {"api", "gap", "lookup", "restart"}
    MaxChanges = 2
INVARIANTS
    TypeOK
    DecisionStillTrue
PROPERTIES
    TakenOnce
    LatestHandled
    FailoverHappens
\* Nothing changes any more at MaxChanges.
CHECK_DEADLOCK FALSE

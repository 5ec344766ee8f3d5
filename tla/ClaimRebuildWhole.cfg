\* A site asked to become the standby again after its agent was replaced
SPECIFICATION Spec
CONSTANTS
    None = None
    Faults = {"restart"}
    MaxRequests = 3
    MaxReports = 2
INVARIANTS
    ClaimRebuildWhole
\* Operators stop asking at MaxRequests.
CHECK_DEADLOCK FALSE

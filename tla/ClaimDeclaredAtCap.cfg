SPECIFICATION FairSpec
CONSTANTS
  Site = "gold"
  Own = "own"
  Releases = {"own", "other"}
  MaxRetries = 1
  RetryInterval = 1
  AttemptTimeout = 1
  TotalCap = 2
  None = None
  Faults = {"api"}
  Requests = {"active-passive"}
  MaxTime = 3
  StartBy = 0
  MaxTransitions = 1
  MaxForeign = 0
  MaxStream = 1
PROPERTY DeclaredOnceCapElapses
CHECK_DEADLOCK FALSE

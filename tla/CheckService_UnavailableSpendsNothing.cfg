SPECIFICATION Spec
CONSTANTS
  Requests = {r1, r2}
  FailureThreshold = 2
  OpenTimeout = 2
  MaxCallTime = 1
  Limit = 2
  MaxBacklog = 1
  MaxRefills = 1
INVARIANTS
  UnavailableSpendsNothing

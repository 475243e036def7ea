SPECIFICATION FairSpec
CONSTANTS
  Requests = {r1, r2}
  FailureThreshold = 1
  OpenTimeout = 1
  MaxCallTime = 1
  Limit = 1
  MaxBacklog = 1
  MaxRefills = 1
INVARIANTS
  TypeOK
  GrantsAreBacked
  NoFalseAlarm
PROPERTIES
  CheckIsAnswered

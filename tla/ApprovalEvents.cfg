SPECIFICATION FairSpec
CONSTANTS
  Workers = {w1, w2}
  BatchSize = 2
  ClaimIdle = 1
  Malformed = {3}
  MaxBacklog = 2
  MaxEvents = 3
  MaxFaults = 2
INVARIANTS
  TypeOK
  NoApprovalLost
  NothingStranded
  NoTransactionDeadlock
PROPERTY ApprovalsReachHistory

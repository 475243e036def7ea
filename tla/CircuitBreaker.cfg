SPECIFICATION FairSpec
CONSTANTS
  Requests = {r1, r2, r3, r4}
  FailureThreshold = 3
  OpenTimeout = 3
  MaxCallTime = 2
INVARIANTS
  TypeOK
  ClosedBelowThreshold
  NoLockout
  ProbeIsAlone
PROPERTIES
  RecoversFromOutage
  OutageOpensCircuit

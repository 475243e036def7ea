SPECIFICATION Spec
CONSTANTS
  Requests = {r1, r2, r3}
  FailureThreshold = 2
  OpenTimeout = 3
  MaxCallTime = 2
SYMMETRY Symmetry
PROPERTY OpenLastsOpenTimeout

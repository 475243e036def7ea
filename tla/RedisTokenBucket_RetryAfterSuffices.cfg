SPECIFICATION Spec
CONSTANTS
  Keys = {k1}
  Limit = 2
  WindowMS = 3
  MaxBacklog = 3
  Precision = 2
  MaxTime = 9
INVARIANT RetryAfterSuffices

SPECIFICATION Spec
CONSTANTS
  Keys = {k1}
  Limit = 2
  WindowMS = 3
  MaxBacklog = 1
  Precision = 1
  MaxTime = 7
INVARIANTS
  TypeOK
  QuotaPerInterval
  RemainingIsSpendable
  RetryAfterPlusOneSuffices
  FullAfterReset
PROPERTY ImplementsQuota

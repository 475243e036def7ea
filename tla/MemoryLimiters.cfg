SPECIFICATION LimiterSpec
CONSTANTS
  Limit = 3
  Window = 5
  InstantsPerMS = 2
  MaxTime = 10
  MaxStepsBack = 1
INVARIANTS
  QuotaPerInterval
  PromiseKept
  FixedQuotaPerVisit
  SlidingQuotaIsExact
  SlidingAvailabilityIsExact
  RetryAfterIsCloseEnough

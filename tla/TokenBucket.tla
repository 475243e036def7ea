----------------------------- MODULE TokenBucket -----------------------------
(***************************************************************************)
(* The in-memory token bucket (internal/ratelimiter/token-bucket.go).      *)
(*                                                                         *)
(* The mutex makes a decision one atomic step; keys are independent, so    *)
(* one key is modelled.  Time is counted in instants of the injected       *)
(* clock, a millisecond being InstantsPerMS of them.  A token is Window    *)
(* units: one instant then refills Limit units and all balances are whole  *)
(* numbers (the rounding of float64 is not modelled).                      *)
(***************************************************************************)
EXTENDS Integers

CONSTANTS
  Limit,          \* policy.Limit
  Window,         \* policy.Window, in instants
  InstantsPerMS,  \* instants in a millisecond
  MaxTime,        \* bound on the clock
  MaxStepsBack    \* bound on how often the clock is set back

ASSUME PolicyAssumption ==
  Limit \in Nat \ {0} /\ Window \in Nat \ {0} /\ InstantsPerMS \in Nat \ {0}
ASSUME TimeAssumption == MaxTime \in Nat /\ MaxStepsBack \in Nat

VARIABLES
  now,         \* what the clock shows
  exists,      \* the key has a bucket
  tokens,      \* bucket.tokens, in units
  lastRefill,  \* bucket.lastRefill
  stepsBack,   \* times the clock was set back
  since,       \* observer: the earliest time the clock has shown in the interval
  high,        \* observer: the latest time the clock has shown in it
  spent,       \* observer: units spent in the observed interval
  promise      \* observer: what the last decision told its client

vars == <<now, exists, tokens, lastRefill, stepsBack, high, since, spent, promise>>

Costs == 1..Limit  \* Allow refuses any other cost
Capacity == Limit * Window
NoPromise == [remaining |-> 0, cost |-> 0, retryAt |-> 0, resetAt |-> 0]

Init ==
  /\ now = 0
  /\ exists = FALSE
  /\ tokens = Capacity
  /\ lastRefill = 0
  /\ stepsBack = 0
  /\ high = 0
  /\ since = 0
  /\ spent = 0
  /\ promise = NoPromise

-----------------------------------------------------------------------------
Lesser(a, b) == IF a <= b THEN a ELSE b
CeilDiv(a, b) == (a + b - 1) \div b

\* Mutant of refilledBucket: time that goes back moves lastRefill back.
refilledBucketAlways ==
  IF ~exists THEN [tokens |-> Capacity, lastRefill |-> now]
  ELSE [tokens |-> Lesser(Capacity, tokens + (IF now > lastRefill THEN now - lastRefill ELSE 0) * Limit),
        lastRefill |-> now]

\* A bucket that time has not passed for keeps its balance and refill time.
refilledBucket ==
  IF ~exists THEN [tokens |-> Capacity, lastRefill |-> now]
  ELSE IF now <= lastRefill THEN [tokens |-> tokens, lastRefill |-> lastRefill]
  ELSE [tokens |-> Lesser(Capacity, tokens + (now - lastRefill) * Limit),
        lastRefill |-> now]

\* Instants the refill rate needs for a number of units.
durationForTokens(units) == CeilDiv(units, Limit)

\* Mutant of millisecondsRoundedUp: truncates, as Duration.Milliseconds does.
millisecondsTruncated(duration) == duration \div InstantsPerMS

millisecondsRoundedUp(duration) == CeilDiv(duration, InstantsPerMS)

RetryAfterMS(units) ==
  LET ms == millisecondsRoundedUp(durationForTokens(units))
  IN  IF ms < 1 THEN 1 ELSE ms

wholeTokens(units) == units \div Window

Denied(c) ==
  LET b == refilledBucket
  IN  /\ c * Window > b.tokens
      /\ tokens' = b.tokens
      /\ lastRefill' = b.lastRefill
      /\ promise' = [remaining |-> wholeTokens(b.tokens), cost |-> c,
                     retryAt |-> now + RetryAfterMS(c * Window - b.tokens) * InstantsPerMS,
                     resetAt |-> now + durationForTokens(Capacity - b.tokens)]
      /\ UNCHANGED spent

Allowed(c) ==
  LET b == refilledBucket
      rest == b.tokens - c * Window
  IN  /\ c * Window <= b.tokens
      /\ tokens' = rest
      /\ lastRefill' = b.lastRefill
      /\ promise' = [remaining |-> wholeTokens(rest), cost |-> 0, retryAt |-> now,
                     resetAt |-> now + durationForTokens(Capacity - rest)]
      /\ spent' = spent + c * Window

Allow(c) ==
  /\ exists' = TRUE
  /\ Allowed(c) \/ Denied(c)
  /\ UNCHANGED <<now, stepsBack, high, since>>

Tick ==
  /\ now < MaxTime
  /\ now' = now + 1
  /\ high' = IF now' > high THEN now' ELSE high
  /\ UNCHANGED <<exists, tokens, lastRefill, stepsBack, since, spent, promise>>

\* The wall clock is set back; the observed interval now begins there.
StepBack ==
  /\ stepsBack < MaxStepsBack
  /\ \E t \in 0..(now - 1) : now' = t
  /\ since' = Lesser(since, now')
  /\ stepsBack' = stepsBack + 1
  /\ UNCHANGED <<exists, tokens, lastRefill, high, spent, promise>>

\* The observer may start a new interval at any time.
Observe ==
  /\ since' = now
  /\ high' = now
  /\ spent' = 0
  /\ UNCHANGED <<now, exists, tokens, lastRefill, stepsBack, promise>>

Next == (\E c \in Costs : Allow(c)) \/ Tick \/ StepBack \/ Observe

Spec == Init /\ [][Next]_vars

-----------------------------------------------------------------------------
\* In any interval the key spends at most its capacity plus one refill of the
\* span of time the clock showed, however often the clock is set back: time
\* that is lived through again refills nothing again.
QuotaPerInterval == spent <= Capacity + Limit * (high - since)

\* "millisecondsRoundedUp prevents a caller from retrying before enough tokens
\* exist": after retry_after_ms the denied cost fits, at reset_at the bucket is
\* full, and the reported remaining tokens can be spent until the next decision.
PromiseKept ==
  LET b == refilledBucket
  IN  stepsBack = 0 =>
        /\ now >= promise.retryAt => b.tokens >= promise.cost * Window
        /\ now >= promise.resetAt => b.tokens = Capacity
        /\ b.tokens >= promise.remaining * Window
=============================================================================

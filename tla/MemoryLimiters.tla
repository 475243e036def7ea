--------------------------- MODULE MemoryLimiters ---------------------------
(***************************************************************************)
(* An application built on one of the in-memory limiters, which implement  *)
(* the same interface (internal/ratelimiter/ratelimiter.go) with the same  *)
(* policy and clock: the token bucket, the fixed window or the sliding     *)
(* log.  The variables of the limiters that were not chosen keep their     *)
(* initial values.                                                         *)
(***************************************************************************)
EXTENDS TokenBucket

VARIABLES
  limiter,      \* the limiter in use: "token", "fixed" or "sliding"
  window,       \* FixedWindow
  spentIn,      \* FixedWindow
  visits,       \* FixedWindow
  fixedPromise, \* FixedWindow: promise
  log,          \* SlidingLog
  denial,       \* SlidingLog
  spentAt       \* SlidingLog: history of approvals

Fixed == INSTANCE FixedWindow WITH promise <- fixedPromise
Sliding == INSTANCE SlidingLog

tokenVars == <<exists, tokens, lastRefill, since, high, spent, promise>>
fixedVars == <<window, spentIn, visits, fixedPromise>>
slidingVars == <<log, denial, spentAt>>
limiterVars == <<limiter, now, stepsBack, tokenVars, fixedVars, slidingVars>>

LimiterInit ==
  /\ limiter \in {"token", "fixed", "sliding"}
  /\ Init
  /\ Fixed!Init
  /\ Sliding!Init

UseToken == limiter = "token" /\ Next /\ UNCHANGED <<limiter, fixedVars, slidingVars>>
UseFixed == limiter = "fixed" /\ Fixed!Next /\ UNCHANGED <<limiter, tokenVars, slidingVars>>
UseSliding ==
  limiter = "sliding" /\ Sliding!Next /\ UNCHANGED <<limiter, stepsBack, tokenVars, fixedVars>>

LimiterNext == UseToken \/ UseFixed \/ UseSliding

LimiterSpec == LimiterInit /\ [][LimiterNext]_limiterVars

-----------------------------------------------------------------------------
\* The fixed window approves the limit once for every visit of the clock to an
\* aligned window (Fixed!QuotaPerVisit).
FixedQuotaPerVisit == limiter = "fixed" => Fixed!QuotaPerVisit

\* docs/benchmarks.md: the sliding log gives "exact rolling-window
\* enforcement" (Sliding!RollingQuotaIsExact).
SlidingQuotaIsExact == limiter = "sliding" => Sliding!RollingQuotaIsExact

\* nextAvailability of the sliding log names the first instant at which the
\* denied cost fits (Sliding!NextAvailabilityIsExact).
SlidingAvailabilityIsExact == limiter = "sliding" => Sliding!NextAvailabilityIsExact

\* The fixed window and the sliding log cut retry_after_ms to whole
\* milliseconds, so a client may return too early, but never by a millisecond.
RetryAfterIsCloseEnough ==
  /\ limiter = "fixed" => Fixed!RetryAfterPlusOneSuffices
  /\ limiter = "sliding" => Sliding!RetryAfterPlusOneSuffices
=============================================================================

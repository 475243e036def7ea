--------------------------- MODULE CircuitBreaker ---------------------------
(***************************************************************************)
(* The circuit breaker in front of the Redis limiter                       *)
(* (internal/ratelimiter/circuit-breaker.go).                              *)
(*                                                                         *)
(* Requests run concurrently.  The mutex makes startRequest and each       *)
(* record function one atomic step, but the Redis call between the two     *)
(* runs unlocked: its outcome is applied to whatever state the circuit has *)
(* reached by then.                                                        *)
(*                                                                         *)
(* Time is discrete and only differences matter: sinceOpened stands for    *)
(* now() - openedAt and is saturated at OpenTimeout, the only value it is  *)
(* compared with; age[r] is the time since the call of r was admitted.     *)
(***************************************************************************)
EXTENDS Integers

CONSTANTS
  Requests,          \* the requests that may be in flight at one time
  FailureThreshold,  \* config.FailureThreshold
  OpenTimeout,       \* config.OpenTimeout, in ticks
  MaxCallTime        \* bound on the time from startRequest to the recorded outcome

\* NewCircuitBreakerLimiter refuses values that are not positive.
ASSUME ThresholdAssumption == FailureThreshold \in Nat \ {0}
ASSUME OpenTimeoutAssumption == OpenTimeout \in Nat \ {0}
\* The context deadline bounds a call; nothing relates it to OpenTimeout.
ASSUME CallTimeAssumption == MaxCallTime \in Nat

VARIABLES
  state,         \* "closed", "open" or "halfOpen"
  failures,      \* failures recorded since the last success
  sinceOpened,   \* now() - openedAt, saturated at OpenTimeout
  probeRunning,  \* the flag of the struct
  calling,       \* requests whose limiter.Allow call is in flight
  age,           \* time each call has been in flight
  seen,          \* the conditions of Redis each call has met
  redis,         \* condition of the dependency: "up" or "down"
  probes         \* auxiliary: in-flight calls admitted as the recovery probe

breaker == <<state, failures, sinceOpened, probeRunning>>
calls == <<calling, age, seen, probes>>
vars == <<breaker, calls, redis>>

-----------------------------------------------------------------------------
\* The zero time.Time of a new limiter is further back than any OpenTimeout.
Init ==
  /\ state = "closed"
  /\ failures = 0
  /\ sinceOpened = OpenTimeout
  /\ probeRunning = FALSE
  /\ calling = {}
  /\ age = [r \in Requests |-> 0]
  /\ seen = [r \in Requests |-> {}]
  /\ redis = "up"
  /\ probes = {}

OpenElapsed == sinceOpened >= OpenTimeout

\* Mutant of Ready: forgets that the interval may have passed.
ReadyIgnoresTimeout == state # "open"

Ready == state # "open" \/ OpenElapsed

\* startRequest returned true: the call to the inner limiter begins.
Admit(r) ==
  /\ calling' = calling \cup {r}
  /\ seen' = [seen EXCEPT ![r] = {redis}]
  /\ UNCHANGED <<age, failures, sinceOpened, redis>>

StartClosed(r) ==
  /\ r \notin calling
  /\ state = "closed"
  /\ Admit(r)
  /\ UNCHANGED <<state, probeRunning, probes>>

\* Mutant of StartProbe: does not look at probeRunning.
StartProbeUnchecked(r) ==
  /\ r \notin calling
  /\ state = "halfOpen" \/ (state = "open" /\ OpenElapsed)
  /\ state' = "halfOpen"
  /\ probeRunning' = TRUE
  /\ probes' = probes \cup {r}
  /\ Admit(r)

\* The second half of startRequest: the open interval has passed or the
\* circuit is half-open.  While a probe runs the request is refused.
StartProbe(r) ==
  /\ r \notin calling
  /\ state = "halfOpen" \/ (state = "open" /\ OpenElapsed)
  /\ state' = "halfOpen"
  /\ IF probeRunning
     THEN UNCHANGED <<failures, sinceOpened, probeRunning, calls, redis>>
     ELSE /\ probeRunning' = TRUE
          /\ probes' = probes \cup {r}
          /\ Admit(r)

\* A request that finds the circuit open, its interval not over, is refused
\* by startRequest and changes nothing.
startRequest(r) == StartClosed(r) \/ StartProbe(r)

-----------------------------------------------------------------------------
open ==
  /\ state' = "open"
  /\ sinceOpened' = 0

\* Mutant of recordSuccess: keeps the failure count.
recordSuccessKeepsFailures ==
  /\ state' = "closed"
  /\ probeRunning' = FALSE
  /\ UNCHANGED <<failures, sinceOpened>>

recordSuccess ==
  /\ state' = "closed"
  /\ failures' = 0
  /\ probeRunning' = FALSE
  /\ UNCHANGED sinceOpened

recordFailure ==
  /\ probeRunning' = FALSE
  /\ IF state = "halfOpen"
     THEN open /\ UNCHANGED failures
     ELSE /\ failures' = failures + 1
          /\ IF failures' >= FailureThreshold
             THEN open
             ELSE UNCHANGED <<state, sinceOpened>>

\* Mutant of cancelProbe: leaves the flag set.
cancelProbeKeepsFlag ==
  /\ state' = IF state = "halfOpen" THEN "open" ELSE state
  /\ UNCHANGED <<failures, sinceOpened, probeRunning>>

\* Mutant of cancelProbe: takes a request error as a sign of recovery.
cancelProbeCloses ==
  /\ state' = "closed"
  /\ failures' = 0
  /\ probeRunning' = FALSE
  /\ UNCHANGED sinceOpened

cancelProbe ==
  /\ state' = IF state = "halfOpen" THEN "open" ELSE state
  /\ probeRunning' = FALSE
  /\ UNCHANGED <<failures, sinceOpened>>

Return(r) ==
  /\ r \in calling
  /\ calling' = calling \ {r}
  /\ probes' = probes \ {r}
  /\ age' = [age EXCEPT ![r] = 0]
  /\ seen' = [seen EXCEPT ![r] = {}]
  /\ UNCHANGED redis

\* The inner limiter answered: Redis was up at some time during the call.
Success(r) == "up" \in seen[r] /\ recordSuccess /\ Return(r)

\* The inner limiter failed: Redis was unavailable at some time during it.
Failure(r) == "down" \in seen[r] /\ recordFailure /\ Return(r)

\* A request error (isRequestError), or the caller's own context is done.
RequestError(r) == cancelProbe /\ Return(r)

AllowReturns(r) == Success(r) \/ Failure(r) \/ RequestError(r)

-----------------------------------------------------------------------------
\* Mutant of Tick: calls run without a deadline.
TickNoDeadline ==
  /\ age' = [r \in Requests |-> IF r \in calling THEN age[r] + 1 ELSE 0]
  /\ sinceOpened' = IF OpenElapsed THEN sinceOpened ELSE sinceOpened + 1
  /\ UNCHANGED <<state, failures, probeRunning, calling, seen, redis, probes>>

\* No call outlives its deadline.
Tick ==
  /\ \A r \in calling : age[r] < MaxCallTime
  /\ age' = [r \in Requests |-> IF r \in calling THEN age[r] + 1 ELSE 0]
  /\ sinceOpened' = IF OpenElapsed THEN sinceOpened ELSE sinceOpened + 1
  /\ UNCHANGED <<state, failures, probeRunning, calling, seen, redis, probes>>

\* Redis goes away or comes back; every call in flight meets the change.
RedisChange ==
  /\ redis' = IF redis = "up" THEN "down" ELSE "up"
  /\ seen' = [r \in Requests |->
                IF r \in calling THEN seen[r] \cup {redis'} ELSE seen[r]]
  /\ UNCHANGED <<breaker, calling, age, probes>>

Next ==
  \/ \E r \in Requests : startRequest(r) \/ AllowReturns(r)
  \/ Tick
  \/ RedisChange

\* Clients keep sending to an instance whose readiness endpoint does not turn
\* them away, every call returns, time passes.  Of the calls of a
\* request that could succeed (or fail) again and again, not all end in a
\* cancellation or a request error.
Fairness ==
  /\ WF_vars(Tick)
  /\ \A r \in Requests :
       /\ WF_vars(Ready /\ startRequest(r))
       /\ WF_vars(AllowReturns(r))
       /\ SF_vars(Success(r))
       /\ SF_vars(Failure(r))

Spec == Init /\ [][Next]_vars
FairSpec == Spec /\ Fairness

-----------------------------------------------------------------------------
BreakerTypeOK ==
  /\ state \in {"closed", "open", "halfOpen"}
  /\ failures \in Nat
  /\ sinceOpened \in 0..OpenTimeout
  /\ probeRunning \in BOOLEAN
  /\ redis \in {"up", "down"}

CallsTypeOK ==
  /\ calling \in SUBSET Requests
  /\ probes \in SUBSET calling
  /\ age \in [Requests -> 0..MaxCallTime]
  /\ seen \in [Requests -> SUBSET {"up", "down"}]

\* The circuit's fields are in range; no call outlives its deadline.
TypeOK == BreakerTypeOK /\ CallsTypeOK

\* The failure counter and the state agree whatever the order in which
\* overlapping calls record their outcomes: the circuit is closed exactly
\* while fewer than FailureThreshold failures follow the last success.
ClosedBelowThreshold == state = "closed" <=> failures < FailureThreshold

\* startRequest refuses everything in half-open while probeRunning is set, so
\* a half-open circuit must still have a probe in flight to leave that state:
\* the circuit is never locked out by a flag nobody will clear.
NoLockout ==
  /\ probeRunning <=> state = "halfOpen"
  /\ state = "halfOpen" => probes # {}

\* When calls are shorter than the open interval, the probe is alone: no call
\* admitted before the circuit opened can decide the recovery in its place,
\* and no second probe reaches a dependency that may still be down.
ProbeIsAlone == state = "halfOpen" => \E p \in Requests : calling = {p} /\ probes = {p}

\* docs/requirements.md: repeated failures open the circuit "for five
\* seconds".  An open circuit leaves that state only when OpenTimeout passed.
OpenLastsOpenTimeout == [][state = "open" /\ state' # "open" => OpenElapsed]_vars

\* Once Redis stays up the circuit closes again, and again whenever late
\* failures of older calls reopen it.  Traffic that follows the readiness
\* endpoint is enough: Ready does not keep away the request that would close
\* the circuit.
RecoversFromOutage == <>[](redis = "up") => []<>(state = "closed")

\* Once Redis stays down the circuit opens and does not close again.
OutageOpensCircuit == <>[](redis = "down") => <>[](state # "closed")
=============================================================================

---------------------------- MODULE CheckService ----------------------------
(***************************************************************************)
(* One API process serving POST /v1/check: the handler (cmd/api/check.go)  *)
(* calls the circuit breaker, which calls the Redis limiter, which sends   *)
(* one script to Redis.  The script and the client's wait for it are       *)
(* separate steps: Redis may run a script whose reply is lost, and may run *)
(* it after the deadline, when the client has already been answered.       *)
(*                                                                         *)
(* The breaker is CircuitBreaker itself; its Redis is "down" whenever it   *)
(* does not answer within the deadline.  The bucket of the single key is a *)
(* counter of whole tokens that refills at any time, which is what         *)
(* RedisTokenBucket promises; every request costs one token.               *)
(***************************************************************************)
EXTENDS Integers, FiniteSets

CONSTANTS
  Requests, FailureThreshold, OpenTimeout, MaxCallTime,  \* as in CircuitBreaker
  Limit,       \* policy.Limit
  MaxBacklog,  \* maxBacklog
  MaxRefills   \* bound on the tokens refilled

ASSUME BreakerAssumption ==
  /\ FailureThreshold \in Nat \ {0} /\ OpenTimeout \in Nat \ {0}
  /\ MaxCallTime \in Nat
ASSUME LimitAssumption == Limit \in Nat \ {0} /\ MaxBacklog \in Nat \ {0}
ASSUME RefillsAssumption == MaxRefills \in Nat

VARIABLES
  state, failures, sinceOpened, probeRunning, calling, age, seen, redis, probes,
  request,    \* what each call asks: "check", or the outcome of a request that
              \* the limiter refuses before it calls Redis
  wire,       \* each call's script: "idle", "sent", "replied" or "lost"
  verdict,    \* what its script decided: "none", "allowed", "denied", "full"
  outcome,    \* the outcome that metrics.observe counted each request under
  tokens,     \* whole tokens in the bucket
  backlog,    \* XLEN of the approval stream
  refills,    \* tokens refilled so far
  approvals,  \* observer: approval events ever appended
  granted,    \* observer: requests answered 200
  outage,     \* observer: Redis has been unavailable
  hangups     \* observer: a client has gone away during its call

Breaker == INSTANCE CircuitBreaker

breakerVars == <<state, failures, sinceOpened, probeRunning, calling, age, seen, redis, probes>>
redisVars == <<tokens, backlog, refills, approvals>>
observers == <<granted, outage, hangups>>
vars == <<breakerVars, request, wire, verdict, outcome, redisVars, observers>>

Init ==
  /\ Breaker!Init
  /\ request = [r \in Requests |-> "check"]
  /\ wire = [r \in Requests |-> "idle"]
  /\ verdict = [r \in Requests |-> "none"]
  /\ outcome = [r \in Requests |-> "none"]
  /\ tokens = Limit
  /\ backlog = 0
  /\ refills = 0
  /\ approvals = 0
  /\ granted = 0
  /\ outage = FALSE
  /\ hangups = FALSE

-----------------------------------------------------------------------------
Outcomes == {"allowed", "quota_rejected", "invalid_request", "unknown_policy",
             "backlog_full", "dependency_unavailable", "internal_error"}

\* The HTTP status that goes with an outcome.
Status(o) ==
  CASE o = "allowed" -> 200
    [] o = "quota_rejected" -> 429
    [] o = "invalid_request" -> 400
    [] o = "unknown_policy" -> 404
    [] o \in {"backlog_full", "dependency_unavailable"} -> 503
    [] o = "internal_error" -> 500

\* A request begins when nothing of the one before it is left on the wire.
Begin(r) ==
  /\ r \notin calling
  /\ wire[r] # "sent"
  /\ verdict' = [verdict EXCEPT ![r] = "none"]
  /\ UNCHANGED <<redisVars, observers>>

\* The handler answers before, or without, a script.
AnswerAtOnce(r, counted) ==
  /\ outcome' = [outcome EXCEPT ![r] = counted]
  /\ wire' = [wire EXCEPT ![r] = "idle"]

\* readJSON or validate.Struct refuses the payload.
BadPayload(r) ==
  /\ Begin(r)
  /\ AnswerAtOnce(r, "invalid_request")
  /\ UNCHANGED <<breakerVars, request>>

\* The open circuit refuses the request, whatever it asks.
Refused(r) ==
  /\ Begin(r)
  /\ state = "open" /\ ~Breaker!OpenElapsed
  /\ AnswerAtOnce(r, "dependency_unavailable")
  /\ UNCHANGED <<breakerVars, request>>

Asked == {"check", "invalid_request", "unknown_policy"}

\* The breaker is asked before the cost and the policy are looked at; a check
\* it admits is sent to Redis, a request it refuses is answered 503.
Check(r, asks) ==
  /\ Begin(r)
  /\ Breaker!startRequest(r)
  /\ IF r \in calling'
     THEN /\ request' = [request EXCEPT ![r] = asks]
          /\ wire' = [wire EXCEPT ![r] = IF asks = "check" THEN "sent" ELSE "idle"]
          /\ outcome' = [outcome EXCEPT ![r] = "none"]
     ELSE AnswerAtOnce(r, "dependency_unavailable") /\ UNCHANGED request

-----------------------------------------------------------------------------
\* Mutant of Decide: looks at the stream length after the append.
DecideLate(r, decision) ==
  /\ verdict' = [verdict EXCEPT ![r] = decision]
  /\ IF decision = "allowed"
     THEN /\ tokens > 0 /\ backlog <= MaxBacklog
          /\ tokens' = tokens - 1
          /\ backlog' = backlog + 1
          /\ approvals' = approvals + 1
     ELSE tokens = 0 /\ decision = "denied" /\ UNCHANGED <<tokens, backlog, approvals>>

\* The three outcomes of the script.
Decide(r, decision) ==
  /\ verdict' = [verdict EXCEPT ![r] = decision]
  /\ CASE decision = "denied" -> tokens = 0
       [] decision = "full" -> tokens > 0 /\ backlog >= MaxBacklog
       [] decision = "allowed" -> tokens > 0 /\ backlog < MaxBacklog
  /\ IF decision = "allowed"
     THEN /\ tokens' = tokens - 1
          /\ backlog' = backlog + 1
          /\ approvals' = approvals + 1
     ELSE UNCHANGED <<tokens, backlog, approvals>>

\* Mutant of Execute: the client library sends a script again when its reply
\* is late, so Redis may run it twice.
ExecuteAgain(r) ==
  /\ wire[r] \in {"sent", "replied"}
  /\ redis = "up"
  /\ wire' = [wire EXCEPT ![r] = IF r \in calling THEN "replied" ELSE "idle"]
  /\ \E decision \in {"allowed", "denied", "full"} : Decide(r, decision)
  /\ UNCHANGED <<breakerVars, request, outcome, refills, observers>>

\* Redis runs the script of a request, once; nobody reads a late reply.
Execute(r) ==
  /\ wire[r] = "sent"
  /\ redis = "up"
  /\ wire' = [wire EXCEPT ![r] = IF r \in calling THEN "replied" ELSE "idle"]
  /\ \E decision \in {"allowed", "denied", "full"} : Decide(r, decision)
  /\ UNCHANGED <<breakerVars, request, outcome, refills, observers>>

\* A command or a reply is lost with the connection.
Lose(r) ==
  /\ redis = "down"
  /\ wire[r] \in {"sent", "replied"}
  /\ wire' = [wire EXCEPT ![r] = IF r \in calling THEN "lost" ELSE "idle"]
  /\ UNCHANGED <<breakerVars, request, verdict, outcome, redisVars, observers>>

-----------------------------------------------------------------------------
\* The handler answers; a script that was sent and not yet run stays on the wire.
Finish(r, counted) ==
  /\ outcome' = [outcome EXCEPT ![r] = counted]
  /\ request' = [request EXCEPT ![r] = "check"]
  /\ wire' = [wire EXCEPT ![r] = IF @ = "sent" THEN "sent" ELSE "idle"]
  /\ UNCHANGED <<verdict, redisVars, outage>>

ReturnAllowed(r) ==
  /\ wire[r] = "replied" /\ verdict[r] = "allowed"
  /\ Breaker!Success(r)
  /\ Finish(r, "allowed")
  /\ granted' = granted + 1
  /\ UNCHANGED hangups

\* Mutant of ReturnDenied: a quota rejection counts as a dependency failure.
ReturnDeniedAsFailure(r) ==
  /\ wire[r] = "replied" /\ verdict[r] = "denied"
  /\ Breaker!recordFailure /\ Breaker!Return(r)
  /\ Finish(r, "quota_rejected")
  /\ UNCHANGED <<granted, hangups>>

ReturnDenied(r) ==
  /\ wire[r] = "replied" /\ verdict[r] = "denied"
  /\ Breaker!Success(r)
  /\ Finish(r, "quota_rejected")
  /\ UNCHANGED <<granted, hangups>>

\* ErrEventBacklogFull is a request error for the breaker, a 503 for the client.
ReturnFull(r) ==
  /\ wire[r] = "replied" /\ verdict[r] = "full"
  /\ Breaker!RequestError(r)
  /\ Finish(r, "backlog_full")
  /\ UNCHANGED <<granted, hangups>>

\* Mutant of ReturnUnavailable: waits for the reply without a deadline.
ReturnUnavailableNever(r) ==
  /\ wire[r] = "replied"
  /\ request[r] = "check"
  /\ Breaker!Failure(r)
  /\ Finish(r, "dependency_unavailable")
  /\ UNCHANGED <<granted, hangups>>

\* The deadline passed or the connection broke: ErrUnavailable.  The script
\* may have run, may still run or may be lost.
ReturnUnavailable(r) ==
  /\ request[r] = "check"
  /\ Breaker!Failure(r)
  /\ Finish(r, "dependency_unavailable")
  /\ UNCHANGED <<granted, hangups>>

\* ErrNoPolicy, ErrInvalidCost or ErrCostExceedsLimit.
ReturnRequestError(r) ==
  /\ request[r] # "check"
  /\ Breaker!RequestError(r)
  /\ Finish(r, request[r])
  /\ UNCHANGED <<granted, hangups>>

Return(r) ==
  \/ ReturnAllowed(r)
  \/ ReturnDenied(r)
  \/ ReturnFull(r)
  \/ ReturnUnavailable(r)
  \/ ReturnRequestError(r)

\* The client went away: the caller's context is done, the handler answers 500
\* to nobody.
Hangup(r) ==
  /\ Breaker!RequestError(r)
  /\ Finish(r, "internal_error")
  /\ hangups' = TRUE
  /\ UNCHANGED granted

\* The decision is made, but writeJSON fails.
HangupUnwritten(r) ==
  /\ wire[r] = "replied" /\ verdict[r] \in {"allowed", "denied"}
  /\ Breaker!Success(r)
  /\ Finish(r, "internal_error")
  /\ hangups' = TRUE
  /\ UNCHANGED granted

-----------------------------------------------------------------------------
\* The bucket regains a token.
Refill ==
  /\ tokens < Limit /\ refills < MaxRefills
  /\ tokens' = tokens + 1
  /\ refills' = refills + 1
  /\ UNCHANGED <<breakerVars, request, wire, verdict, outcome, backlog, approvals, observers>>

\* The worker removes a stored event.
Drain ==
  /\ backlog > 0
  /\ backlog' = backlog - 1
  /\ UNCHANGED <<breakerVars, request, wire, verdict, outcome, tokens, refills, approvals, observers>>

Tick ==
  /\ Breaker!Tick
  /\ UNCHANGED <<request, wire, verdict, outcome, redisVars, observers>>

RedisChange ==
  /\ Breaker!RedisChange
  /\ outage' = TRUE
  /\ UNCHANGED <<request, wire, verdict, outcome, redisVars, granted, hangups>>

Next ==
  \/ \E r \in Requests :
       \/ BadPayload(r) \/ Refused(r)
       \/ \E asks \in Asked : Check(r, asks)
       \/ Execute(r) \/ Lose(r) \/ Return(r) \/ Hangup(r) \/ HangupUnwritten(r)
  \/ Refill \/ Drain \/ Tick \/ RedisChange

\* A running Redis serves what it received; every call ends by its reply, its
\* deadline or its error.  No client is assumed to hang up.
Fairness == \A r \in Requests : WF_vars(Execute(r)) /\ WF_vars(Return(r))

Spec == Init /\ [][Next]_vars
FairSpec == Spec /\ Fairness

-----------------------------------------------------------------------------
RequestsTypeOK ==
  /\ request \in [Requests -> Asked]
  /\ wire \in [Requests -> {"idle", "sent", "replied", "lost"}]
  /\ verdict \in [Requests -> {"none", "allowed", "denied", "full"}]
  /\ outcome \in [Requests -> Outcomes \cup {"none"}]

CountersTypeOK ==
  /\ tokens \in 0..Limit
  /\ backlog \in 0..MaxBacklog
  /\ refills \in 0..MaxRefills
  /\ approvals \in Nat
  /\ granted \in Nat

FlagsTypeOK == outage \in BOOLEAN /\ hangups \in BOOLEAN

\* The bucket and the stream stay within their limits, whatever is lost, and
\* the circuit's fields in their ranges.
TypeOK == Breaker!TypeOK /\ RequestsTypeOK /\ CountersTypeOK /\ FlagsTypeOK

\* Calls whose script has approved and whose client is still waiting.
Waiting == {r \in calling : verdict[r] = "allowed"}

\* docs/api.md: a 503 "never grants local fallback capacity".  Every 200 is
\* backed by an approval event of its own; and quota is spent on a client that
\* is not told so only when Redis was unavailable or a client went away.
GrantsAreBacked ==
  /\ granted + Cardinality(Waiting) <= approvals
  /\ ~outage /\ ~hangups => granted + Cardinality(Waiting) = approvals

\* docs/requirements.md: "HTTP 429 is a valid quota decision and does not count
\* as a dependency failure."  As long as Redis answers, no mix of rejections,
\* full backlogs, request errors and hang-ups moves the breaker or is counted
\* as an unavailable dependency; a full backlog is counted only when the script
\* found it full, and an internal error only when a client went away.
NoFalseAlarm ==
  ~outage =>
    /\ state = "closed" /\ failures = 0
    /\ \A r \in Requests :
         /\ outcome[r] # "dependency_unavailable"
         /\ outcome[r] = "backlog_full" => verdict[r] = "full"
         /\ outcome[r] = "internal_error" => hangups

\* The handler answers every request, although commands and replies are lost
\* and the client never gives up.
CheckIsAnswered == \A r \in Requests : r \in calling ~> r \notin calling

\* docs/api.md: a 503 response "does not spend quota".
UnavailableSpendsNothing ==
  \A r \in Requests :
    outcome[r] # "none" /\ Status(outcome[r]) = 503 => verdict[r] # "allowed"
=============================================================================

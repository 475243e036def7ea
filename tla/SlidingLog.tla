----------------------------- MODULE SlidingLog -----------------------------
(***************************************************************************)
(* The in-memory sliding log (internal/ratelimiter/sliding-log.go).        *)
(*                                                                         *)
(* The mutex makes a decision one atomic step; keys are independent, so    *)
(* one key is modelled.  Time is counted in instants of the injected       *)
(* clock, a millisecond being InstantsPerMS of them.  A cost above the     *)
(* limit is accepted and denied.                                           *)
(***************************************************************************)
EXTENDS Integers, Sequences, Functions, FiniteSetsExt

CONSTANTS
  Limit,          \* policy.Limit, positive
  Window,         \* policy.Window in instants, positive
  InstantsPerMS,  \* instants in a millisecond
  MaxTime         \* bound on the clock

VARIABLES
  now,      \* what the clock shows
  log,      \* l.logs[key]: the requests (at, cost) in order, and their used total
  spentAt,  \* observer: cost approved at each instant
  denial    \* observer: what the last denial told its client, until an approval

vars == <<now, log, spentAt, denial>>

Costs == 1..(Limit + 1)
NoDenial == [cost |-> 0, resetAt |-> 0, retryAt |-> 0]

Init ==
  /\ now = 0
  /\ log = [requests |-> <<>>, used |-> 0]
  /\ spentAt = [t \in 0..MaxTime |-> 0]
  /\ denial = NoDenial

-----------------------------------------------------------------------------
\* The cost of the first n requests of a log.
PrefixCost(requests, n) == SumFunctionOnSet([i \in 1..n |-> requests[i].cost], 1..n)

\* Mutant of Expired: an entry counts one instant longer than the window.
ExpiredLate(request) == request.at < now - Window

\* !request.at.After(cutoff)
Expired(request) == request.at <= now - Window

\* The log without its leading expired requests.
activeLog ==
  LET n == Max({i \in 0..Len(log.requests) : \A j \in 1..i : Expired(log.requests[j])})
  IN  [requests |-> SubSeq(log.requests, n + 1, Len(log.requests)),
       used |-> log.used - PrefixCost(log.requests, n)]

\* Mutant of nextAvailability: names the first expiry, whatever it releases.
nextAvailabilityOfFirst(active, c) ==
  IF active.requests = <<>> THEN now + Window ELSE active.requests[1].at + Window

\* When enough recorded cost expires for c; a cost above the limit never fits
\* and is told to wait for one window.
nextAvailability(active, c) ==
  LET required == c - (Limit - active.used)
      enough == {i \in 1..Len(active.requests) : PrefixCost(active.requests, i) >= required}
  IN  IF enough = {} THEN now + Window ELSE active.requests[Min(enough)].at + Window

\* max(1, resetAt.Sub(now).Milliseconds()): whole milliseconds, rounded down.
RetryAfterMS(resetAt) == Max({1, (resetAt - now) \div InstantsPerMS})

\* A denial stores the shortened log.
Denied(c) ==
  LET resetAt == nextAvailability(activeLog, c)
  IN  /\ c > Limit - activeLog.used
      /\ log' = activeLog
      /\ denial' = [cost |-> c, resetAt |-> resetAt,
                    retryAt |-> now + RetryAfterMS(resetAt) * InstantsPerMS]
      /\ UNCHANGED spentAt

Allowed(c) ==
  /\ c <= Limit - activeLog.used
  /\ log' = [requests |-> Append(activeLog.requests, [at |-> now, cost |-> c]),
             used |-> activeLog.used + c]
  /\ spentAt' = [spentAt EXCEPT ![now] = @ + c]
  /\ denial' = NoDenial

Allow(c) == (Allowed(c) \/ Denied(c)) /\ UNCHANGED now

Tick ==
  /\ now < MaxTime
  /\ now' = now + 1
  /\ UNCHANGED <<log, spentAt, denial>>

Next == (\E c \in Costs : Allow(c)) \/ Tick

Spec == Init /\ [][Next]_vars

-----------------------------------------------------------------------------
\* The cost approved at the instants of a set.
Spent(instants) == SumFunctionOnSet(spentAt, instants)

\* docs/benchmarks.md: "exact rolling-window enforcement".  No Window ever
\* holds more than the limit, wherever it begins, and none is held against a
\* client: what the log counts now is what the last Window approved.
RollingQuotaIsExact ==
  /\ \A t \in 0..now : Spent({u \in 0..t : u > t - Window}) <= Limit
  /\ activeLog.used = Spent({u \in 0..now : u > now - Window})

\* nextAvailability is exact: until another approval, a denied cost within the
\* limit fits from reset_at on and at no instant before.
NextAvailabilityIsExact ==
  denial.cost \in 1..Limit =>
    (now >= denial.resetAt <=> denial.cost <= Limit - activeLog.used)

\* retry_after_ms is cut to whole milliseconds, so a denied client may come
\* back too early, but never by a millisecond.
RetryAfterPlusOneSuffices ==
  denial.cost \in 1..Limit /\ now >= denial.retryAt + InstantsPerMS =>
    denial.cost <= Limit - activeLog.used
=============================================================================

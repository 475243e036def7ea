# A TLA+ model of the rate limiter

This directory holds TLA+ models of the rate-limiting service in this
repository, TLC configurations that check them on small instances, and proofs
checked by TLAPS. Every module names the source file it models;
`PROJECT.json` maps each definition to its lines.

## The system

An API process answers `POST /v1/check`. It asks its circuit breaker, the
breaker calls the Redis limiter, and the limiter runs one Lua script in Redis.
The script refills and spends a token bucket and appends an event for each
approval to a stream of bounded length. Worker processes move events from the
stream to PostgreSQL and delete them; a full stream stops approvals. Any number
of API and worker processes share one Redis.

| component | state | operations | shares or calls |
|---|---|---|---|
| check handler (`cmd/api/check.go`) | none of its own | one request, from payload to HTTP status | calls the breaker |
| circuit breaker (`circuit-breaker.go`) | state, failure count, opening time, probe flag, under a mutex | startRequest, recordSuccess, recordFailure, cancelProbe, Ready | calls the limiter unlocked |
| Redis token bucket (`redis-token-bucket.go`) | one hash per key (tokens, refill time, expiry); the stream | the script: allow, deny, backlog full | Redis, shared by all API processes |
| event processor and worker loop (`internal/events`, `cmd/worker/worker.go`) | consumer group, pending entries, a batch, an open transaction | create group, read, claim, insert, commit, acknowledge and delete | Redis and PostgreSQL, shared by all workers |
| backlog monitor (`cmd/worker/monitor.go`) | last state and length seen | sample, log a transition | reads the stream |
| in-memory token bucket, fixed window, sliding log | one record per key, under a mutex | Allow | an injected clock |
| usage reports (`cmd/api/analytics.go`, `internal/database`) | the table approved_requests | summary (two queries), trends (one query) | PostgreSQL, written by the workers |
| configuration (`config.go` of both commands, `internal/env`) | the environment | read, refuse or replace a value | one environment for both processes |
| start-up and shutdown (`main.go`, `api.go` of both commands) | goroutines, channels, an HTTP server | start, serve, stop on a signal | Redis and PostgreSQL at start-up |
| health, metrics and status endpoints | counters; none | read-only | not modelled but for what they count and Ready |

What is hard here: outcomes of Redis calls applied to a breaker that has moved
on; scripts that run although their caller gave up; buckets that expire,
reappear and are rounded on every write; clocks that go back and failovers that
undo acknowledged writes; entries delivered twice, claimed from a slow worker
or lost between two commands; failure and death at every step of a batch;
decisions taken from samples; reports made of two queries; goroutines of which
one ends before the other. `PROJECT.json` lists these hazards at their lines
with the properties that cover them.

## Modules

| module | models | extends / instantiates |
|---|---|---|
| `CircuitBreaker` | the breaker with overlapping calls | |
| `RedisTokenBucket` | the script, its rounding and expiry, clock steps and failover | instantiates `QuotaBucket` |
| `QuotaBucket` | what the script promises: an ideal bucket and a bounded queue | |
| `ApprovalEvents` | delivery of events to PostgreSQL, with faults and failover | |
| `CheckService` | handler, breaker and script over an unreliable connection | instantiates `CircuitBreaker` |
| `BacklogMonitor` | the sampled transition log | |
| `UsageReport` | the two report endpoints over a table that is being written | |
| `Configuration` | what API and worker make of one environment | |
| `Lifecycle` | start-up and shutdown of both processes | extends `Configuration` |
| `TokenBucket`, `FixedWindow`, `SlidingLog` | the in-memory limiters | |
| `MemoryLimiters` | an application that chose one of the three, on one policy and clock | extends `TokenBucket`, instantiates the other two |
| `CircuitBreakerProofs`, `RedisTokenBucketProofs`, `ApprovalEventsProofs`, `UsageReportProofs` | theorems about the module of that name | extend it and `TLAPS` |
| `CheckServiceProofs` | theorems about the composed service | extends `CheckService`, instantiates `CircuitBreakerProofs` |
| `LifecycleProofs` | theorems about both processes and the monitor | extends `Lifecycle` and `BacklogMonitor` |
| `MemoryLimitersProofs` | theorems about the three in-memory limiters | extends `MemoryLimiters` |
| `NumericLemmas` | arithmetic, induction over numbers and finite sets, sums over finite sets | extended by the proofs that compute |
| `MCCircuitBreaker` | a symmetry set for TLC | extends `CircuitBreaker` |

Definitions marked "Mutant of" in a comment are not used by any specification.
Each is a plausible bug in the definition it names; put in its place, it makes
TLC report the property named in `PROJECT.json`.

### How state and actions correspond to the code

**CircuitBreaker.** A request is admitted by `startRequest` (`StartClosed`,
`StartProbe`), is then in `calling` with no lock held, and comes back by
`Success`, `Failure` or `RequestError`, which apply recordSuccess,
recordFailure and cancelProbe. Refusals of an open circuit change nothing and
have no action; a refusal that moves the circuit to half-open does. Only time
differences matter: `sinceOpened` is `now() - openedAt`, `age` the time a call
has run. `MaxCallTime` stands for the decision deadline. A call may succeed if
Redis was up at some time during it and fail if it was down at some time.

**RedisTokenBucket.** One action per outcome of the script. A token is
`Precision` grains, a grain `WindowMS` units; a balance is computed in units
and stored in grains, which is what `tostring` with 14 digits does. (Really the
grain depends on the size of the number; the model uses one grain. The
assumption `WindowMS <= 2 * Limit * Precision` says that rounding shifts a
balance by no more than one millisecond refills, which holds by many orders of
magnitude at 14 digits.) A key is not found from its deadline on, and Redis
deletes it at some time after that (`Expire`), so that a clock that is set back
(`StepBack`) may or may not find it again. `FallBehind` and `Failover` are a
replica that stopped following at any moment and its promotion, with any clock.
All keys have the same policy. Of the observers, `promise` records what clients
were told, and `excess` is the most, over all intervals that end now, by which
an interval has spent more than it refilled: one number stands for every
beginning of an interval. Time lived twice counts as time in it, since clients
live it too.

**ApprovalEvents.** An event is its stream ID. Each Redis command, INSERT and
COMMIT is one step. `LoseReply` is a command that Redis executed and the worker
does not hear of; `CommitUnanswered` is the same for COMMIT; `Fail` is a step
that failed with nothing applied; `Crash` is a death or a shutdown. An INSERT
waits for another open transaction that holds the same key, as the unique index
makes it. The order of inserts is that of the IDs, since both XREADGROUP and
XAUTOCLAIM return them in that order. One time step is one claim interval.
`FallBehind` and `Promote` are a failover: stream, group and pending entries go
back to what the replica had, and an entry may look idle for longer than it is.
Events that never reached the replica are recorded in `lost`. Stream IDs go on:
they are times, and a promoted node whose clock is behind is not modelled here.

**CheckService.** The breaker is the module above. Sending, running and
answering a script are separate steps; `Lose` drops a command or a reply while
Redis is away, and a script still on the wire may run after its caller was
answered 503. `outcome` is what `metrics.observe` counts the request under,
which determines its HTTP status. The bucket is reduced to whole tokens refilled
at any time, which `BucketRefinesQuota` justifies.

**BacklogMonitor.** `Sample` is one tick whose Status call answered; a tick
that fails has no effect. `AppendEvent` and `RemoveEvents` change the length
between samples; `Restart` forgets the local variables of `monitorBacklog`.

**UsageReport.** `Store` is a batch committed by a worker, at any time after its
approvals; when the cleanup failed, the events are stored again. A summary is
two steps, each of which sees the table and NOW() of its moment. `Unavailable`
covers a failed query and the one deadline that both queries share. One report
runs at a time, since reports do not influence each other.

**Configuration, Lifecycle.** An environment is a function from variables to
texts; `Environments(n)` sets up to n of them. `strings.TrimSpace`,
`strings.Split` and `strconv.Atoi` are tables over the texts of the model. The
two processes have the same steps up to `run`; `logger.Fatalw` is
`Exit(p, "failed")`, without the deferred calls. A listener may fail at once
(`Listen`) or later (`ServeFails`). `Shutdown` of an HTTP server closes the listener at once, and ends when
no request is left or after five seconds (`ShutdownReturns`). The worker's
channel `stopped` is a sequence; `Select` takes either case when both are
ready. What a batch does is reduced to whether its transaction is open.

**TokenBucket, FixedWindow, SlidingLog.** One key, since keys share nothing but
the mutex. Time is in clock instants of which several make a millisecond, so
the conversions to milliseconds are visible. The observers keep the history of
approvals and the last answer; `visits` of the fixed window counts how often
the clock entered each aligned window, more than once if it is set back.

## Runs

| run | module, configuration | what it shows |
|---|---|---|
| `breaker` | `MCCircuitBreaker`, `CircuitBreaker.cfg` | four overlapping calls that end in any order: the counter agrees with the state, half-open always has its probe in flight, the probe is alone; the circuit closes again after an outage, with no traffic but what readiness lets through, and opens in a lasting one |
| `bucket` | `RedisTokenBucket` | the quota of every interval, the stream bound, the truth of remaining, retry_after_ms (plus one) and reset_at (plus one), with clocks set back and failovers; the script implements `QuotaBucket` |
| `events` | `ApprovalEvents` | no approval is lost but by a failover, none is stranded, transactions never wait in a circle; every approval that can be parsed reaches PostgreSQL and leaves Redis, unless the group stays lost |
| `check` | `CheckService` | every 200 has its own approval event; without an outage the breaker never moves, nothing is counted as a dependency failure and no quota is spent unannounced; every admitted check is answered |
| `monitor` | `BacklogMonitor` | one announcement per drain, the state is one that was announced, convergence |
| `memory` | `MemoryLimiters` | token bucket: relived time is not refilled twice and answers are kept; fixed window: the limit once per visit to an aligned window; sliding log: exact for every rolling window, nextAvailability is exact |
| `reports` | `UsageReport` | every figure of a report lies between the history at its beginning and at its end; a drained stream leaves each day exact, however late and often its events were stored; every report is answered |
| `lifecycle` | `Lifecycle` | if both processes serve, they agree on Redis, stream and stream limit, and on the database but for blanks around its URL; an exit with status 0 leaves no API request and no transaction behind; a process that is told to stop stops |

Four runs expect a violation. Each states what a document says and shows a
behaviour of the code that differs:

- `breaker_open_interval`: a late success closes an open circuit before its
  interval is over.
- `bucket_retry_after`: after exactly `retry_after_ms` the cost may not fit,
  because the stored balance was rounded down.
- `check_unavailable`: a 503 whose script ran has spent quota.
- `monitor_resumption`: admission that resumes through the warning band is
  never logged as resumed.

Four limits of the code are stated as premises of properties that hold:

- The probe is alone because calls are shorter than the open interval, as with
  the default settings. The constructor does not require it; otherwise a call
  from before the outage can clear the probe flag under a running probe.
- A consumer group that a failover took away is created again only by the
  start of a worker.
- An event that cannot be parsed keeps its whole batch from being stored.
- The worker trims `DATABASE_URL` (`cmd/worker/config.go:86`) and the API does
  not (`cmd/api/config.go:53`). With a blank before the URL, which makes it a
  keyword list to pgx, or after its database name, both processes start and the
  API reads its reports from another database than the worker fills.
  `StartedProcessesAgree` says that this is the only way for their settings to
  differ.

### Bounds

- `breaker`: four calls and a threshold of three, the default: a probe, older
  calls that succeed and fail, and a count that is interrupted by a success.
  Calls last two steps of time and the open interval three, the order of the
  defaults.
- `bucket`: the clock runs past the expiry (2 * 3 ms) of a key written at time
  0 and on into its re-creation, and is set back any number of times; failovers
  are not bounded either. One key: keys share only the stream, and the theorems
  cover any set of keys. A window of three milliseconds and a limit of two make
  balances that round up and balances that round down. The stream holds one
  event, so a request is also refused for a full backlog.
- `events`: three events of which one is malformed, batches of two and a stream
  of two give two batches, a full stream and a batch that cannot be stored; two
  faults allow, for example, a lost reply before an ambiguous commit, or a
  crash during a failover. `DeliverySafety` has no bound.
- `check`: two requests, one token and one place in the stream, so that each
  resource is contended; the first failure opens the circuit.
- `monitor`: five places with a warning level of 60 % give every state more
  than one length, and jumps that skip the warning band.
- `memory`: two windows of two and a half milliseconds (two clock instants
  each), so that whole milliseconds do not fill a window, and a clock that
  steps back once (token bucket and fixed window).
- `reports`: two approvals of two clients on the two days before the end of the
  clock, with a period of one day, so that an approval can leave the period
  between two queries; any subset of the stream may be a batch.
- `lifecycle`: environments with up to three variables set (one check of the
  code looks at two, and the worker needs a third), to texts that are empty,
  padded, unreadable or at a boundary where the code tells them apart, and one
  request at a time at each server.

`MaxTime`, `MaxEvents`, `MaxFaults`, `MaxRefills`, `MaxRestarts`,
`MaxStepsBack`, `MaxApprovals`, `MaxSet` and `MaxActive` bound the behaviours
and nothing else. Symmetry is used only in `breaker_open_interval`, which has no
liveness property.

### Fairness

- Breaker: time passes, every call returns (its context has a deadline), and
  clients keep sending when the instance is ready: a load balancer that follows
  the readiness endpoint sends nothing else, so an instance that never became
  ready again would never recover. Strong fairness of Success and of Failure
  says that of the calls of one request that could end that way again and
  again, not all are cancelled by the client or end in a request error.
- Events: workers run and are restarted, ticks keep coming, faults are finite.
  Strong fairness of ConsumeNew says that handling a claim tick is over before
  the next one, as with the default interval of ten seconds. Replicas are not
  assumed to fall behind or to be promoted.
- Check: a running Redis serves what it received and every call ends by its
  reply, deadline or error. No client is assumed to hang up.
- Monitor: the ticker ticks and not every Status call fails.
- Reports: a handler goes on; nothing is assumed of PostgreSQL.
- Lifecycle: every goroutine goes on when it can, and calls to Redis and
  PostgreSQL return, with an error if need be. No client is assumed to finish.

## Proofs

Every invariant that a passing run checks and the refinement of `QuotaBucket`
are proved for every value of the constants that satisfies the
named assumptions. `BreakerTypeCorrect`, `ThresholdOpens`, `BucketTypeCorrect`,
`RemainingSpendable`, `ResetIsFull`, `EventsTypeCorrect` and `NeverStranded`
single out one invariant of the theorems below.

Breaker, script and delivery:

- `BreakerSafety`: TypeOK, ClosedBelowThreshold and NoLockout. Together they
  are inductive (`BreakerInv`): NoLockout is an equivalence of the flag, the
  half-open state and the probe in flight, and needs no strengthening.
- `ProbeAlone`: ProbeIsAlone, assuming `MaxCallTime < OpenTimeout`. `ProbeInv`
  adds that there is no probe unless the circuit is half-open and that while it
  is open every call is at least as old as the opening: when the interval is
  over, all calls older than the opening have ended.
- `QuotaBound`: TypeOK and QuotaPerInterval. `BucketInv` adds that a key
  expires `TTL` after its last write, of the primary's data and of the
  replica's; `QuotaInv` bounds what was spent beyond the allowance plus what
  the bucket still holds by one capacity, and half a grain more when the key was
  written in this millisecond. That several writes in one millisecond round only once needs the
  fact that a balance stored in grains less a whole number of tokens is again
  in grains. Expiry is covered because `TTL` is twice the time of a full
  refill, clock steps because elapsed time is never negative, and a failover
  because its allowance is a whole capacity.
- `BucketRefinesQuota`: initial states and every step map to QuotaBucket with
  `level[k]` the balance a decision made now would compute. The expiry of a key
  is a step of time in which the level is full already; a clock step stalls the
  refill of keys written later than the new time. `QuotaBucket` has the clock
  and whether a replica is behind among its variables, so that no other step
  can pass for a clock step or a failover.
- `PromisesKept`: RemainingIsSpendable, RetryAfterPlusOneSuffices and
  FullAfterReset. `HonestInv` states each promise of what is stored, whatever
  the time is: the balance and timestamp of the key suffice one millisecond
  after the promised time. So time, clock steps and expiry cannot break it, and
  a decision establishes it because rounding takes no more than one
  millisecond refills (`PrecisionAssumption`). A failover forgets the promises.
- `DeliverySafety`: TypeOK, NoApprovalLost and NothingStranded, with the
  additional fact (`BatchAccounted`) that a batch being inserted is in the
  open transaction, in the database or still to do, and a batch being cleaned
  up is in the database. NothingStranded speaks of the replica as well, which
  makes a promotion at any moment safe.
- `TransactionsNeverDeadlock`: NoTransactionDeadlock. `RowsPrecede` says that
  the rows an open transaction has inserted precede those it has still to
  insert; of any workers that wait, the one with the greatest next row cannot
  wait for another of them.

The composed service:

- `CheckRefinesBreaker`: every step of `CheckService` is a step of
  `CircuitBreaker` or leaves the breaker alone, so `BreakerSafety` holds of the
  breaker in the service, and `ServiceTypeCorrect` uses it.
- `NoFalseAlarms`: `QuietInv` adds what a call in flight leaves open
  (`CallsInOrder`: it has no outcome yet, and a script on the wire no verdict)
  and that without an outage no call has met one and, unless a client hung up,
  a script is on the wire only while its client waits (`Undisturbed`).
- `GrantsBacked`: GrantsAreBacked compares approvals with 200s and clients that
  still wait for theirs. On top of `QuietInv` it needs that the calls in flight
  are a finite set. A script that runs adds an approval and, unless its client
  has gone, a waiting client; a return makes a waiting client a granted one.

Both processes and the monitor:

- `StartedAgree`: StartedProcessesAgree. `StartInv` says that a process gets
  past each check of its start-up only by passing it. What remains,
  `SettingsAgree`, is a fact about the two configurations that asks nothing of
  the environment, so `MaxSet` does not limit it; of the tables that stand for
  `strings.TrimSpace` and `strconv.Atoi` it uses only that trimming leaves the
  empty text empty.
- `CleanExits`: CleanExitDrains. `ToldToStop` says that nothing but a signal
  closes a server or ends processing without an error, `Drained` that a server
  that was shut down accepts nothing, so that one that is drained stays so.
- `MonitorTypeCorrect`, `DrainsAnnouncedOnce`: for a positive stream limit and a
  warning level in 1..100, the assumptions of `BacklogMonitor`. `DrainInv` says
  that after an announced drain the length is zero and was seen to be.

In-memory limiters (`LimiterInv` puts the three together by `limiter`):

- `TokenQuota`, `TokenPromises`: `TokenInv` bounds what was spent, what the
  bucket holds and what the clock can still refill within the span it has shown
  by the capacity and one refill of that span (`Conserved`); a clock that is set
  back changes neither side. `Honest` states each promise of the stored
  bucket, so that time alone cannot break it; as in the property, it speaks of
  clocks that were not set back.
- `FixedQuota`: `FixedInv` adds that the usage stored for the window of now
  accounts for what the current visit has spent.
- `SlidingQuota`, `SlidingAvailability`: `SlidingInv` says that the log is ordered
  by time, that `used` is the cost of its requests, and that from any moment of
  the last window on the log accounts for what was spent (`Accounted`). An
  expired request is dropped with exactly its cost, and what a window that ends
  now approved is a part of the log. A denial names the first request whose
  expiry releases enough (`DenialHonest`), which time alone cannot change.
- `RetryAfterClose`: RetryAfterIsCloseEnough, from `FixedHonest` and
  `DenialHonest`: the wait that was cut to milliseconds ends less than one
  millisecond before the instant it was computed from.

Usage reports:

- `ReportsCurrent`: ReportIsCurrent. `StoredInv` says that the table holds rows of
  approvals, each once, and of every approval that has left the stream;
  `ReportInv` that what the first query counted lies between the rows that were
  there when the report was asked for and are still in the period (`Low`) and
  those that are there by now (`High`). Time only shrinks the first and commits
  only add to the second, so the bounds move apart.
- `DrainedReportsExact`: with an empty stream the rows of a day are its
  approvals one for one. `SumByGroup` says that the sums of the groups of a day
  add up to the sum over the day.

Induction over data is not available to the provers as a library theorem, and
is done by hand in `NumericLemmas`: a set of numbers that contains 0 and the
successors of its members contains every number, and from this the same for the
subsets of a finite set. `SumFunctionOnSet` is shown to exist and not to depend
on the order in which CHOOSE takes the elements, and the properties of sums
(`SumSplit`, `SumMonotone`, `SumByGroup` and others) follow. The constants that bound the runs
(`MaxTime`, `MaxEvents` and so on) are any numbers in the theorems.

Only model-checked: liveness, that is RecoversFromOutage, OutageOpensCircuit,
ApprovalsReachHistory, CheckIsAnswered, MonitorConverges, ReportIsAnswered and
ShutdownCompletes. Liveness under fairness is out of the prover's reach.

## Not modelled

- Health, metrics and status endpoints, but for `Ready`, the outcome that is
  counted and the stream length: they format what Redis and PostgreSQL report
  and change nothing.
- Sentinel's election and Redis persistence, which are outside the code: a
  failover is the promotion of a replica that stopped following at any moment.
- Stream IDs used again after a failover to a node whose clock is behind. The
  INSERT would then take a new approval for a stored one.
- The error replies of the script for keys of the wrong type.
- float64 rounding in the in-memory bucket, and wall clocks set back in the
  sliding log.
- A Redis command of a worker that is executed after the worker gave up on it.
- Status requests of a worker that is cut off at shutdown: `Select` may take
  the message of the processing goroutine and never call Shutdown.
- Bodies, headers, order of results and log texts. (The Retry-After header
  carries milliseconds on a 429 and seconds on a 503.)
- Dashboards, deployment files, load tests and benchmarks.

## Plan

Done: breaker, script and delivery, failover and clock steps in the script, the
delivery and the fixed window, the composition `CheckService`, the monitor, the
in-memory limiters, usage reports, configuration and the lifecycle of both
processes, with proofs of every invariant the runs check.

Next:

1. Several API processes in `CheckService`, and the worker as its drain, so
   that a full backlog stops and resumes admission end to end.
2. Delayed worker commands and reused stream IDs in `ApprovalEvents`.

-------------------------- MODULE RedisTokenBucket --------------------------
(***************************************************************************)
(* The shared token bucket (internal/ratelimiter/redis-token-bucket.go):   *)
(* one Lua script decides, stores the bucket and appends the approval      *)
(* event.  Redis runs a script alone, so a decision is one atomic step,    *)
(* whichever API instance sends it.                                        *)
(*                                                                         *)
(* Numbers.  The script computes the balance as a Lua number and stores it *)
(* with tostring, which keeps 14 digits: the stored balance is the nearest *)
(* multiple of a fixed fraction of a token, called a grain here.  A token  *)
(* is Precision grains and a grain is WindowMS units; then one millisecond *)
(* refills Limit * Precision units, and every balance the script computes  *)
(* is a whole number of units.  The stored balance is in grains.           *)
(*                                                                         *)
(* The clock is that of the Redis primary: it may be set back, and after a *)
(* failover it is another node's, whose data may be older (internal/store/ *)
(* redis.go connects through Sentinel and replication is asynchronous).    *)
(***************************************************************************)
EXTENDS Integers

CONSTANTS
  Keys,        \* client/resource pairs that share one policy
  Limit,       \* policy.Limit: capacity, and tokens per window
  WindowMS,    \* millisecondsRoundedUp(policy.Window)
  MaxBacklog,  \* maxBacklog
  Precision,   \* grains per token
  MaxTime      \* bound on the clock, in milliseconds

\* validateTokenBucketPolicies and the constructor.
ASSUME PolicyAssumption == Limit \in Nat \ {0} /\ WindowMS \in Nat \ {0}
ASSUME BacklogAssumption == MaxBacklog \in Nat \ {0}
\* Rounding a balance changes it by no more than one millisecond refills.
ASSUME PrecisionAssumption ==
  Precision \in Nat \ {0} /\ WindowMS <= 2 * Limit * Precision
ASSUME TimeAssumption == MaxTime \in Nat

VARIABLES
  now,        \* redis.call("TIME"), in milliseconds
  exists,     \* keys whose hash has been written
  bucket,     \* the hash: tokens (in grains), last_refill_ms, and its expiry
  backlog,    \* XLEN of the approval stream
  replica,    \* what a replica that fell behind has; {} when it follows
  excess,     \* observer: see QuotaPerInterval
  promise     \* observer: what the last stored decision on each key told its client

data == <<exists, bucket, backlog>>
vars == <<now, data, replica, excess, promise>>

Costs == 1..Limit  \* Allow refuses any other cost before it calls Redis

-----------------------------------------------------------------------------
Rate == Limit * Precision          \* units refilled in one millisecond
CapGrains == Limit * Precision
Capacity == CapGrains * WindowMS   \* in units

Lesser(a, b) == IF a <= b THEN a ELSE b
Greater(a, b) == IF a >= b THEN a ELSE b
CeilDiv(a, b) == (a + b - 1) \div b

\* tostring(tokens): a balance in units to the nearest grain.
Stored(x) == (2 * x + WindowMS) \div (2 * WindowMS)

\* Mutant of TTL: the key expires before the bucket can be full again.
TTLHalf == WindowMS \div 2

TTL == 2 * WindowMS

\* HMGET finds the hash until PEXPIRE's deadline.
Found(k) == k \in exists /\ now < bucket[k].expire_at

\* Mutant of Elapsed: time that has not passed yet counts as well.
ElapsedEither(k) ==
  IF now >= bucket[k].last_refill_ms
  THEN now - bucket[k].last_refill_ms
  ELSE bucket[k].last_refill_ms - now

\* elapsed_ms: nothing, when the clock is behind the last refill.
Elapsed(k) == Greater(0, now - bucket[k].last_refill_ms)

\* The balance, in units, that a decision made now would compute for k.
Refilled(k) ==
  IF Found(k)
  THEN Lesser(Capacity, bucket[k].tokens * WindowMS + Elapsed(k) * Rate)
  ELSE Capacity

Units(c) == c * Precision * WindowMS

NoPromise == [remaining |-> 0, cost |-> 0, retryAt |-> 0, resetAt |-> MaxTime]

Init ==
  /\ now = 0
  /\ exists = {}
  /\ bucket = [k \in Keys |-> [tokens |-> CapGrains, last_refill_ms |-> 0, expire_at |-> 0]]
  /\ backlog = 0
  /\ replica = {}
  /\ excess = [k \in Keys |-> 0]
  /\ promise = [k \in Keys |-> NoPromise]

-----------------------------------------------------------------------------
\* HSET and PEXPIRE: the balance x becomes the state of k.
Store(k, x) ==
  /\ exists' = exists \cup {k}
  /\ bucket' = [bucket EXCEPT ![k] =
                  [tokens |-> Stored(x), last_refill_ms |-> now, expire_at |-> now + TTL]]

\* Mutant of ResetAt: waits for what is there, not for what is missing.
ResetAtOfBalance(x) == now + CeilDiv(x, Rate)

\* reset_at_ms for a balance x.
ResetAt(x) == now + CeilDiv(Capacity - x, Rate)

\* retry_after_ms for a balance x below the cost c.
RetryAfter(x, c) ==
  LET wait == CeilDiv(Units(c) - x, Rate)
  IN  IF wait < 1 THEN 1 ELSE wait

\* Mutant of Remaining: rounds up.
RemainingUp(x) == CeilDiv(x, Precision * WindowMS)

\* remaining: the whole tokens of a balance.
Remaining(x) == x \div (Precision * WindowMS)

\* Mutant of Allowed: checks the stream length after the append.
AllowedLate(k, c) ==
  LET x == Refilled(k)
  IN  /\ Units(c) <= x
      /\ backlog <= MaxBacklog
      /\ Store(k, x - Units(c))
      /\ backlog' = backlog + 1
      /\ excess' = [excess EXCEPT ![k] = @ + 2 * Units(c)]
      /\ promise' = [promise EXCEPT ![k] = NoPromise]
      /\ UNCHANGED <<now, replica>>

\* The cost fits and the stream has room: spend, store and append one event.
Allowed(k, c) ==
  LET x == Refilled(k)
      rest == x - Units(c)
  IN  /\ Units(c) <= x
      /\ backlog < MaxBacklog
      /\ Store(k, rest)
      /\ backlog' = backlog + 1
      /\ excess' = [excess EXCEPT ![k] = @ + 2 * Units(c)]
      /\ promise' = [promise EXCEPT ![k] =
           [remaining |-> Remaining(rest), cost |-> 0, retryAt |-> now,
            resetAt |-> ResetAt(rest)]]
      /\ UNCHANGED <<now, replica>>

\* Mutant of Denied: a request that does not fit takes what there is.
DeniedSpends(k, c) ==
  LET x == Refilled(k)
  IN  /\ Units(c) > x
      /\ Store(k, 0)
      /\ promise' = [promise EXCEPT ![k] =
           [remaining |-> 0, cost |-> c, retryAt |-> now + RetryAfter(x, c),
            resetAt |-> ResetAt(x)]]
      /\ UNCHANGED <<now, backlog, replica, excess>>

\* The cost does not fit: the refill is stored, nothing is spent or appended.
Denied(k, c) ==
  LET x == Refilled(k)
  IN  /\ Units(c) > x
      /\ Store(k, x)
      /\ promise' = [promise EXCEPT ![k] =
           [remaining |-> Remaining(x), cost |-> c,
            retryAt |-> now + RetryAfter(x, c), resetAt |-> ResetAt(x)]]
      /\ UNCHANGED <<now, backlog, replica, excess>>

\* The cost fits but the stream is full: nothing is written and Allow
\* returns ErrEventBacklogFull.
BacklogFull(k, c) ==
  /\ Units(c) <= Refilled(k)
  /\ backlog >= MaxBacklog
  /\ UNCHANGED vars

Allow(k, c) == Allowed(k, c) \/ Denied(k, c) \/ BacklogFull(k, c)

\* The approval worker removes a stored event from the stream.
Drain ==
  /\ backlog > 0
  /\ backlog' = backlog - 1
  /\ UNCHANGED <<now, exists, bucket, replica, excess, promise>>

-----------------------------------------------------------------------------
\* The observer grants every key an allowance of a.
Allowance(a) == [k \in Keys |-> Greater(0, excess[k] - a)]

\* A millisecond passes.
Tick ==
  /\ now < MaxTime
  /\ now' = now + 1
  /\ excess' = Allowance(2 * Rate + WindowMS)
  /\ UNCHANGED <<data, replica, promise>>

\* The clock of the primary is set back.
StepBack ==
  /\ \E t \in 0..MaxTime : t < now /\ now' = t
  /\ UNCHANGED <<data, replica, excess, promise>>

\* Redis deletes a key that has expired, so that it stays away when the clock
\* is set back.
Expire(k) ==
  /\ k \in exists
  /\ ~Found(k)
  /\ exists' = exists \ {k}
  /\ UNCHANGED <<now, bucket, backlog, replica, excess, promise>>

\* The replica stops following: it keeps what the primary holds now.
FallBehind ==
  /\ replica = {}
  /\ replica' = {[exists |-> exists, bucket |-> bucket, backlog |-> backlog]}
  /\ UNCHANGED <<now, data, excess, promise>>

\* Sentinel promotes the replica; its clock may show any time.  What clients
\* were told by the old primary is not kept.
Failover ==
  /\ \E r \in replica :
       exists' = r.exists /\ bucket' = r.bucket /\ backlog' = r.backlog
  /\ now' \in 0..MaxTime
  /\ replica' = {}
  /\ excess' = Allowance(2 * Capacity + WindowMS)
  /\ promise' = [k \in Keys |-> NoPromise]

Next ==
  \/ \E k \in Keys, c \in Costs : Allow(k, c)
  \/ Drain
  \/ Tick
  \/ StepBack
  \/ \E k \in Keys : Expire(k)
  \/ FallBehind
  \/ Failover

Spec == Init /\ [][Next]_vars

-----------------------------------------------------------------------------
Hash == [tokens : 0..CapGrains, last_refill_ms : 0..MaxTime, expire_at : Nat]

\* Balances never exceed the capacity, and the stream never holds more than
\* MaxBacklog events, however many API instances approve at the same time.
TypeOK ==
  /\ now \in 0..MaxTime
  /\ exists \in SUBSET Keys
  /\ bucket \in [Keys -> Hash]
  /\ backlog \in 0..MaxBacklog
  /\ replica \in SUBSET [exists : SUBSET Keys, bucket : [Keys -> Hash], backlog : 0..MaxBacklog]
  /\ excess \in [Keys -> Nat]
  /\ promise \in [Keys -> [remaining : Nat, cost : 0..Limit, retryAt : Nat, resetAt : Nat]]

\* In any interval, of any length and starting at any time, the approvals of
\* one key spend at most the capacity plus what the interval refills, up to
\* half a grain for each of its milliseconds: the expiry and re-creation of
\* the key, its rounding, denied requests in between and a clock that is set
\* back, so that time is lived twice, never add quota.  A failover gives back
\* at most one capacity, however old the replica and whatever its clock.
\* (excess[k] is the most, over the intervals that end now, by which twice the
\* units spent on k exceed twice the interval's allowance.)
QuotaPerInterval == \A k \in Keys : excess[k] <= 2 * Capacity + WindowMS

\* Until the next decision on the key, the whole tokens reported as remaining
\* can all be spent, although the stored balance was rounded.
RemainingIsSpendable == \A k \in Keys : Refilled(k) >= Units(promise[k].remaining)

\* A denied client that waits one millisecond more than retry_after_ms finds
\* enough tokens, if nobody else used the key in between.
RetryAfterPlusOneSuffices ==
  \A k \in Keys : now > promise[k].retryAt => Refilled(k) >= Units(promise[k].cost)

\* One millisecond after reset_at the bucket is full, if nobody used the key.
FullAfterReset == \A k \in Keys : now > promise[k].resetAt => Refilled(k) = Capacity

\* docs/api.md: "retry_after_ms reports when enough capacity exists for that
\* complete cost."
RetryAfterSuffices ==
  \A k \in Keys : now >= promise[k].retryAt => Refilled(k) >= Units(promise[k].cost)

-----------------------------------------------------------------------------
Quota == INSTANCE QuotaBucket WITH
  TokenUnits <- Precision * WindowMS,
  Grain <- WindowMS,
  clock <- now,
  behind <- (replica # {}),
  level <- [k \in Keys |-> Refilled(k)],
  stalled <- {k \in Keys : Found(k) /\ bucket[k].last_refill_ms > now}

\* The script implements an ideal bucket that keeps no timestamp and never
\* expires: storing the refill lazily and letting Redis delete an idle key are
\* invisible to clients, and rounding costs at most half a grain a decision.
\* A clock that is set back only delays the refill of a key, until it has
\* caught up or the next decision.  Nothing but the promotion of a replica that
\* fell behind changes a level in any other way.
ImplementsQuota == Quota!Spec
=============================================================================

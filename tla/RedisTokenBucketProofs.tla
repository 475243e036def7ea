----------------------- MODULE RedisTokenBucketProofs -----------------------
(***************************************************************************)
(* The quota bound of the Redis token bucket, its refinement of the ideal  *)
(* bucket and the truth of what it tells its clients, for any policy,      *)
(* precision and number of keys, any clock and any number of failovers.    *)
(***************************************************************************)
EXTENDS RedisTokenBucket, NumericLemmas, TLAPS

-----------------------------------------------------------------------------
(* Arithmetic. *)

LEMMA CeilDivBounds ==
  ASSUME NEW a \in Nat, NEW b \in Nat \ {0}
  PROVE  CeilDiv(a, b) \in Nat /\ a <= b * CeilDiv(a, b)
BY RoundUpBounds DEF CeilDiv

\* The derived constants are positive and one window refills the capacity.
LEMMA Scale ==
  /\ Rate \in Nat \ {0} /\ CapGrains \in Nat \ {0}
  /\ Capacity \in Nat \ {0} /\ Capacity = Rate * WindowMS
  /\ Capacity = CapGrains * WindowMS
  /\ TTL \in Nat \ {0} /\ TTL = 2 * WindowMS
  /\ WindowMS \in Nat \ {0} /\ Precision \in Nat \ {0} /\ Limit \in Nat \ {0}
  /\ Precision * WindowMS \in Nat \ {0}
BY PolicyAssumption, PrecisionAssumption, MulPositive DEF Rate, CapGrains, Capacity, TTL

\* tostring moves a balance by at most half a grain, never beyond capacity.
LEMMA StoredNear ==
  ASSUME NEW x \in 0..Capacity
  PROVE  /\ Stored(x) \in 0..CapGrains
         /\ 2 * (Stored(x) * WindowMS) <= 2 * x + WindowMS
         /\ 2 * x <= 2 * (Stored(x) * WindowMS) + WindowMS
<1> DEFINE W == WindowMS
           q == (2 * x + W) \div (2 * W)
<1>1. W \in Nat \ {0} /\ CapGrains \in Nat /\ Capacity = CapGrains * W
  BY Scale
<1>2. q \in Nat /\ (2 * W) * q <= 2 * x + W /\ 2 * x + W < (2 * W) * q + 2 * W
  <2>1. 2 * x + W \in Nat /\ 2 * W \in Nat \ {0}
    BY <1>1, Scale
  <2> QED
    BY <2>1, DivBounds
<1> HIDE DEF q
<1>3. (2 * W) * q = 2 * (q * W)
  BY <1>1, <1>2
<1>4. q <= CapGrains
  <2>1. q * W \in Nat /\ CapGrains * W \in Nat
    BY <1>1, <1>2, MulNat
  <2>2. q * W < (CapGrains + 1) * W
    <3>1. (CapGrains + 1) * W = CapGrains * W + W
      BY <1>1
    <3> QED
      BY <1>1, <1>2, <1>3, <2>1, <3>1
  <2> QED
    BY <1>1, <1>2, <2>2, MulCancel
<1> QED
  BY <1>1, <1>2, <1>3, <1>4 DEF Stored, q

\* A balance that is a whole number of grains is stored exactly.
LEMMA StoredExact ==
  ASSUME NEW g \in Nat
  PROVE  Stored(g * WindowMS) = g
<1> DEFINE W == WindowMS
           q == (2 * (g * W) + W) \div (2 * W)
<1>1. W \in Nat \ {0} /\ g * W \in Nat
  BY Scale, MulNat
<1>2. q \in Nat /\ (2 * W) * q <= 2 * (g * W) + W /\ 2 * (g * W) + W < (2 * W) * q + 2 * W
  <2>1. 2 * (g * W) + W \in Nat /\ 2 * W \in Nat \ {0}
    BY <1>1
  <2> QED
    BY <2>1, DivBounds
<1> HIDE DEF q
<1>3. (2 * W) * q = 2 * (q * W) /\ q * W \in Nat
  BY <1>1, <1>2, MulNat
<1>4. (g + 1) * W = g * W + W /\ (q + 1) * W = q * W + W
  BY <1>1, <1>2
<1>5. q * W < (g + 1) * W /\ g * W < (q + 1) * W
  BY <1>1, <1>2, <1>3, <1>4
<1>6. q < g + 1 /\ g < q + 1
  BY <1>1, <1>2, <1>5, MulCancel
<1> QED
  BY <1>2, <1>6 DEF Stored, q

-----------------------------------------------------------------------------
(* The balance a decision would see, and how each step changes it. *)

\* PEXPIRE is renewed with every HSET.
Renewed(E, b) == \A k \in E : b[k].expire_at = b[k].last_refill_ms + TTL
ExpiryOK == Renewed(exists, bucket) /\ \A r \in replica : Renewed(r.exists, r.bucket)

BucketInv == TypeOK /\ ExpiryOK

LEMMA ElapsedType ==
  ASSUME TypeOK, NEW k \in Keys
  PROVE  /\ Elapsed(k) \in Nat /\ bucket[k].tokens \in 0..CapGrains
         /\ now \in Nat /\ bucket[k].last_refill_ms \in Nat /\ bucket[k].expire_at \in Nat
         /\ now >= bucket[k].last_refill_ms => Elapsed(k) = now - bucket[k].last_refill_ms
         /\ now <= bucket[k].last_refill_ms => Elapsed(k) = 0
<1>1. bucket[k] \in Hash /\ now \in Nat
  BY TimeAssumption DEF TypeOK
<1>2. bucket[k].tokens \in 0..CapGrains /\ bucket[k].last_refill_ms \in Nat /\ bucket[k].expire_at \in Nat
  BY <1>1, TimeAssumption DEF Hash
<1> QED
  BY <1>1, <1>2 DEF Elapsed, Greater

LEMMA RefilledType ==
  ASSUME TypeOK, NEW k \in Keys
  PROVE  Refilled(k) \in 0..Capacity
<1> DEFINE t == bucket[k].tokens * WindowMS
           e == Elapsed(k) * Rate
<1>1. t \in Nat /\ e \in Nat /\ Capacity \in Nat
  BY ElapsedType, MulNat, Scale
<1> HIDE DEF t, e
<1>2. Lesser(Capacity, t + e) \in 0..Capacity
  BY <1>1 DEF Lesser
<1> QED
  BY <1>1, <1>2 DEF Refilled, t, e

LEMMA RefilledTypeNext ==
  ASSUME TypeOK', NEW k \in Keys
  PROVE  Refilled(k)' \in 0..Capacity
<1> DEFINE t == bucket'[k].tokens * WindowMS
           e == Elapsed(k)' * Rate
<1>1. bucket'[k] \in Hash /\ now' \in Nat
  BY TimeAssumption DEF TypeOK, Hash, CapGrains
<1>2. bucket'[k].tokens \in Nat /\ Elapsed(k)' \in Nat
  BY <1>1, TimeAssumption, Scale DEF Hash, Elapsed, Greater
<1>3. t \in Nat /\ e \in Nat /\ Capacity \in Nat
  BY <1>2, MulNat, Scale
<1>4. Refilled(k)' = IF Found(k)' THEN Lesser(Capacity, t + e) ELSE Capacity
  BY DEF Refilled, Lesser, Capacity, CapGrains, Rate
<1> HIDE DEF t, e
<1> QED
  BY <1>3, <1>4 DEF Lesser

\* A millisecond adds Rate up to the capacity, whether the key is there, was
\* never written, or has just expired: the TTL is longer than a full refill.
\* It adds nothing while the clock is behind the last refill.
LEMMA RefilledTick ==
  ASSUME BucketInv, Tick, NEW k \in Keys
  PROVE  Refilled(k)' = IF Found(k) /\ bucket[k].last_refill_ms > now
                        THEN Refilled(k)
                        ELSE Lesser(Capacity, Refilled(k) + Rate)
<1> DEFINE t == bucket[k].tokens * WindowMS
           last == bucket[k].last_refill_ms
           d == Elapsed(k)
<1>1. /\ d \in Nat /\ now \in Nat /\ last \in Nat /\ bucket[k].expire_at \in Nat
      /\ bucket[k].tokens \in Nat
      /\ now >= last => d = now - last
      /\ now <= last => d = 0
  BY ElapsedType DEF BucketInv
<1>2. t \in Nat /\ d * Rate \in Nat /\ Rate \in Nat /\ Capacity \in Nat
  BY <1>1, MulNat, Scale
<1>3. now' = now + 1 /\ bucket' = bucket /\ exists' = exists
  BY DEF Tick, data
<1>4. IF last > now THEN d' = d ELSE d' = d + 1
  BY <1>1, <1>3 DEF Elapsed, Greater
<1>5. CASE ~Found(k)
  <2>1. ~Found(k)'
    BY <1>1, <1>3, <1>5 DEF Found
  <2>2. Refilled(k) = Capacity /\ Refilled(k)' = Capacity
    BY <1>5, <2>1 DEF Refilled, Capacity, CapGrains
  <2> QED
    BY <1>2, <1>5, <2>2 DEF Lesser
<1>6. CASE Found(k)
  <2>1. Refilled(k) = Lesser(Capacity, t + d * Rate) /\ k \in exists
    BY <1>6 DEF Refilled, Found
  <2>2. CASE Found(k)'
    <3>1. Refilled(k)' = Lesser(Capacity, t + d' * Rate)
      BY <1>3, <2>2 DEF Refilled, Capacity, CapGrains, Rate, Lesser
    <3>2. (d + 1) * Rate = d * Rate + Rate
      BY <1>1, <1>2
    <3>3. CASE last > now
      BY <1>4, <1>6, <2>1, <3>1, <3>3
    <3>4. CASE ~(last > now)
      <4>1. Refilled(k)' = Lesser(Capacity, t + (d * Rate + Rate))
        BY <1>4, <3>1, <3>2, <3>4
      <4>2. ~(Found(k) /\ bucket[k].last_refill_ms > now)
        BY <3>4
      <4> HIDE DEF t, d, last
      <4>3. Refilled(k)' = Lesser(Capacity, Refilled(k) + Rate)
        BY <1>2, <2>1, <4>1 DEF Lesser
      <4> QED
        BY <4>2, <4>3
    <3> QED
      BY <3>3, <3>4
  <2>3. CASE ~Found(k)'
    <3>1. d >= WindowMS /\ ~(last > now)
      <4>1. now + 1 >= last + TTL
        BY <1>1, <1>3, <1>6, <2>1, <2>3, Scale DEF Found, BucketInv, ExpiryOK, Renewed
      <4> QED
        BY <1>1, <4>1, Scale
    <3>2. d * Rate >= Capacity
      <4>1. WindowMS * Rate <= d * Rate
        BY <1>1, <3>1, Scale, MulMonotone
      <4>2. WindowMS * Rate = Rate * WindowMS
        BY Scale
      <4> QED
        BY <4>1, <4>2, Scale
    <3>3. Refilled(k)' = Capacity
      BY <2>3 DEF Refilled, Capacity, CapGrains
    <3>4. ~(Found(k) /\ bucket[k].last_refill_ms > now)
      BY <3>1
    <3> HIDE DEF t, d, last
    <3>5. Refilled(k)' = Lesser(Capacity, Refilled(k) + Rate)
      BY <1>2, <2>1, <3>2, <3>3 DEF Lesser
    <3> QED
      BY <3>4, <3>5
  <2> QED
    BY <2>2, <2>3
<1> QED
  BY <1>5, <1>6

\* A clock that is set back never raises a balance: the elapsed time shrinks
\* to no less than nothing, and a key that had expired is found again or not.
LEMMA RefilledStepBack ==
  ASSUME BucketInv, StepBack, NEW k \in Keys
  PROVE  Refilled(k)' \in 0..Capacity /\ Refilled(k)' <= Refilled(k)
<1> DEFINE t == bucket[k].tokens * WindowMS
           d == Elapsed(k)
<1>1. /\ d \in Nat /\ now \in Nat /\ bucket[k].last_refill_ms \in Nat
      /\ bucket[k].expire_at \in Nat /\ bucket[k].tokens \in Nat
  BY ElapsedType DEF BucketInv
<1>2. now' \in Nat /\ now' < now /\ bucket' = bucket /\ exists' = exists
  BY TimeAssumption DEF StepBack, data
<1>3. d' \in Nat /\ d' <= d
  BY <1>1, <1>2 DEF Elapsed, Greater
<1>4. /\ t \in Nat /\ d * Rate \in Nat /\ d' * Rate \in Nat /\ Capacity \in Nat
      /\ d' * Rate <= d * Rate
  BY <1>1, <1>3, MulNat, MulMonotone, Scale
<1>5. Refilled(k)' = IF Found(k)' THEN Lesser(Capacity, t + d' * Rate) ELSE Capacity
  BY <1>2 DEF Refilled, Capacity, CapGrains, Rate, Lesser
<1>6. Found(k) => Found(k)'
  BY <1>1, <1>2 DEF Found
<1>7. Refilled(k) = IF Found(k) THEN Lesser(Capacity, t + d * Rate) ELSE Capacity
  BY DEF Refilled
<1> HIDE DEF t, d
<1> QED
  BY <1>4, <1>5, <1>6, <1>7 DEF Lesser

\* After a store the next decision in the same millisecond sees the stored
\* balance; the other keys are not touched.
LEMMA RefilledStore ==
  ASSUME BucketInv, NEW k \in Keys, NEW x \in 0..Capacity, Store(k, x), now' = now
  PROVE  /\ Refilled(k)' = Stored(x) * WindowMS
         /\ \A j \in Keys \ {k} : Refilled(j)' = Refilled(j)
         /\ {j \in Keys : Found(j) /\ bucket[j].last_refill_ms > now}'
              = {j \in Keys : Found(j) /\ bucket[j].last_refill_ms > now} \ {k}
<1>1. /\ now \in Nat
      /\ bucket'[k] = [tokens |-> Stored(x), last_refill_ms |-> now, expire_at |-> now + TTL]
      /\ \A j \in Keys \ {k} : bucket'[j] = bucket[j]
  BY TimeAssumption DEF BucketInv, TypeOK, Store
<1>2. exists' = exists \cup {k}
  BY DEF Store
<1>3. Found(k)'
  BY <1>1, <1>2, Scale DEF Found
<1>4. Stored(x) \in Nat /\ Stored(x) <= CapGrains
  BY StoredNear, Scale
<1>5. Stored(x) * WindowMS \in Nat /\ Stored(x) * WindowMS <= Capacity
  BY <1>4, Scale, MulNat, MulMonotone
<1>6. Elapsed(k)' = 0 /\ 0 * Rate = 0
  BY <1>1, Scale DEF Elapsed, Greater
<1>7. Refilled(k)' = Lesser(Capacity, Stored(x) * WindowMS + Elapsed(k)' * Rate)
  BY <1>1, <1>3 DEF Refilled, Capacity, CapGrains, Rate, Lesser
<1>8. Refilled(k)' = Stored(x) * WindowMS
  BY <1>5, <1>6, <1>7, Scale DEF Lesser
<1>9. ASSUME NEW j \in Keys \ {k} PROVE Refilled(j)' = Refilled(j)
  <2>1. Found(j)' <=> Found(j)
    BY <1>1, <1>2 DEF Found
  <2> QED
    BY <1>1, <2>1 DEF Refilled, Elapsed, Greater, Capacity, CapGrains, Rate, Lesser
<1>10. \A j \in Keys \ {k} : Found(j)' <=> Found(j)
  BY <1>1, <1>2 DEF Found
<1>11. bucket'[k].last_refill_ms = now
  BY <1>1
<1> QED
  BY <1>1, <1>8, <1>9, <1>10, <1>11

\* While the clock has not passed the last refill, a decision finds a whole
\* number of grains.
LEMMA RefilledAgain ==
  ASSUME BucketInv, NEW k \in exists, bucket[k].last_refill_ms >= now
  PROVE  Refilled(k) = bucket[k].tokens * WindowMS
<1>1. k \in Keys
  BY DEF BucketInv, TypeOK
<1>2. /\ now \in Nat /\ bucket[k].last_refill_ms \in Nat
      /\ bucket[k].tokens \in Nat /\ bucket[k].tokens <= CapGrains /\ Elapsed(k) = 0
  BY <1>1, Scale, ElapsedType DEF BucketInv
<1>3. Found(k)
  BY <1>2, Scale DEF Found, BucketInv, ExpiryOK, Renewed
<1>4. bucket[k].tokens * WindowMS \in Nat /\ bucket[k].tokens * WindowMS <= Capacity
  BY <1>2, Scale, MulNat, MulMonotone
<1>5. Elapsed(k) * Rate = 0
  BY <1>2, Scale
<1> QED
  BY <1>3, <1>4, <1>5, Scale DEF Refilled, Lesser

-----------------------------------------------------------------------------
(* Type correctness. *)

LEMMA UnitsType ==
  ASSUME NEW c \in Costs
  PROVE  /\ Units(c) \in Nat /\ Units(c) = (c * Precision) * WindowMS
         /\ Units(c) = c * (Precision * WindowMS) /\ c * Precision \in Nat
<1>1. c \in Nat /\ Precision \in Nat /\ WindowMS \in Nat /\ c * Precision \in Nat
  BY Scale, MulNat DEF Costs
<1>2. (c * Precision) * WindowMS \in Nat /\ (c * Precision) * WindowMS = c * (Precision * WindowMS)
  BY <1>1, MulNat
<1> QED
  BY <1>1, <1>2 DEF Units

\* A store keeps the hash well-typed and its expiry renewed.
LEMMA StoreType ==
  ASSUME BucketInv, NEW k \in Keys, NEW x \in 0..Capacity, Store(k, x), now' = now
  PROVE  /\ bucket' \in [Keys -> Hash]
         /\ exists' \in SUBSET Keys
         /\ Renewed(exists, bucket)'
<1>1. Stored(x) \in 0..CapGrains
  BY StoredNear
<1>2. now \in 0..MaxTime /\ now + TTL \in Nat
  BY Scale, TimeAssumption DEF BucketInv, TypeOK
<1> QED
  BY <1>1, <1>2 DEF BucketInv, TypeOK, Hash, ExpiryOK, Renewed, Store, TTL

LEMMA PromiseType ==
  ASSUME NEW x \in 0..Capacity, now \in Nat
  PROVE  Remaining(x) \in Nat /\ ResetAt(x) \in Nat
<1>1. x \in Nat /\ Capacity - x \in Nat /\ Rate \in Nat \ {0} /\ Precision * WindowMS \in Nat \ {0}
  BY Scale
<1>2. x \div (Precision * WindowMS) \in Nat
  BY <1>1, DivBounds
<1>3. CeilDiv(Capacity - x, Rate) \in Nat
  BY <1>1, CeilDivBounds
<1> QED
  BY <1>2, <1>3 DEF Remaining, ResetAt

LEMMA RetryType ==
  ASSUME NEW c \in Costs, NEW x \in 0..Capacity, Units(c) > x
  PROVE  RetryAfter(x, c) \in Nat
<1>1. Units(c) - x \in Nat /\ Rate \in Nat \ {0}
  BY UnitsType, Scale
<1>2. CeilDiv(Units(c) - x, Rate) \in Nat
  BY <1>1, CeilDivBounds
<1> QED
  BY <1>2 DEF RetryAfter

LEMMA BucketInit == Init => BucketInv
<1> SUFFICES ASSUME Init PROVE BucketInv
  OBVIOUS
<1>1. CapGrains \in 0..CapGrains
  BY Scale
<1> QED
  BY <1>1, PolicyAssumption, BacklogAssumption, TimeAssumption
  DEF Init, BucketInv, TypeOK, Hash, ExpiryOK, Renewed, NoPromise

LEMMA BucketStep == BucketInv /\ [Next]_vars => BucketInv'
<1> SUFFICES ASSUME BucketInv, [Next]_vars PROVE BucketInv'
  OBVIOUS
<1>n. now \in Nat /\ MaxBacklog \in Nat /\ backlog \in 0..MaxBacklog /\ CapGrains' = CapGrains
  BY TimeAssumption, BacklogAssumption DEF BucketInv, TypeOK, CapGrains
<1>1. ASSUME NEW k \in Keys, NEW c \in Costs, Allowed(k, c) PROVE BucketInv'
  <2> DEFINE x == Refilled(k)
             rest == x - Units(c)
  <2>1. rest \in 0..Capacity
    <3>1. x \in 0..Capacity /\ Units(c) \in Nat /\ Units(c) <= x
      BY <1>1, RefilledType, UnitsType DEF BucketInv, Allowed
    <3> QED
      BY <3>1, Scale
  <2>2. Store(k, rest) /\ UNCHANGED <<now, replica>> /\ backlog' \in 0..MaxBacklog
    BY <1>1, <1>n DEF Allowed
  <2>3. excess' \in [Keys -> Nat]
    BY <1>1, UnitsType DEF Allowed, BucketInv, TypeOK
  <2>4. promise' = [promise EXCEPT ![k] =
           [remaining |-> Remaining(rest), cost |-> 0, retryAt |-> now,
            resetAt |-> ResetAt(rest)]]
    BY <1>1 DEF Allowed
  <2> HIDE DEF rest
  <2>5. promise' \in [Keys -> [remaining : Nat, cost : 0..Limit, retryAt : Nat, resetAt : Nat]]
    BY <1>n, <2>1, <2>4, PromiseType, PolicyAssumption DEF BucketInv, TypeOK
  <2>6. TypeOK'
    BY <2>1, <2>2, <2>3, <2>5, StoreType DEF BucketInv, TypeOK, Hash
  <2> QED
    BY <2>1, <2>2, <2>6, StoreType DEF BucketInv, ExpiryOK, Renewed, TTL
<1>2. ASSUME NEW k \in Keys, NEW c \in Costs, Denied(k, c) PROVE BucketInv'
  <2> DEFINE x == Refilled(k)
  <2>1. x \in 0..Capacity /\ Units(c) > x
    BY <1>2, RefilledType DEF BucketInv, Denied
  <2>2. Store(k, x) /\ UNCHANGED <<now, backlog, replica, excess>>
    BY <1>2 DEF Denied
  <2>3. promise' = [promise EXCEPT ![k] =
           [remaining |-> Remaining(x), cost |-> c,
            retryAt |-> now + RetryAfter(x, c), resetAt |-> ResetAt(x)]]
    BY <1>2 DEF Denied
  <2> HIDE DEF x
  <2>4. now + RetryAfter(x, c) \in Nat /\ c \in 0..Limit
    BY <1>n, <2>1, RetryType, PolicyAssumption DEF Costs
  <2>5. promise' \in [Keys -> [remaining : Nat, cost : 0..Limit, retryAt : Nat, resetAt : Nat]]
    BY <1>n, <2>1, <2>3, <2>4, PromiseType DEF BucketInv, TypeOK
  <2>6. TypeOK'
    BY <2>1, <2>2, <2>5, StoreType DEF BucketInv, TypeOK, Hash
  <2> QED
    BY <2>1, <2>2, <2>6, StoreType DEF BucketInv, ExpiryOK, Renewed, TTL
<1>3. CASE Drain
  BY <1>3, <1>n DEF Drain, BucketInv, TypeOK, Hash, ExpiryOK, Renewed, TTL
<1>4. CASE Tick
  <2>1. now' \in 0..MaxTime /\ excess' \in [Keys -> Nat]
    BY <1>4, <1>n, TimeAssumption, Scale DEF Tick, Allowance, Greater, BucketInv, TypeOK
  <2> QED
    BY <1>4, <2>1 DEF Tick, data, BucketInv, TypeOK, Hash, ExpiryOK, Renewed, TTL
<1>5. CASE StepBack
  BY <1>5 DEF StepBack, data, BucketInv, TypeOK, Hash, ExpiryOK, Renewed, TTL
<1>6. ASSUME NEW k \in Keys, Expire(k) PROVE BucketInv'
  BY <1>6 DEF Expire, BucketInv, TypeOK, Hash, ExpiryOK, Renewed, TTL
<1>7. CASE FallBehind
  BY <1>7 DEF FallBehind, data, BucketInv, TypeOK, Hash, ExpiryOK, Renewed, TTL
<1>8. CASE Failover
  <2>1. PICK r \in replica : exists' = r.exists /\ bucket' = r.bucket /\ backlog' = r.backlog
    BY <1>8 DEF Failover
  <2>2. now' \in 0..MaxTime /\ replica' = {} /\ excess' \in [Keys -> Nat]
    BY <1>8, Scale DEF Failover, Allowance, Greater, BucketInv, TypeOK
  <2>3. promise' \in [Keys -> [remaining : Nat, cost : 0..Limit, retryAt : Nat, resetAt : Nat]]
    BY <1>8, PolicyAssumption, TimeAssumption DEF Failover, NoPromise
  <2> QED
    BY <2>1, <2>2, <2>3 DEF BucketInv, TypeOK, Hash, ExpiryOK, Renewed, TTL
<1>9. CASE UNCHANGED vars
  BY <1>9 DEF vars, data, BucketInv, TypeOK, Hash, ExpiryOK, Renewed, TTL
<1> QED
  BY <1>1, <1>2, <1>3, <1>4, <1>5, <1>6, <1>7, <1>8, <1>9 DEF Next, Allow, BacklogFull

-----------------------------------------------------------------------------
(* The quota of an interval. *)

\* Half a grain (doubled) that the first store at this time, or at the time
\* that the clock has yet to reach again, may add.
RoundedNow(k) == IF k \in exists /\ bucket[k].last_refill_ms >= now THEN WindowMS ELSE 0

\* What was spent beyond the allowance and what is left come from the capacity
\* and the rounding that the coming millisecond's allowance covers.
Conserved(k) == excess[k] + 2 * Refilled(k) <= 2 * Capacity + RoundedNow(k)

QuotaInv == BucketInv /\ \A k \in Keys : Conserved(k)

\* A store takes the rounding of its millisecond into account once: a second
\* one in the same millisecond rounds nothing.
LEMMA StoreConserves ==
  ASSUME BucketInv, NEW k \in Keys, NEW g \in Nat, g * WindowMS <= Refilled(k),
         Store(k, Refilled(k) - g * WindowMS), now' = now
  PROVE  /\ 2 * (g * WindowMS) + 2 * Refilled(k)' + RoundedNow(k)
              <= 2 * Refilled(k) + RoundedNow(k)'
         /\ \A j \in Keys \ {k} : Refilled(j)' = Refilled(j) /\ RoundedNow(j)' = RoundedNow(j)
<1> DEFINE x == Refilled(k)
           rest == x - g * WindowMS
<1>1. x \in 0..Capacity /\ g * WindowMS \in Nat /\ WindowMS \in Nat \ {0} /\ rest \in 0..Capacity
  <2>1. x \in 0..Capacity /\ g * WindowMS \in Nat /\ WindowMS \in Nat \ {0}
    BY RefilledType, Scale, MulNat DEF BucketInv
  <2> QED
    BY <2>1, Scale
<1>2. /\ Refilled(k)' = Stored(rest) * WindowMS
      /\ \A j \in Keys \ {k} : Refilled(j)' = Refilled(j)
  BY <1>1, RefilledStore
<1>3. RoundedNow(k)' = WindowMS
  BY TimeAssumption DEF Store, RoundedNow, BucketInv, TypeOK
<1>4. \A j \in Keys \ {k} : RoundedNow(j)' = RoundedNow(j)
  BY DEF Store, RoundedNow, BucketInv, TypeOK
<1>5. Stored(rest) \in Nat /\ Stored(rest) * WindowMS \in Nat
  <2>1. Stored(rest) \in 0..CapGrains
    BY <1>1, StoredNear
  <2> HIDE DEF rest
  <2> QED
    BY <1>1, <2>1, Scale, MulNat
<1>6. CASE k \in exists /\ bucket[k].last_refill_ms >= now
  <2>1. RoundedNow(k) = WindowMS
    BY <1>6 DEF RoundedNow
  <2>2. bucket[k].tokens \in Nat /\ x = bucket[k].tokens * WindowMS
    BY <1>6, RefilledAgain, ElapsedType, Scale DEF BucketInv
  <2> DEFINE h == bucket[k].tokens
  <2> HIDE DEF h, x
  <2>3. h \in Nat /\ x = h * WindowMS
    BY <2>2 DEF h
  <2>4. h - g \in Nat
    <3>1. (h + 1) * WindowMS = h * WindowMS + WindowMS
      BY <1>1, <2>3
    <3>2. g * WindowMS < (h + 1) * WindowMS
      BY <1>1, <2>3, <3>1 DEF x
    <3>3. g < h + 1
      BY <1>1, <2>3, <3>2, MulCancel
    <3> QED
      BY <2>3, <3>3
  <2>5. x - g * WindowMS = (h - g) * WindowMS
    BY <1>1, <2>3
  <2>6. Stored(x - g * WindowMS) * WindowMS = x - g * WindowMS
    BY <2>4, <2>5, StoredExact
  <2> QED
    BY <1>1, <1>2, <1>3, <1>4, <2>1, <2>6 DEF x
<1>7. CASE ~(k \in exists /\ bucket[k].last_refill_ms >= now)
  <2>1. RoundedNow(k) = 0
    BY <1>7 DEF RoundedNow
  <2>2. 2 * (Stored(rest) * WindowMS) <= 2 * rest + WindowMS
    BY <1>1, StoredNear
  <2>3. Refilled(k) \in Nat /\ rest = Refilled(k) - g * WindowMS
    BY <1>1, Scale
  <2> HIDE DEF rest, x
  <2> QED
    BY <1>1, <1>2, <1>3, <1>4, <1>5, <2>1, <2>2, <2>3
<1> QED
  BY <1>6, <1>7

LEMMA QuotaStep == QuotaInv /\ [Next]_vars => QuotaInv'
<1> SUFFICES ASSUME QuotaInv, [Next]_vars PROVE QuotaInv'
  OBVIOUS
<1>b. BucketInv /\ BucketInv'
  BY BucketStep DEF QuotaInv
<1> SUFFICES ASSUME NEW j \in Keys PROVE Conserved(j)'
  BY <1>b DEF QuotaInv
<1>c. excess[j] + 2 * Refilled(j) <= 2 * Capacity + RoundedNow(j)
  BY DEF QuotaInv, Conserved
<1>t. /\ now \in Nat /\ excess[j] \in Nat /\ WindowMS \in Nat /\ Rate \in Nat /\ Capacity \in Nat
      /\ Refilled(j) \in Nat /\ Refilled(j) <= Capacity
      /\ RoundedNow(j) \in {0, WindowMS} /\ RoundedNow(j)' \in {0, WindowMS}
  <2>1. now \in Nat /\ excess[j] \in Nat
    BY <1>b, TimeAssumption DEF BucketInv, TypeOK
  <2>2. WindowMS \in Nat /\ Rate \in Nat /\ Capacity \in Nat
    BY Scale
  <2>3. Refilled(j) \in Nat /\ Refilled(j) <= Capacity
    BY <1>b, <2>2, RefilledType DEF BucketInv
  <2>4. RoundedNow(j) \in {0, WindowMS} /\ RoundedNow(j)' \in {0, WindowMS}
    BY DEF RoundedNow
  <2> QED
    BY <2>1, <2>2, <2>3, <2>4
<1>r. Refilled(j)' \in Nat /\ Refilled(j)' <= Capacity
  BY <1>b, <1>t, RefilledTypeNext DEF BucketInv
<1>g. SUFFICES excess'[j] + 2 * Refilled(j)' <= 2 * Capacity + RoundedNow(j)'
  BY <1>g DEF Conserved, Capacity, CapGrains
<1>1. ASSUME NEW k \in Keys, NEW c \in Costs, Allowed(k, c)
      PROVE  excess'[j] + 2 * Refilled(j)' <= 2 * Capacity + RoundedNow(j)'
  <2> DEFINE g == c * Precision
  <2>1. g \in Nat /\ Units(c) = g * WindowMS /\ g * WindowMS \in Nat
    BY UnitsType
  <2>2. /\ g * WindowMS <= Refilled(k) /\ Store(k, Refilled(k) - g * WindowMS) /\ now' = now
        /\ excess' = [excess EXCEPT ![k] = @ + 2 * (g * WindowMS)]
    BY <1>1, <2>1 DEF Allowed
  <2> HIDE DEF g
  <2>3. /\ 2 * (g * WindowMS) + 2 * Refilled(k)' + RoundedNow(k)
             <= 2 * Refilled(k) + RoundedNow(k)'
        /\ \A i \in Keys \ {k} : Refilled(i)' = Refilled(i) /\ RoundedNow(i)' = RoundedNow(i)
    BY <1>b, <2>1, <2>2, StoreConserves
  <2>4. CASE j = k
    <3>1. excess'[j] = excess[j] + 2 * (g * WindowMS)
      BY <1>b, <2>2, <2>4 DEF BucketInv, TypeOK
    <3>2. 2 * (g * WindowMS) + 2 * Refilled(j)' + RoundedNow(j) <= 2 * Refilled(j) + RoundedNow(j)'
      BY <2>3, <2>4
    <3> QED
      BY <1>c, <1>t, <1>r, <2>1, <3>1, <3>2
  <2>5. CASE j # k
    <3>1. excess'[j] = excess[j] /\ Refilled(j)' = Refilled(j) /\ RoundedNow(j)' = RoundedNow(j)
      BY <1>b, <2>2, <2>3, <2>5 DEF BucketInv, TypeOK
    <3> QED
      BY <1>c, <3>1
  <2> QED
    BY <2>4, <2>5
<1>2. ASSUME NEW k \in Keys, NEW c \in Costs, Denied(k, c)
      PROVE  excess'[j] + 2 * Refilled(j)' <= 2 * Capacity + RoundedNow(j)'
  <2>1. 0 * WindowMS = 0 /\ Refilled(k) \in Nat
    BY <1>b, Scale, RefilledType DEF BucketInv
  <2>2. /\ 0 * WindowMS <= Refilled(k) /\ Store(k, Refilled(k) - 0 * WindowMS)
        /\ now' = now /\ excess' = excess
    BY <1>2, <2>1 DEF Denied
  <2>3. /\ 2 * (0 * WindowMS) + 2 * Refilled(k)' + RoundedNow(k)
             <= 2 * Refilled(k) + RoundedNow(k)'
        /\ \A i \in Keys \ {k} : Refilled(i)' = Refilled(i) /\ RoundedNow(i)' = RoundedNow(i)
    BY <1>b, <2>2, StoreConserves
  <2>4. 2 * Refilled(j)' + RoundedNow(j) <= 2 * Refilled(j) + RoundedNow(j)'
    BY <1>t, <1>r, <2>1, <2>3
  <2> QED
    BY <1>c, <1>t, <1>r, <2>2, <2>4
<1>3. CASE Tick
  <2>1. excess'[j] = Greater(0, excess[j] - (2 * Rate + WindowMS))
    BY <1>3 DEF Tick, Allowance, Rate
  <2>2. CASE Found(j) /\ bucket[j].last_refill_ms > now
    <3>1. Refilled(j)' = Refilled(j)
      BY <1>b, <1>3, <2>2, RefilledTick
    <3>2. RoundedNow(j)' = WindowMS
      <4>1. bucket[j].last_refill_ms \in Nat
        BY <1>b, ElapsedType DEF BucketInv
      <4> QED
        BY <1>3, <1>t, <2>2, <4>1 DEF Tick, data, RoundedNow, Found
    <3> QED
      BY <1>c, <1>t, <2>1, <3>1, <3>2 DEF Greater
  <2>3. CASE ~(Found(j) /\ bucket[j].last_refill_ms > now)
    <3>1. Refilled(j)' = Lesser(Capacity, Refilled(j) + Rate)
      BY <1>b, <1>3, <2>3, RefilledTick
    <3>2. Refilled(j)' <= Refilled(j) + Rate
      BY <1>t, <3>1 DEF Lesser
    <3> QED
      BY <1>c, <1>t, <1>r, <2>1, <3>2 DEF Greater
  <2> QED
    BY <2>2, <2>3
<1>4. CASE StepBack
  <2>1. Refilled(j)' <= Refilled(j) /\ excess' = excess
    BY <1>b, <1>4, RefilledStepBack DEF StepBack
  <2>2. RoundedNow(j) <= RoundedNow(j)'
    <3>1. now' \in Nat /\ now' < now /\ bucket' = bucket /\ exists' = exists
      BY <1>4, TimeAssumption DEF StepBack, data
    <3>2. bucket[j].last_refill_ms \in Nat
      BY <1>b, ElapsedType DEF BucketInv
    <3> QED
      BY <1>t, <3>1, <3>2 DEF RoundedNow
  <2> QED
    BY <1>c, <1>t, <1>r, <2>1, <2>2
<1>5. ASSUME NEW k \in Keys, Expire(k)
      PROVE  excess'[j] + 2 * Refilled(j)' <= 2 * Capacity + RoundedNow(j)'
  <2>1. UNCHANGED <<now, bucket, excess>> /\ exists' = exists \ {k} /\ k \in exists /\ ~Found(k)
    BY <1>5 DEF Expire
  <2>2. Refilled(j)' = Refilled(j)
    BY <2>1 DEF Refilled, Found, Elapsed, Greater, Lesser, Capacity, CapGrains, Rate
  <2>3. RoundedNow(j)' = RoundedNow(j)
    <3>1. ~(bucket[k].last_refill_ms >= now)
      <4>1. bucket[k].last_refill_ms \in Nat /\ bucket[k].expire_at = bucket[k].last_refill_ms + TTL
        BY <1>b, <2>1, ElapsedType DEF BucketInv, ExpiryOK, Renewed
      <4> QED
        BY <1>t, <2>1, <4>1, Scale DEF Found
    <3> QED
      BY <2>1, <3>1 DEF RoundedNow
  <2> QED
    BY <1>c, <2>1, <2>2, <2>3
<1>6. CASE Failover
  <2>1. excess'[j] = Greater(0, excess[j] - (2 * Capacity + WindowMS))
    BY <1>6 DEF Failover, Allowance, Capacity, CapGrains
  <2> QED
    BY <1>c, <1>t, <1>r, <2>1 DEF Greater
<1>7. ASSUME Drain \/ FallBehind \/ UNCHANGED vars
      PROVE  excess'[j] + 2 * Refilled(j)' <= 2 * Capacity + RoundedNow(j)'
  <2>1. UNCHANGED <<now, exists, bucket, excess>>
    BY <1>7 DEF Drain, FallBehind, vars, data
  <2>2. Refilled(j)' = Refilled(j) /\ RoundedNow(j)' = RoundedNow(j)
    BY <2>1 DEF RoundedNow, Refilled, Found, Elapsed, Greater, Lesser, Capacity, CapGrains, Rate
  <2> QED
    BY <1>c, <2>1, <2>2
<1> QED
  BY <1>1, <1>2, <1>3, <1>4, <1>5, <1>6, <1>7 DEF Next, Allow, BacklogFull

LEMMA QuotaInit == Init => QuotaInv
<1> SUFFICES ASSUME Init PROVE QuotaInv
  OBVIOUS
<1>1. BucketInv
  BY BucketInit
<1>2. ASSUME NEW k \in Keys PROVE Conserved(k)
  <2>1. excess[k] = 0 /\ RoundedNow(k) = 0 /\ Refilled(k) = Capacity
    BY <1>2 DEF Init, RoundedNow, Refilled, Found
  <2> QED
    BY <2>1, Scale DEF Conserved
<1> QED
  BY <1>1, <1>2 DEF QuotaInv

\* The Lua script never lets one key spend more than its policy in any
\* interval: capacity plus refill, up to half a grain per millisecond, and
\* one more capacity for each failover; the stream stays within its limit.
THEOREM QuotaBound == Spec => [](TypeOK /\ QuotaPerInterval)
<1>1. QuotaInv => TypeOK /\ QuotaPerInterval
  <2> SUFFICES ASSUME QuotaInv PROVE TypeOK /\ QuotaPerInterval
    OBVIOUS
  <2>1. TypeOK
    BY DEF QuotaInv, BucketInv
  <2>2. ASSUME NEW k \in Keys PROVE excess[k] <= 2 * Capacity + WindowMS
    <3>1. /\ Refilled(k) \in Nat /\ excess[k] \in Nat /\ WindowMS \in Nat
          /\ RoundedNow(k) \in {0, WindowMS} /\ Capacity \in Nat
      BY <2>1, <2>2, RefilledType, Scale DEF RoundedNow, TypeOK
    <3>2. Conserved(k)
      BY <2>2 DEF QuotaInv
    <3> QED
      BY <3>1, <3>2 DEF Conserved
  <2> QED
    BY <2>1, <2>2 DEF QuotaPerInterval
<1> QED
  BY <1>1, QuotaInit, QuotaStep, PTL DEF Spec

\* What the script stores and answers stays in its types: balances are whole
\* grains within the capacity and the stream stays within its limit.
THEOREM BucketTypeCorrect == Spec => []TypeOK
  BY QuotaBound, PTL

-----------------------------------------------------------------------------
(* Refinement of the ideal bucket. *)

\* A store of a balance y turns the level of k into a level kept for y.
LEMMA StoreRefines ==
  ASSUME BucketInv, NEW k \in Keys, NEW y \in 0..Capacity, Store(k, y), now' = now
  PROVE  \E z \in Quota!Kept(y) :
           [j \in Keys |-> Refilled(j)]' = [[j \in Keys |-> Refilled(j)] EXCEPT ![k] = z]
<1> DEFINE z == Stored(y) * WindowMS
<1>1. z \in Quota!Kept(y)
  <2>1. /\ Stored(y) \in 0..CapGrains /\ 2 * z <= 2 * y + WindowMS /\ 2 * y <= 2 * z + WindowMS
    BY StoredNear
  <2>2. Stored(y) \in Nat /\ CapGrains \in Nat /\ WindowMS \in Nat /\ Stored(y) <= CapGrains
    BY <2>1, Scale
  <2>3. z \in Nat /\ z <= CapGrains * WindowMS
    BY <2>2, MulNat, MulMonotone
  <2>4. z \in 0..Capacity
    BY <2>3, Scale
  <2> QED
    BY <2>1, <2>4 DEF Quota!Kept
<1>2. Refilled(k)' = z /\ \A j \in Keys \ {k} : Refilled(j)' = Refilled(j)
  BY RefilledStore
<1> HIDE DEF z
<1>3. [j \in Keys |-> Refilled(j)]' = [[j \in Keys |-> Refilled(j)] EXCEPT ![k] = z]
  BY <1>2
<1> QED
  BY <1>1, <1>3

LEMMA QuotaRefinedStep == BucketInv /\ [Next]_vars => [Quota!Next]_(Quota!vars)
<1> SUFFICES ASSUME BucketInv, [Next]_vars PROVE [Quota!Next]_(Quota!vars)
  OBVIOUS
<1> DEFINE Level == [j \in Keys |-> Refilled(j)]
           Stalled == {j \in Keys : Found(j) /\ bucket[j].last_refill_ms > now}
<1>l. Level \in [Keys -> 0..Capacity] /\ Level' \in [Keys -> 0..Capacity]
  <2>1. \A j \in Keys : Refilled(j) \in 0..Capacity
    BY RefilledType DEF BucketInv
  <2>2. \A j \in Keys : Refilled(j)' \in 0..Capacity
    BY BucketStep, RefilledTypeNext DEF BucketInv
  <2> QED
    BY <2>1, <2>2
<1>s. Stalled' \subseteq Keys
  OBVIOUS
<1>1. ASSUME NEW k \in Keys, NEW c \in Costs, Allowed(k, c) PROVE Quota!Grant(k, c)
  <2>1. Refilled(k) \in 0..Capacity /\ Units(c) \in Nat /\ Units(c) = c * (Precision * WindowMS)
    BY RefilledType, UnitsType DEF BucketInv
  <2>2. /\ Units(c) <= Refilled(k) /\ Store(k, Refilled(k) - Units(c)) /\ now' = now
        /\ backlog < MaxBacklog /\ backlog' = backlog + 1
    BY <1>1 DEF Allowed
  <2>3. Refilled(k) - Units(c) \in 0..Capacity
    BY <2>1, <2>2, Scale
  <2>4. \E z \in Quota!Kept(Refilled(k) - Units(c)) : Level' = [Level EXCEPT ![k] = z]
    BY <2>2, <2>3, StoreRefines
  <2>5. Level[k] = Refilled(k) /\ Stalled' = Stalled \ {k}
    BY <2>2, <2>3, RefilledStore
  <2>6. Level[k] >= c * (Precision * WindowMS)
    BY <2>1, <2>2, <2>5, Scale
  <2> HIDE DEF Level, Stalled
  <2>7. \E z \in Quota!Kept(Level[k] - c * (Precision * WindowMS)) : Level' = [Level EXCEPT ![k] = z]
    BY <2>1, <2>4, <2>5
  <2> QED
    BY <1>1, <2>2, <2>5, <2>6, <2>7 DEF Allowed, Quota!Grant, Level, Stalled
<1>2. ASSUME NEW k \in Keys, NEW c \in Costs, Denied(k, c) PROVE Quota!Deny(k, c)
  <2>1. Refilled(k) \in 0..Capacity /\ Units(c) = c * (Precision * WindowMS) /\ Units(c) \in Nat
    BY RefilledType, UnitsType DEF BucketInv
  <2>2. Units(c) > Refilled(k) /\ Store(k, Refilled(k)) /\ now' = now /\ backlog' = backlog
    BY <1>2 DEF Denied
  <2>3. \E z \in Quota!Kept(Refilled(k)) : Level' = [Level EXCEPT ![k] = z]
    BY <2>1, <2>2, StoreRefines
  <2>4. Level[k] = Refilled(k) /\ Stalled' = Stalled \ {k}
    BY <2>1, <2>2, RefilledStore
  <2>5. Level[k] < c * (Precision * WindowMS)
    BY <2>1, <2>2, <2>4, Scale
  <2> HIDE DEF Level, Stalled
  <2> QED
    BY <1>2, <2>2, <2>3, <2>4, <2>5 DEF Denied, Quota!Deny, Level, Stalled
<1>3. CASE Tick
  <2>1. \A k \in Keys : Refilled(k) \in Nat
    BY RefilledType, Scale DEF BucketInv
  <2>2. \A k \in Keys : Refilled(k)' = IF k \in Stalled THEN Refilled(k)
                                       ELSE Lesser(Capacity, Refilled(k) + Rate)
    BY <1>3, RefilledTick
  <2>3. Level' = [k \in Keys |-> IF k \in Stalled THEN Level[k] ELSE Quota!Filled(Level[k] + Rate)]
    <3> HIDE DEF Stalled
    <3>1. ASSUME NEW k \in Keys
          PROVE  Refilled(k)' = IF k \in Stalled THEN Refilled(k) ELSE Quota!Filled(Refilled(k) + Rate)
      BY <2>1, <2>2, Scale DEF Lesser, Quota!Filled
    <3> QED
      BY <3>1
  <2>4. Stalled' \subseteq Stalled
    <3>1. now' = now + 1 /\ UNCHANGED <<exists, bucket>>
      BY <1>3 DEF Tick, data
    <3>2. \A k \in Keys : now \in Nat /\ bucket[k].last_refill_ms \in Nat /\ bucket[k].expire_at \in Nat
      BY ElapsedType DEF BucketInv
    <3> QED
      BY <3>1, <3>2 DEF Found
  <2>5. now' = now + 1 /\ UNCHANGED <<replica, backlog>>
    BY <1>3 DEF Tick, data
  <2> QED
    BY <2>3, <2>4, <2>5 DEF Quota!Next, Quota!TimePasses
<1>4. CASE StepBack
  <2>1. \A k \in Keys : Level'[k] <= Level[k]
    BY <1>4, RefilledStepBack
  <2>2. now' < now /\ UNCHANGED <<replica, backlog>>
    BY <1>4 DEF StepBack, data
  <2> QED
    BY <1>l, <1>s, <2>1, <2>2 DEF Quota!Next, Quota!ClockGoesBack
<1>5. CASE Failover
  <2>1. backlog' \in 0..MaxBacklog /\ replica # {} /\ replica' = {} /\ now' \in Nat
    BY <1>5, TimeAssumption DEF Failover, BucketInv, TypeOK
  <2> QED
    BY <1>l, <1>s, <2>1 DEF Quota!Next, Quota!FailsOver
<1>6. ASSUME NEW k \in Keys, Expire(k) PROVE UNCHANGED <<Level, Stalled, backlog>>
  <2>1. UNCHANGED <<now, bucket, backlog>> /\ exists' = exists \ {k} /\ ~Found(k)
    BY <1>6 DEF Expire
  <2>2. \A j \in Keys : (Found(j)' <=> Found(j))
    BY <2>1 DEF Found
  <2>3. \A j \in Keys : Refilled(j)' = Refilled(j)
    BY <2>1, <2>2 DEF Refilled, Elapsed, Greater, Lesser, Capacity, CapGrains, Rate
  <2> QED
    BY <2>1, <2>2, <2>3
<1>7. ASSUME Drain \/ FallBehind \/ UNCHANGED vars PROVE UNCHANGED <<Level, Stalled>>
  <2>1. UNCHANGED <<now, exists, bucket>>
    BY <1>7 DEF Drain, FallBehind, vars, data
  <2> QED
    BY <2>1 DEF Refilled, Found, Elapsed, Greater, Lesser, Capacity, CapGrains, Rate
<1>8. CASE Drain
  BY <1>7, <1>8 DEF Drain, Quota!Next, Quota!Remove
<1>9. CASE FallBehind
  BY <1>7, <1>9 DEF FallBehind, data, Quota!Next, Quota!FallsBehind
<1>10. ASSUME NEW k \in Keys, Expire(k) PROVE UNCHANGED Quota!vars
  BY <1>6, <1>10 DEF Expire, Quota!vars
<1>11. CASE UNCHANGED vars
  BY <1>7, <1>11 DEF vars, data, Quota!vars
<1> QED
  BY <1>1, <1>2, <1>3, <1>4, <1>5, <1>8, <1>9, <1>10, <1>11 DEF Next, Allow, BacklogFull, Quota!Next

\* The script implements the ideal, never-expiring bucket of QuotaBucket:
\* lazy refill and key expiry are invisible to clients, and storing a balance
\* with 14 digits shifts it by at most half a grain per decision.  A clock that
\* is set back never raises a level; a failover is the promotion of a replica
\* that fell behind.
THEOREM BucketRefinesQuota == Spec => ImplementsQuota
<1>1. Init => Quota!Init
  <2> SUFFICES ASSUME Init PROVE Quota!Init
    OBVIOUS
  <2>1. \A k \in Keys : Refilled(k) = Capacity /\ ~Found(k)
    BY DEF Init, Refilled, Found
  <2> QED
    BY <2>1 DEF Init, Quota!Init
<1>2. Spec => []BucketInv
  BY BucketInit, BucketStep, PTL DEF Spec
<1> QED
  BY <1>1, <1>2, QuotaRefinedStep, PTL DEF Spec, ImplementsQuota, Quota!Spec

-----------------------------------------------------------------------------
(* What the script tells its clients (remaining, retry_after_ms and         *)
(* reset_at_ms) stays true although the balance it is computed from is      *)
(* rounded when it is stored.                                               *)


\* One millisecond after t, the stored balance of k has been refilled to u.
Covers(k, t, u) ==
  /\ t >= bucket[k].last_refill_ms
  /\ bucket[k].tokens * WindowMS + (t + 1 - bucket[k].last_refill_ms) * Rate >= u

\* The promises hold of what is stored, whatever the time is: so neither time,
\* nor its steps back, nor the deletion of a key can break them.
Honest(k) ==
  /\ promise[k].remaining * Precision <= bucket[k].tokens
  /\ promise[k].cost = 0 \/ Covers(k, promise[k].retryAt, Units(promise[k].cost))
  /\ promise[k].resetAt >= MaxTime \/ Covers(k, promise[k].resetAt, Capacity)

HonestInv == BucketInv /\ \A k \in Keys : Honest(k)

-----------------------------------------------------------------------------
\* A decision made after t finds u.
LEMMA CoversRefilled ==
  ASSUME TypeOK, NEW k \in Keys, NEW t \in Nat, NEW u \in 0..Capacity, Covers(k, t, u), now > t
  PROVE  Refilled(k) >= u
<1> DEFINE b == bucket[k].tokens * WindowMS
           d == t + 1 - bucket[k].last_refill_ms
           e == Elapsed(k)
<1>1. /\ bucket[k].tokens \in Nat /\ bucket[k].last_refill_ms \in Nat /\ now \in Nat /\ e \in Nat
      /\ now >= bucket[k].last_refill_ms => e = now - bucket[k].last_refill_ms
  BY ElapsedType
<1>2. d \in Nat /\ d <= e
  BY <1>1 DEF Covers
<1>3. b \in Nat /\ d * Rate \in Nat /\ e * Rate \in Nat /\ d * Rate <= e * Rate /\ Capacity \in Nat
  BY <1>1, <1>2, MulNat, MulMonotone, Scale
<1>4. b + d * Rate >= u
  BY DEF Covers
<1>5. Refilled(k) = IF Found(k) THEN Lesser(Capacity, b + e * Rate) ELSE Capacity
  BY DEF Refilled
<1> HIDE DEF b, d, e
<1> QED
  BY <1>3, <1>4, <1>5 DEF Lesser

\* Rounding a balance takes no more from it than one millisecond gives back.
LEMMA StoreCovers ==
  ASSUME BucketInv, NEW k \in Keys, NEW x \in 0..Capacity, Store(k, x), now' = now,
         NEW w \in Nat, NEW u \in Nat, u - x <= w * Rate
  PROVE  Covers(k, now + w, u)'
<1> DEFINE s == Stored(x) * WindowMS
<1>1. now \in Nat /\ bucket'[k].tokens = Stored(x) /\ bucket'[k].last_refill_ms = now
  BY TimeAssumption DEF BucketInv, TypeOK, Store
<1>2. Stored(x) \in Nat /\ s \in Nat /\ 2 * x <= 2 * s + WindowMS /\ x \in Nat
  BY StoredNear, Scale, MulNat
<1>3. w * Rate \in Nat /\ (w + 1) * Rate = w * Rate + Rate /\ Rate \in Nat /\ WindowMS \in Nat
  BY Scale, MulNat
<1>4. WindowMS <= 2 * Rate
  <2>1. 2 * Limit * Precision = 2 * (Limit * Precision)
    BY Scale
  <2> QED
    BY <2>1, PrecisionAssumption DEF Rate
<1>5. s + (w + 1) * Rate >= u
  <2> HIDE DEF s
  <2> QED
    BY <1>2, <1>3, <1>4
<1>6. now + w + 1 - now = w + 1 /\ now + w >= now
  BY <1>1
<1>7. Covers(k, now + w, u)' <=> /\ now + w >= now
                                 /\ s + (now + w + 1 - now) * Rate >= u
  BY <1>1 DEF Covers, Rate
<1> QED
  BY <1>5, <1>6, <1>7

\* The whole tokens of a balance survive its rounding.
LEMMA RemainingStored ==
  ASSUME NEW x \in 0..Capacity
  PROVE  Remaining(x) \in Nat /\ Remaining(x) * Precision <= Stored(x)
<1> DEFINE U == Precision * WindowMS
           r == x \div U
           q == Stored(x)
<1>1. U \in Nat \ {0} /\ WindowMS \in Nat \ {0} /\ Precision \in Nat /\ x \in Nat
  BY Scale
<1>2. r \in Nat /\ U * r <= x
  BY <1>1, DivBounds
<1>3. q \in Nat /\ 2 * x <= 2 * (q * WindowMS) + WindowMS
  BY StoredNear, Scale
<1> HIDE DEF r, q
<1>4. r * Precision \in Nat /\ (r * Precision) * WindowMS = U * r /\ (r * Precision) * WindowMS \in Nat
  BY <1>1, <1>2, MulNat
<1>5. (q + 1) * WindowMS = q * WindowMS + WindowMS /\ q * WindowMS \in Nat
  BY <1>1, <1>3, MulNat
<1>6. (r * Precision) * WindowMS < (q + 1) * WindowMS
  BY <1>1, <1>2, <1>3, <1>4, <1>5
<1>7. r * Precision < q + 1
  BY <1>1, <1>3, <1>4, <1>6, MulCancel
<1> QED
  BY <1>2, <1>3, <1>4, <1>7 DEF Remaining, r, q

-----------------------------------------------------------------------------
LEMMA HonestInit == Init => HonestInv
<1> SUFFICES ASSUME Init PROVE HonestInv
  OBVIOUS
<1>1. ASSUME NEW k \in Keys PROVE Honest(k)
  <2>1. promise[k] = NoPromise /\ bucket[k].tokens = CapGrains
    BY DEF Init
  <2> QED
    BY <2>1, Scale, TimeAssumption DEF Honest, NoPromise
<1> QED
  BY <1>1, BucketInit DEF HonestInv

\* A decision on k that stores the balance x and promises what p says.
LEMMA HonestStore ==
  ASSUME BucketInv, NEW k \in Keys, NEW x \in 0..Capacity, Store(k, x), now' = now,
         NEW p \in [remaining : Nat, cost : 0..Limit, retryAt : Nat, resetAt : Nat],
         promise' = [promise EXCEPT ![k] = p],
         p.remaining = Remaining(x), p.resetAt = ResetAt(x),
         p.cost = 0 \/ (p.cost \in Costs /\ Units(p.cost) > x /\ p.retryAt = now + RetryAfter(x, p.cost))
  PROVE  Honest(k)'
<1>1. promise'[k] = p /\ now \in Nat /\ bucket'[k].tokens = Stored(x)
  BY TimeAssumption DEF BucketInv, TypeOK, Store
<1>2. promise'[k].remaining * Precision <= bucket'[k].tokens
  BY <1>1, RemainingStored
<1>3. Covers(k, ResetAt(x), Capacity)'
  <2> DEFINE w == CeilDiv(Capacity - x, Rate)
  <2>1. Capacity - x \in Nat /\ Rate \in Nat \ {0} /\ Capacity \in Nat
    BY Scale
  <2>2. w \in Nat /\ Capacity - x <= Rate * w
    BY <2>1, CeilDivBounds
  <2> HIDE DEF w
  <2>3. Capacity - x <= w * Rate
    BY <2>1, <2>2
  <2>4. Covers(k, now + w, Capacity)'
    BY <2>1, <2>2, <2>3, StoreCovers
  <2>5. ResetAt(x) = now + w
    BY DEF ResetAt, w
  <2>6. ResetAt(x)' = ResetAt(x) /\ Capacity' = Capacity
    BY DEF ResetAt, Capacity, CapGrains, CeilDiv, Rate
  <2> QED
    BY <2>4, <2>5, <2>6 DEF Covers
<1>4. ASSUME p.cost # 0 PROVE Covers(k, p.retryAt, Units(p.cost))'
  <2> DEFINE w == CeilDiv(Units(p.cost) - x, Rate)
             v == RetryAfter(x, p.cost)
  <2>1. p.cost \in Costs /\ Units(p.cost) > x /\ p.retryAt = now + v
    BY <1>4
  <2>2. Units(p.cost) \in Nat /\ Units(p.cost) - x \in Nat \ {0} /\ Rate \in Nat \ {0}
    BY <2>1, UnitsType, Scale
  <2>3. w \in Nat /\ Units(p.cost) - x <= Rate * w
    BY <2>2, CeilDivBounds
  <2>4. v = IF w < 1 THEN 1 ELSE w
    BY DEF RetryAfter
  <2> HIDE DEF w, v
  <2>5. v \in Nat /\ w <= v
    BY <2>3, <2>4
  <2>6. Units(p.cost) - x <= v * Rate
    <3>1. w * Rate <= v * Rate /\ w * Rate \in Nat /\ v * Rate \in Nat /\ Rate * w = w * Rate
      BY <2>2, <2>3, <2>5, MulMonotone, MulNat
    <3> QED
      BY <2>2, <2>3, <3>1
  <2>7. Covers(k, now + v, Units(p.cost))'
    BY <2>2, <2>5, <2>6, StoreCovers
  <2> QED
    BY <2>1, <2>7
<1>5. Covers(k, promise[k].resetAt, Capacity)'
  <2>1. promise'[k].resetAt = ResetAt(x)'
    BY <1>1 DEF ResetAt, Capacity, CapGrains, CeilDiv, Rate
  <2> QED
    BY <1>3, <2>1 DEF Covers
<1>6. ASSUME promise'[k].cost # 0 PROVE Covers(k, promise[k].retryAt, Units(promise[k].cost))'
  <2>1. promise'[k].retryAt = p.retryAt /\ promise'[k].cost = p.cost
    BY <1>1
  <2>2. Units(promise[k].cost)' = Units(p.cost)'
    BY <2>1 DEF Units
  <2> QED
    BY <1>4, <1>6, <2>1, <2>2 DEF Covers
<1> QED
  BY <1>2, <1>5, <1>6 DEF Honest

LEMMA HonestStep == HonestInv /\ [Next]_vars => HonestInv'
<1> SUFFICES ASSUME HonestInv, [Next]_vars PROVE HonestInv'
  OBVIOUS
<1>b. BucketInv /\ BucketInv' /\ now \in Nat
  BY BucketStep, TimeAssumption DEF HonestInv, BucketInv, TypeOK
<1> SUFFICES ASSUME NEW j \in Keys PROVE Honest(j)'
  BY <1>b DEF HonestInv
<1>u. ASSUME bucket'[j] = bucket[j], promise'[j] = promise[j] PROVE Honest(j)'
  BY <1>u DEF HonestInv, Honest, Covers, Units, Capacity, CapGrains, Rate
<1>1. ASSUME NEW k \in Keys, NEW c \in Costs, Allowed(k, c) \/ Denied(k, c), j # k PROVE Honest(j)'
  <2>1. promise'[j] = promise[j] /\ bucket'[j] = bucket[j]
    <3>1. CASE Allowed(k, c)
      BY <1>b, <1>1, <3>1 DEF Allowed, Store, BucketInv, TypeOK
    <3>2. CASE Denied(k, c)
      BY <1>b, <1>1, <3>2 DEF Denied, Store, BucketInv, TypeOK
    <3> QED
      BY <1>1, <3>1, <3>2
  <2> QED
    BY <1>u, <2>1
<1>2. ASSUME NEW c \in Costs, Allowed(j, c) PROVE Honest(j)'
  <2> DEFINE rest == Refilled(j) - Units(c)
             p == [remaining |-> Remaining(rest), cost |-> 0, retryAt |-> now, resetAt |-> ResetAt(rest)]
  <2>1. /\ Units(c) <= Refilled(j) /\ Store(j, rest) /\ now' = now
        /\ promise' = [promise EXCEPT ![j] = p]
    BY <1>2 DEF Allowed
  <2>2. rest \in 0..Capacity
    BY <1>b, <2>1, RefilledType, UnitsType, Scale DEF BucketInv
  <2>3. p \in [remaining : Nat, cost : 0..Limit, retryAt : Nat, resetAt : Nat]
    BY <1>b, <2>2, PromiseType, Scale
  <2>4. p.remaining = Remaining(rest) /\ p.resetAt = ResetAt(rest) /\ p.cost = 0
    OBVIOUS
  <2> HIDE DEF rest, p
  <2> QED
    BY <1>b, <2>1, <2>2, <2>3, <2>4, HonestStore
<1>3. ASSUME NEW c \in Costs, Denied(j, c) PROVE Honest(j)'
  <2> DEFINE x == Refilled(j)
             p == [remaining |-> Remaining(x), cost |-> c,
                   retryAt |-> now + RetryAfter(x, c), resetAt |-> ResetAt(x)]
  <2>1. /\ Units(c) > x /\ Store(j, x) /\ now' = now
        /\ promise' = [promise EXCEPT ![j] = p]
    BY <1>3 DEF Denied
  <2>2. x \in 0..Capacity
    BY <1>b, RefilledType DEF BucketInv
  <2>3. p \in [remaining : Nat, cost : 0..Limit, retryAt : Nat, resetAt : Nat]
    BY <1>b, <2>1, <2>2, PromiseType, RetryType, Scale DEF Costs
  <2>4. p.remaining = Remaining(x) /\ p.resetAt = ResetAt(x) /\ p.cost = c /\ p.retryAt = now + RetryAfter(x, c)
    OBVIOUS
  <2> HIDE DEF x, p
  <2> QED
    BY <1>b, <2>1, <2>2, <2>3, <2>4, HonestStore
<1>4. CASE Failover
  <2>1. promise'[j] = NoPromise
    BY <1>4 DEF Failover, NoPromise
  <2>2. bucket'[j].tokens \in Nat
    BY <1>b, Scale DEF BucketInv, TypeOK, Hash, CapGrains
  <2> QED
    BY <2>1, <2>2, Scale, TimeAssumption DEF Honest, NoPromise
<1>5. ASSUME Drain \/ Tick \/ StepBack \/ FallBehind \/ UNCHANGED vars PROVE Honest(j)'
  BY <1>u, <1>5 DEF Drain, Tick, StepBack, FallBehind, vars, data
<1>6. ASSUME NEW k \in Keys, Expire(k) PROVE Honest(j)'
  BY <1>u, <1>6 DEF Expire
<1> QED
  BY <1>1, <1>2, <1>3, <1>4, <1>5, <1>6 DEF Next, Allow, BacklogFull

\* Until the next decision on its key, a client can spend every token it was
\* told remains; it is served one millisecond after the wait it was told, and
\* finds a full bucket one millisecond after the reset it was told.
THEOREM PromisesKept ==
  Spec => [](RemainingIsSpendable /\ RetryAfterPlusOneSuffices /\ FullAfterReset)
<1>1. HonestInv => RemainingIsSpendable /\ RetryAfterPlusOneSuffices /\ FullAfterReset
  <2> SUFFICES ASSUME HonestInv, NEW k \in Keys
               PROVE  /\ Refilled(k) >= Units(promise[k].remaining)
                      /\ now > promise[k].retryAt => Refilled(k) >= Units(promise[k].cost)
                      /\ now > promise[k].resetAt => Refilled(k) = Capacity
    BY DEF RemainingIsSpendable, RetryAfterPlusOneSuffices, FullAfterReset
  <2>1. TypeOK /\ Honest(k) /\ Refilled(k) \in 0..Capacity /\ now \in 0..MaxTime
    BY RefilledType DEF HonestInv, BucketInv, TypeOK
  <2>2. /\ promise[k].remaining \in Nat /\ promise[k].cost \in 0..Limit
        /\ promise[k].retryAt \in Nat /\ promise[k].resetAt \in Nat
    BY <2>1 DEF TypeOK
  <2>3. Refilled(k) >= Units(promise[k].remaining)
    <3> DEFINE g == promise[k].remaining * Precision
               b == bucket[k].tokens
               e == Elapsed(k)
    <3>1. g \in Nat /\ b \in Nat /\ g <= b /\ b <= CapGrains /\ e \in Nat
      BY <2>1, <2>2, ElapsedType, MulNat, Scale DEF Honest
    <3>2. /\ g * WindowMS <= b * WindowMS /\ b * WindowMS <= Capacity
          /\ g * WindowMS \in Nat /\ b * WindowMS \in Nat /\ e * Rate \in Nat
      BY <3>1, MulMonotone, MulNat, Scale
    <3>3. Units(promise[k].remaining) = g * WindowMS
      BY DEF Units
    <3>4. Refilled(k) = IF Found(k) THEN Lesser(Capacity, b * WindowMS + e * Rate) ELSE Capacity
      BY DEF Refilled
    <3> HIDE DEF g, b, e
    <3> QED
      BY <3>2, <3>3, <3>4, Scale DEF Lesser
  <2>4. ASSUME now > promise[k].retryAt PROVE Refilled(k) >= Units(promise[k].cost)
    <3>1. CASE promise[k].cost = 0
      BY <2>1, <3>1, Scale DEF Units
    <3>2. CASE promise[k].cost # 0
      <4>1. promise[k].cost \in Costs /\ Covers(k, promise[k].retryAt, Units(promise[k].cost))
        BY <2>1, <2>2, <3>2, Scale DEF Costs, Honest
      <4>2. Units(promise[k].cost) \in 0..Capacity
        <5>1. promise[k].cost * Precision <= Limit * Precision /\ promise[k].cost * Precision \in Nat
          BY <2>2, Scale, MulMonotone, MulNat
        <5>2. (promise[k].cost * Precision) * WindowMS <= (Limit * Precision) * WindowMS
          BY <5>1, Scale, MulMonotone DEF CapGrains
        <5> QED
          BY <4>1, <5>2, UnitsType, Scale DEF Capacity, CapGrains
      <4> QED
        BY <2>1, <2>2, <2>4, <4>1, <4>2, CoversRefilled
    <3> QED
      BY <3>1, <3>2
  <2>5. ASSUME now > promise[k].resetAt PROVE Refilled(k) = Capacity
    <3>1. Covers(k, promise[k].resetAt, Capacity)
      BY <2>1, <2>2, <2>5, TimeAssumption DEF Honest
    <3>2. Refilled(k) >= Capacity
      BY <2>1, <2>2, <2>5, <3>1, CoversRefilled, Scale
    <3> QED
      BY <2>1, <3>2, Scale
  <2> QED
    BY <2>3, <2>4, <2>5
<1> QED
  BY <1>1, HonestInit, HonestStep, PTL DEF Spec

\* The tokens the script reports as remaining can be spent until the next
\* decision on the key, although the balance it stores is rounded.
THEOREM RemainingSpendable == Spec => []RemainingIsSpendable
  BY PromisesKept, PTL

\* One millisecond after reset_at_ms the bucket is full.
THEOREM ResetIsFull == Spec => []FullAfterReset
  BY PromisesKept, PTL
=============================================================================

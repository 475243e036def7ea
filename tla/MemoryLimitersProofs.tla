------------------------ MODULE MemoryLimitersProofs ------------------------
(***************************************************************************)
(* The in-memory limiters, for every policy, any clock and any number of   *)
(* clock steps.                                                            *)
(***************************************************************************)
EXTENDS MemoryLimiters, NumericLemmas, SequenceTheorems, TLAPS

-----------------------------------------------------------------------------
(* The fixed window. *)

Windows == 0..(MaxTime \div Window)
CurrentWindow == now \div Window

\* What the current window can still approve is covered by the visits to it.
FixedInv ==
  /\ now \in 0..MaxTime
  /\ window \in [start : Int, used : 0..Limit]
  /\ spentIn \in [Windows -> Nat]
  /\ visits \in [Windows -> Nat]
  /\ Fixed!QuotaPerVisit
  /\ spentIn[CurrentWindow] + Limit - Fixed!windowFor.used <= Limit * visits[CurrentWindow]

LEMMA Division ==
  ASSUME NEW n \in Nat
  PROVE  /\ n \div Window \in Nat
         /\ n % Window \in 0..(Window - 1)
         /\ n - (n % Window) = Window * (n \div Window)
  BY PolicyAssumption, DivBounds, Alignment

LEMMA CurrentType ==
  ASSUME NEW t \in 0..MaxTime
  PROVE  t \div Window \in Windows
  BY PolicyAssumption, TimeAssumption, Division, DivMonotone DEF Windows

\* The window of now, in terms of its number.
LEMMA WindowFor ==
  ASSUME now \in Nat
  PROVE  Fixed!windowFor = IF window.start = Window * CurrentWindow THEN window
                     ELSE [start |-> Window * CurrentWindow, used |-> 0]
  BY PolicyAssumption, Division DEF Fixed!windowFor, CurrentWindow

LEMMA WindowForType ==
  ASSUME FixedInv
  PROVE  Fixed!windowFor \in [start : Int, used : 0..Limit]
<1> USE PolicyAssumption
<1>1. Window * CurrentWindow \in Int
  BY Division DEF FixedInv, CurrentWindow
<1> QED
  BY <1>1, WindowFor DEF FixedInv

LEMMA FixedInit ==
  ASSUME Fixed!Init
  PROVE  FixedInv
<1> USE PolicyAssumption, TimeAssumption
<1>1. 0 \div Window = 0 /\ 0 \in Windows
  <2>1. 0 \div Window \in Nat /\ Window * (0 \div Window) = 0
    BY Division
  <2>2. 0 \div Window = 0
    BY <2>1
  <2> QED
    BY <2>2, CurrentType DEF Windows
<1>2. now \in 0..MaxTime /\ CurrentWindow = 0
  BY <1>1 DEF Fixed!Init, CurrentWindow
<1>3. /\ window \in [start : Int, used : 0..Limit]
      /\ spentIn = [w \in Windows |-> 0]
      /\ visits = [w \in Windows |-> IF w = 0 THEN 1 ELSE 0]
  BY DEF Fixed!Init, Windows
<1>4. Fixed!windowFor.used = 0
  BY <1>2, <1>3, WindowFor DEF Fixed!Init
<1>5. Fixed!QuotaPerVisit
  BY <1>3 DEF Fixed!QuotaPerVisit
<1> QED
  BY <1>1, <1>2, <1>3, <1>4, <1>5 DEF FixedInv

LEMMA FixedStep ==
  ASSUME FixedInv, [Fixed!Next]_(Fixed!vars)
  PROVE  FixedInv'
<1> USE PolicyAssumption, TimeAssumption
<1>c. CurrentWindow \in Windows
  BY CurrentType DEF FixedInv, CurrentWindow
<1>1. ASSUME NEW c \in Fixed!Costs, Fixed!Allowed(c), UNCHANGED now, UNCHANGED visits PROVE FixedInv'
  <2> DEFINE w == Fixed!windowFor
  <2>1. w \in [start : Int, used : 0..Limit]
    BY WindowForType
  <2>2. c \in Nat /\ c <= Limit - w.used
    BY <1>1 DEF Fixed!Costs, Fixed!Allowed
  <2>3. window' = [start |-> w.start, used |-> w.used + c]
    BY <1>1, <2>1 DEF Fixed!Allowed
  <2>4. spentIn' = [spentIn EXCEPT ![CurrentWindow] = @ + c]
    BY <1>1 DEF Fixed!Allowed, CurrentWindow
  <2>5. CurrentWindow' = CurrentWindow
    BY <1>1 DEF CurrentWindow
  <2>6. Fixed!windowFor' = window'
    <3>1. w.start = Window * CurrentWindow
      BY WindowFor DEF FixedInv
    <3>2. window'.start = Window * CurrentWindow'
      BY <2>3, <2>5, <3>1
    <3>3. Fixed!windowFor' = IF window'.start = Window * CurrentWindow' THEN window'
                       ELSE [start |-> Window * CurrentWindow', used |-> 0]
      <4>1. now' \in Nat
        BY <1>1 DEF FixedInv
      <4> QED
        BY <4>1, Division DEF Fixed!windowFor, CurrentWindow
    <3> QED
      BY <3>2, <3>3
  <2>7. spentIn'[CurrentWindow] = spentIn[CurrentWindow] + c /\ Fixed!windowFor'.used = w.used + c
    BY <1>c, <2>3, <2>4, <2>6 DEF FixedInv
  <2>8. spentIn' \in [Windows -> Nat] /\ window' \in [start : Int, used : 0..Limit]
    BY <1>c, <2>1, <2>2, <2>3, <2>4 DEF FixedInv
  <2>9. spentIn'[CurrentWindow'] + Limit - Fixed!windowFor'.used <= Limit * visits'[CurrentWindow']
    BY <1>1, <1>c, <2>1, <2>2, <2>5, <2>7 DEF FixedInv
  <2>10. Fixed!QuotaPerVisit'
    <3> SUFFICES ASSUME NEW v \in Windows PROVE spentIn'[v] <= Limit * visits'[v]
      BY <1>1 DEF FixedInv, Fixed!QuotaPerVisit
    <3>1. CASE v = CurrentWindow
      BY <1>1, <1>c, <2>1, <2>2, <2>5, <2>7, <2>8, <2>9, <3>1 DEF FixedInv
    <3>2. CASE v # CurrentWindow
      BY <1>1, <2>4, <3>2 DEF FixedInv, Fixed!QuotaPerVisit
    <3> QED
      BY <3>1, <3>2
  <2> QED
    BY <1>1, <2>8, <2>9, <2>10 DEF FixedInv
<1>2. ASSUME NEW t \in 0..MaxTime, Fixed!Show(t) PROVE FixedInv'
  <2>1. now' = t /\ window' = window /\ spentIn' = spentIn /\ t \in Nat
    BY <1>2 DEF Fixed!Show
  <2>2. CurrentWindow' = t \div Window /\ CurrentWindow' \in Windows
    BY <2>1, CurrentType DEF CurrentWindow
  <2>3. Fixed!windowFor' = IF window.start = Window * CurrentWindow' THEN window
                     ELSE [start |-> Window * CurrentWindow', used |-> 0]
    BY <2>1, Division DEF Fixed!windowFor, CurrentWindow
  <2>4. CASE CurrentWindow' = CurrentWindow
    <3>1. visits' = visits
      BY <1>2, <2>2, <2>4 DEF Fixed!Show, CurrentWindow
    <3>2. Fixed!windowFor' = Fixed!windowFor
      BY <2>3, <2>4, WindowFor DEF FixedInv
    <3> QED
      BY <2>1, <2>2, <2>4, <3>1, <3>2 DEF FixedInv, Fixed!QuotaPerVisit
  <2>5. CASE CurrentWindow' # CurrentWindow
    <3>1. visits' = [visits EXCEPT ![CurrentWindow'] = @ + 1]
      BY <1>2, <2>2, <2>5 DEF Fixed!Show, CurrentWindow
    <3>2. /\ visits' \in [Windows -> Nat]
          /\ visits'[CurrentWindow'] = visits[CurrentWindow'] + 1
          /\ \A v \in Windows : v # CurrentWindow' => visits'[v] = visits[v]
      BY <2>2, <3>1 DEF FixedInv
    <3>3. Limit * visits'[CurrentWindow'] = Limit * visits[CurrentWindow'] + Limit
      BY <2>2, <3>2 DEF FixedInv
    <3>4. Fixed!windowFor'.used \in 0..Limit
      BY <2>3 DEF FixedInv
    <3>5. spentIn[CurrentWindow'] <= Limit * visits[CurrentWindow']
      BY <2>2 DEF FixedInv, Fixed!QuotaPerVisit
    <3>6. Limit * visits[CurrentWindow'] \in Int /\ spentIn[CurrentWindow'] \in Nat
      BY <2>2 DEF FixedInv
    <3>7. spentIn[CurrentWindow'] + Limit - Fixed!windowFor'.used <= Limit * visits'[CurrentWindow']
      BY <3>3, <3>4, <3>5, <3>6
    <3>8. Fixed!QuotaPerVisit'
      <4> SUFFICES ASSUME NEW v \in Windows PROVE spentIn'[v] <= Limit * visits'[v]
        BY <3>2 DEF Fixed!QuotaPerVisit
      <4>1. CASE v = CurrentWindow'
        BY <2>1, <3>3, <3>5, <3>6, <4>1
      <4>2. CASE v # CurrentWindow'
        BY <2>1, <3>2, <4>2 DEF FixedInv, Fixed!QuotaPerVisit
      <4> QED
        BY <4>1, <4>2
    <3> QED
      BY <2>1, <3>2, <3>7, <3>8 DEF FixedInv
  <2> QED
    BY <2>4, <2>5
<1>3. ASSUME UNCHANGED <<now, window, spentIn, visits>> PROVE FixedInv'
  BY <1>3 DEF FixedInv, Fixed!QuotaPerVisit, Fixed!windowFor, CurrentWindow
<1>4. ASSUME NEW c \in Fixed!Costs, Fixed!Allow(c) PROVE FixedInv'
  BY <1>1, <1>3, <1>4 DEF Fixed!Allow, Fixed!Denied
<1>5. ASSUME Fixed!Tick PROVE FixedInv'
  <2>1. now + 1 \in 0..MaxTime
    BY <1>5 DEF Fixed!Tick, FixedInv
  <2> QED
    BY <1>2, <1>5, <2>1 DEF Fixed!Tick
<1>6. ASSUME Fixed!StepBack PROVE FixedInv'
  <2>1. PICK t \in 0..(now - 1) : Fixed!Show(t)
    BY <1>6 DEF Fixed!StepBack
  <2>2. t \in 0..MaxTime
    BY <2>1 DEF FixedInv
  <2> QED
    BY <1>2, <2>1, <2>2
<1>7. CASE UNCHANGED Fixed!vars
  BY <1>3, <1>7 DEF Fixed!vars
<1> QED
  BY <1>4, <1>5, <1>6, <1>7 DEF Fixed!Next


\* A wait that was announced ends less than a millisecond before the window
\* that refused the cost; only an approval changes that window, and it clears
\* the promise.
FixedHonest ==
  /\ fixedPromise \in [cost : Nat, retryAt : Int]
  /\ fixedPromise.cost \in 1..Limit =>
       window.start + Window <= fixedPromise.retryAt + InstantsPerMS

LEMMA FixedHonestStep ==
  ASSUME FixedInv, FixedHonest, [Fixed!Next]_(Fixed!vars)
  PROVE  FixedHonest'
<1> USE PolicyAssumption
<1>1. ASSUME NEW c \in Fixed!Costs, Fixed!Allowed(c) PROVE FixedHonest'
  BY <1>1 DEF Fixed!Allowed, Fixed!NoPromise, FixedHonest
<1>2. ASSUME NEW c \in Fixed!Costs, Fixed!Denied(c), UNCHANGED now PROVE FixedHonest'
  <2> DEFINE w == Fixed!windowFor
             resetAt == w.start + Window
             ms == (resetAt - now) \div InstantsPerMS
             wait == Fixed!RetryAfterMS(resetAt)
  <2>1. w \in [start : Int, used : 0..Limit] /\ now \in Nat
    BY WindowForType DEF FixedInv
  <2>2. c \in Nat /\ c > Limit - w.used
    BY <1>2 DEF Fixed!Costs, Fixed!Denied
  <2>3. window' = window /\ fixedPromise' = [cost |-> c, retryAt |-> now + wait * InstantsPerMS]
    BY <1>2 DEF Fixed!Denied
  <2>4. resetAt - now \in Nat
    <3>1. w.start = Window * CurrentWindow /\ now < Window * CurrentWindow + Window
      BY <2>1, WindowFor, DivBounds DEF CurrentWindow
    <3> QED
      BY <2>1, <3>1
  <2>5. ms \in Nat /\ resetAt - now < InstantsPerMS * ms + InstantsPerMS
    BY <2>4, DivBounds
  <2>6. wait = IF ms < 1 THEN 1 ELSE ms
    BY DEF Fixed!RetryAfterMS
  <2> HIDE DEF ms, wait
  <2>7. wait \in Nat /\ ms <= wait
    BY <2>5, <2>6
  <2>8. wait * InstantsPerMS \in Nat /\ ms * InstantsPerMS <= wait * InstantsPerMS /\ ms * InstantsPerMS \in Nat
    BY <2>5, <2>7, MulMonotone, MulNat
  <2>9. ms * InstantsPerMS = InstantsPerMS * ms
    BY <2>5
  <2>10. resetAt <= now + wait * InstantsPerMS + InstantsPerMS
    BY <2>1, <2>4, <2>5, <2>8, <2>9
  <2>11. c \in 1..Limit => w = window
    BY <2>1, <2>2 DEF Fixed!windowFor
  <2> HIDE DEF w
  <2> QED
    BY <2>1, <2>2, <2>3, <2>8, <2>10, <2>11 DEF FixedHonest
<1>3. ASSUME UNCHANGED <<window, fixedPromise>> PROVE FixedHonest'
  BY <1>3 DEF FixedHonest
<1>4. ASSUME NEW c \in Fixed!Costs, Fixed!Allow(c) PROVE FixedHonest'
  BY <1>1, <1>2, <1>4 DEF Fixed!Allow
<1> QED
  BY <1>3, <1>4 DEF Fixed!Next, Fixed!vars, Fixed!Tick, Fixed!StepBack, Fixed!Show

LEMMA FixedHonestSuffices ==
  ASSUME FixedInv, FixedHonest
  PROVE  Fixed!RetryAfterPlusOneSuffices
<1> USE PolicyAssumption
<1> SUFFICES ASSUME fixedPromise.cost \in 1..Limit, now >= fixedPromise.retryAt + InstantsPerMS
             PROVE  fixedPromise.cost <= Limit - Fixed!windowFor.used
  BY DEF Fixed!RetryAfterPlusOneSuffices
<1>1. now \in Nat /\ window.start \in Int /\ window.start + Window <= now
  BY DEF FixedInv, FixedHonest
<1>2. now < Window * CurrentWindow + Window /\ Window * CurrentWindow \in Int
  BY <1>1, DivBounds DEF CurrentWindow
<1>3. window.start # Window * CurrentWindow
  BY <1>1, <1>2
<1>4. Fixed!windowFor.used = 0
  BY <1>1, <1>3, WindowFor
<1> QED
  BY <1>4

-----------------------------------------------------------------------------
(* The token bucket. *)

TokenTypeOK ==
  /\ now \in Nat /\ since \in 0..now /\ high \in Nat /\ now <= high
  /\ tokens \in 0..Capacity /\ lastRefill \in Nat /\ spent \in Nat /\ stepsBack \in Nat
  /\ promise \in [remaining : Nat, cost : 0..Limit, retryAt : Nat, resetAt : Nat]

\* What the clock can still refill without leaving the span it has shown.
Refills == IF high > lastRefill THEN Limit * (high - lastRefill) ELSE 0

\* A bucket refilled before the interval began has spent nothing in it; later,
\* what was spent, what is left and what can be refilled is covered.
Conserved ==
  IF exists /\ lastRefill >= since
  THEN spent + tokens + Refills <= Capacity + Limit * (high - since)
  ELSE spent = 0

\* The promises, in terms of what is stored: time alone cannot break them.
Honest ==
  stepsBack = 0 =>
    /\ lastRefill <= now /\ lastRefill <= promise.retryAt /\ lastRefill <= promise.resetAt
    /\ promise.cost * Window <= tokens + Limit * (promise.retryAt - lastRefill)
    /\ Capacity <= tokens + Limit * (promise.resetAt - lastRefill)
    /\ promise.remaining * Window <= tokens

LEMMA CapacityType == Capacity \in Nat \ {0}
  BY PolicyAssumption, MulPositive DEF Capacity

\* Costs and waits of the policy, in units and in instants.
LEMMA CostType ==
  ASSUME NEW c \in 0..Limit
  PROVE  c * Window \in 0..Capacity
<1>1. c * Window <= Limit * Window /\ c * Window \in Nat
  BY PolicyAssumption, MulMonotone, MulNat
<1> QED
  BY <1>1, CapacityType DEF Capacity

LEMMA Distribute ==
  ASSUME NEW a \in Int, NEW b \in Int, NEW r \in Int
  PROVE  r * (a - b) = r * a - r * b /\ r * (a + b) = r * a + r * b /\ r * a \in Int
  OBVIOUS

\* The bucket a decision sees: at most full, refilled no later than now or the
\* last refill, and by no more than the time since.
LEMMA RefilledBucket ==
  ASSUME TokenTypeOK
  PROVE  /\ refilledBucket.tokens \in 0..Capacity
         /\ refilledBucket.lastRefill \in Nat
         /\ ~exists => refilledBucket = [tokens |-> Capacity, lastRefill |-> now]
         /\ exists /\ now <= lastRefill => refilledBucket = [tokens |-> tokens, lastRefill |-> lastRefill]
         /\ exists /\ now > lastRefill =>
              /\ refilledBucket.lastRefill = now
              /\ refilledBucket.tokens = Lesser(Capacity, tokens + Limit * (now - lastRefill))
<1> DEFINE gained == Limit * (now - lastRefill)
<1>1. (now - lastRefill) * Limit = gained
  BY PolicyAssumption DEF TokenTypeOK
<1>2. now > lastRefill => gained \in Nat
  <2>1. now > lastRefill => now - lastRefill \in Nat
    BY DEF TokenTypeOK
  <2> QED
    BY <2>1, PolicyAssumption, MulNat
<1>3. refilledBucket =
        IF ~exists THEN [tokens |-> Capacity, lastRefill |-> now]
        ELSE IF now <= lastRefill THEN [tokens |-> tokens, lastRefill |-> lastRefill]
        ELSE [tokens |-> Lesser(Capacity, tokens + gained), lastRefill |-> now]
  BY <1>1 DEF refilledBucket
<1> HIDE DEF gained
<1> SUFFICES /\ refilledBucket.tokens \in 0..Capacity
             /\ refilledBucket.lastRefill \in Nat
             /\ ~exists => refilledBucket = [tokens |-> Capacity, lastRefill |-> now]
             /\ exists /\ now <= lastRefill => refilledBucket = [tokens |-> tokens, lastRefill |-> lastRefill]
             /\ exists /\ now > lastRefill =>
                  /\ refilledBucket.lastRefill = now
                  /\ refilledBucket.tokens = Lesser(Capacity, tokens + gained)
  BY DEF gained
<1>4. CASE ~exists
  BY <1>3, <1>4, CapacityType DEF TokenTypeOK
<1>5. CASE exists /\ now <= lastRefill
  BY <1>3, <1>5, CapacityType DEF TokenTypeOK
<1>6. CASE exists /\ now > lastRefill
  BY <1>2, <1>3, <1>6, CapacityType DEF TokenTypeOK, Lesser
<1> QED
  BY <1>4, <1>5, <1>6 DEF TokenTypeOK

\* Limit * t, so that the spans of time become differences.
Refilled(t) == Limit * t

LEMMA Spans ==
  ASSUME NEW s \in Nat, NEW t \in Nat
  PROVE  /\ Refilled(s) \in Nat /\ Refilled(t) \in Nat
         /\ Limit * (t - s) = Refilled(t) - Refilled(s)
         /\ s <= t => Refilled(s) <= Refilled(t)
         /\ Refilled(t + 1) = Refilled(t) + Limit
<1>1. Limit \in Nat
  BY PolicyAssumption
<1>2. s <= t => s * Limit <= t * Limit
  BY <1>1, MulMonotone
<1> QED
  BY <1>1, <1>2, MulNat DEF Refilled

\* A decision that spends u units of the refilled bucket.
LEMMA Decision ==
  ASSUME TokenTypeOK, Conserved, NEW u \in 0..refilledBucket.tokens, exists',
         tokens' = refilledBucket.tokens - u, lastRefill' = refilledBucket.lastRefill,
         spent' = spent + u, UNCHANGED <<now, high, since>>
  PROVE  Conserved'
<1> DEFINE b == refilledBucket.tokens
           H == Refilled(high)
           S == Refilled(since)
           N == Refilled(now)
           L == Refilled(lastRefill)
           L2 == Refilled(lastRefill')
<1>1. /\ now \in Nat /\ high \in Nat /\ since \in Nat /\ lastRefill \in Nat /\ lastRefill' \in Nat
      /\ since <= now /\ now <= high /\ tokens \in Nat /\ tokens <= Capacity /\ spent \in Nat
      /\ b \in Nat /\ b <= Capacity
  BY RefilledBucket, CapacityType DEF TokenTypeOK
<1>2. /\ H \in Nat /\ S \in Nat /\ N \in Nat /\ L \in Nat /\ L2 \in Nat
      /\ S <= N /\ N <= H
      /\ lastRefill < since => L <= S
      /\ lastRefill <= now => L <= N
  <2>1. H \in Nat /\ S \in Nat /\ N \in Nat /\ L \in Nat
    BY <1>1, Spans
  <2>2. L2 \in Nat
    BY <1>1, Spans
  <2>3. S <= N /\ N <= H
    BY <1>1, Spans
  <2>4. ASSUME lastRefill < since PROVE L <= S
    <3>1. lastRefill <= since
      BY <1>1, <2>4
    <3> QED
      BY <1>1, <3>1, Spans
  <2>5. lastRefill <= now => L <= N
    BY <1>1, Spans
  <2> QED
    BY <2>1, <2>2, <2>3, <2>4, <2>5
<1>a. /\ Limit * (high - since) = H - S
      /\ Limit * (high - lastRefill) = H - L
      /\ Limit * (now - lastRefill) = N - L
  BY <1>1, Spans
<1>b. Limit * (high - lastRefill') = H - L2
  BY <1>1, Spans
<1>c. lastRefill' = now => L2 = N
  OBVIOUS
<1>d. lastRefill' = lastRefill => L2 = L
  OBVIOUS
<1>3. /\ exists /\ lastRefill >= since =>
           spent + tokens + (IF high > lastRefill THEN H - L ELSE 0) <= Capacity + (H - S)
      /\ ~(exists /\ lastRefill >= since) => spent = 0
  BY <1>a DEF Conserved, Refills
<1>4. SUFFICES IF lastRefill' >= since
               THEN spent + b + (IF high > lastRefill' THEN H - L2 ELSE 0) <= Capacity + (H - S)
               ELSE spent + u = 0
  <2>1. spent' + tokens' = spent + b
    BY <1>1
  <2> HIDE DEF b
  <2> QED
    BY <1>1, <1>a, <1>b, <2>1 DEF Conserved, Refills
<1>5. Capacity \in Nat
  BY CapacityType
<1>6. CASE ~exists
  <2>1. b = Capacity /\ lastRefill' = now
    BY <1>6, RefilledBucket
  <2> HIDE DEF b, H, S, N, L, L2
  <2> QED
    BY <1>1, <1>2, <1>c, <1>d, <1>3, <1>5, <1>6, <2>1
<1>7. CASE exists /\ now <= lastRefill
  <2>1. b = tokens /\ lastRefill' = lastRefill
    BY <1>7, RefilledBucket
  <2> HIDE DEF b, H, S, N, L, L2
  <2> QED
    BY <1>1, <1>2, <1>c, <1>d, <1>3, <1>5, <1>7, <2>1
<1>8. CASE exists /\ now > lastRefill
  <2>1. lastRefill' = now /\ b <= tokens + (N - L)
    <3>1. b = Lesser(Capacity, tokens + (N - L)) /\ lastRefill' = now
      BY <1>a, <1>8, RefilledBucket
    <3> HIDE DEF b, N, L
    <3> QED
      BY <1>1, <1>2, <1>5, <3>1 DEF Lesser
  <2> HIDE DEF b, H, S, N, L, L2
  <2> QED
    BY <1>1, <1>2, <1>c, <1>d, <1>3, <1>5, <1>8, <2>1
<1> QED
  BY <1>6, <1>7, <1>8 DEF TokenTypeOK

\* What a decision that leaves y units and was denied c (or nothing) tells.
LEMMA PromiseHolds ==
  ASSUME TokenTypeOK, stepsBack = 0 => lastRefill <= now, stepsBack' = stepsBack, now' = now,
         NEW y \in 0..Capacity, NEW c \in 0..Limit, NEW wait \in Nat,
         tokens' = y, lastRefill' = refilledBucket.lastRefill,
         promise' = [remaining |-> wholeTokens(y), cost |-> c, retryAt |-> now + wait,
                     resetAt |-> now + durationForTokens(Capacity - y)],
         c * Window <= y + Limit * wait
  PROVE  Honest' /\ promise' \in [remaining : Nat, cost : 0..Limit, retryAt : Nat, resetAt : Nat]
<1> DEFINE d == durationForTokens(Capacity - y)
           n == wholeTokens(y)
<1>1. Capacity - y \in Nat /\ y \in Nat
  BY CapacityType
<1>2. d \in Nat /\ Capacity - y <= Limit * d
  BY <1>1, PolicyAssumption, RoundUpBounds DEF durationForTokens, CeilDiv
<1>3. n \in Nat /\ n * Window <= y
  BY <1>1, PolicyAssumption, DivBounds DEF wholeTokens
<1> HIDE DEF d, n
<1>4. now \in Nat /\ promise' = [remaining |-> n, cost |-> c, retryAt |-> now + wait, resetAt |-> now + d]
  BY DEF d, n, TokenTypeOK
<1>5. promise' \in [remaining : Nat, cost : 0..Limit, retryAt : Nat, resetAt : Nat]
  BY <1>2, <1>3, <1>4
<1>6. ASSUME stepsBack = 0 PROVE lastRefill' = now
  <2>1. now \in Nat /\ lastRefill \in Nat /\ lastRefill <= now
    BY <1>6 DEF TokenTypeOK
  <2> QED
    BY <2>1, RefilledBucket
<1>7. /\ promise'.remaining = n /\ promise'.cost = c /\ promise'.retryAt = now + wait /\ promise'.resetAt = now + d
  BY <1>4
<1>8. (now + wait) - now = wait /\ (now + d) - now = d /\ now <= now + wait /\ now <= now + d
  BY <1>2, <1>4
<1>9. Capacity <= y + Limit * d
  <2>1. Limit * d \in Nat
    BY <1>2, PolicyAssumption, MulNat
  <2> QED
    BY <1>1, <1>2, <2>1, CapacityType
<1> QED
  BY <1>3, <1>4, <1>5, <1>6, <1>7, <1>8, <1>9 DEF Honest

TokenInv == TokenTypeOK /\ Conserved /\ Honest

LEMMA TokenInit == Init => TokenInv
<1> SUFFICES ASSUME Init PROVE TokenInv
  OBVIOUS
<1>1. TokenTypeOK
  BY CapacityType, PolicyAssumption DEF Init, TokenTypeOK, NoPromise
<1>2. Conserved
  BY DEF Init, Conserved
<1>3. Honest
  <2>1. 0 * Window = 0 /\ Limit * (0 - 0) = 0
    BY PolicyAssumption
  <2> QED
    BY <2>1, CapacityType DEF Init, Honest, NoPromise
<1> QED
  BY <1>1, <1>2, <1>3 DEF TokenInv

\* Allow: the mutex makes refill, comparison and store one step.
LEMMA TokenAllow ==
  ASSUME TokenInv, NEW c \in Costs, Allow(c)
  PROVE  TokenInv'
<1> DEFINE b == refilledBucket.tokens
           u == c * Window
<1>1. /\ exists' /\ UNCHANGED <<now, stepsBack, high, since>>
      /\ Allowed(c) \/ Denied(c)
  BY DEF Allow
<1>2. b \in 0..Capacity /\ refilledBucket.lastRefill \in Nat /\ Capacity \in Nat
  BY RefilledBucket, CapacityType DEF TokenInv
<1>3. c \in 0..Limit /\ u \in 0..Capacity
  BY CostType, PolicyAssumption DEF Costs
<1>4. stepsBack = 0 => lastRefill <= now
  BY DEF TokenInv, Honest
<1>5. TokenTypeOK /\ now \in Nat /\ spent \in Nat
  BY DEF TokenInv, TokenTypeOK
<1>6. ASSUME tokens' \in 0..Capacity, lastRefill' = refilledBucket.lastRefill, spent' \in Nat,
             promise' \in [remaining : Nat, cost : 0..Limit, retryAt : Nat, resetAt : Nat]
      PROVE  TokenTypeOK'
  BY <1>1, <1>2, <1>5, <1>6 DEF TokenTypeOK
<1> HIDE DEF u
<1>7. CASE Allowed(c)
  <2> DEFINE y == b - u
  <2>1. /\ u <= b /\ tokens' = y /\ lastRefill' = refilledBucket.lastRefill /\ spent' = spent + u
        /\ promise' = [remaining |-> wholeTokens(y), cost |-> 0, retryAt |-> now,
                       resetAt |-> now + durationForTokens(Capacity - y)]
    BY <1>7 DEF Allowed, u
  <2>2. u \in 0..b /\ y \in 0..Capacity
    BY <1>2, <1>3, <2>1
  <2>3. Conserved'
    BY <1>1, <1>5, <2>1, <2>2, Decision DEF TokenInv
  <2>4. now + 0 = now /\ 0 * Window = 0 /\ Limit * 0 = 0 /\ 0 \in 0..Limit
    BY <1>5, PolicyAssumption
  <2>5. 0 * Window <= y + Limit * 0
    BY <1>2, <2>2, <2>4
  <2> HIDE DEF y
  <2>6. promise' = [remaining |-> wholeTokens(y), cost |-> 0, retryAt |-> now + 0,
                    resetAt |-> now + durationForTokens(Capacity - y)]
    BY <2>1, <2>4
  <2>7. Honest' /\ promise' \in [remaining : Nat, cost : 0..Limit, retryAt : Nat, resetAt : Nat]
    BY <1>1, <1>4, <1>5, <2>1, <2>2, <2>4, <2>5, <2>6, PromiseHolds
  <2>8. spent' \in Nat /\ tokens' \in 0..Capacity
    BY <1>3, <1>5, <2>1, <2>2
  <2> QED
    BY <1>6, <2>1, <2>3, <2>7, <2>8 DEF TokenInv
<1>8. CASE Denied(c)
  <2> DEFINE short == durationForTokens(u - b)
             ms == RetryAfterMS(u - b)
             wait == ms * InstantsPerMS
  <2>1. /\ u > b /\ tokens' = b /\ lastRefill' = refilledBucket.lastRefill /\ spent' = spent
        /\ promise' = [remaining |-> wholeTokens(b), cost |-> c, retryAt |-> now + wait,
                       resetAt |-> now + durationForTokens(Capacity - b)]
    BY <1>8 DEF Denied, u
  <2>2. u - b \in Nat
    BY <1>2, <1>3, <2>1
  <2>3. short \in Nat /\ u - b <= Limit * short
    BY <2>2, PolicyAssumption, RoundUpBounds DEF durationForTokens, CeilDiv
  <2>4. millisecondsRoundedUp(short) \in Nat /\ short <= InstantsPerMS * millisecondsRoundedUp(short)
    BY <2>3, PolicyAssumption, RoundUpBounds DEF millisecondsRoundedUp, CeilDiv
  <2>5. ms \in Nat /\ millisecondsRoundedUp(short) <= ms
    BY <2>4 DEF RetryAfterMS
  <2> HIDE DEF short, ms
  <2>6. wait \in Nat /\ short <= wait
    <3>1. millisecondsRoundedUp(short) * InstantsPerMS <= ms * InstantsPerMS
      BY <2>4, <2>5, PolicyAssumption, MulMonotone
    <3> QED
      BY <2>3, <2>4, <2>5, <3>1, PolicyAssumption, MulNat
  <2> HIDE DEF wait
  <2>7. u <= b + Limit * wait
    <3>1. short * Limit <= wait * Limit
      BY <2>3, <2>6, PolicyAssumption, MulMonotone
    <3> QED
      BY <1>2, <1>3, <2>3, <2>6, <3>1, PolicyAssumption
  <2>8. Conserved'
    <3>1. 0 \in 0..b /\ b - 0 = b /\ spent + 0 = spent
      BY <1>2, <1>5
    <3> QED
      BY <1>1, <1>5, <2>1, <3>1, Decision DEF TokenInv
  <2>9. Honest' /\ promise' \in [remaining : Nat, cost : 0..Limit, retryAt : Nat, resetAt : Nat]
    BY <1>1, <1>2, <1>3, <1>4, <1>5, <2>1, <2>6, <2>7, PromiseHolds DEF u
  <2> QED
    BY <1>2, <1>5, <1>6, <2>1, <2>8, <2>9 DEF TokenInv
<1> QED
  BY <1>1, <1>7, <1>8

\* What the observer sees of a clock that moves: a longer span only helps.
LEMMA TokenClock ==
  ASSUME TokenTypeOK, Conserved, UNCHANGED <<exists, tokens, lastRefill, spent>>,
         since' \in Nat, high' \in Nat, since' <= since, high <= high'
  PROVE  Conserved'
<1> DEFINE H == Refilled(high)
           H2 == Refilled(high')
           S == Refilled(since)
           S2 == Refilled(since')
           L == Refilled(lastRefill)
<1>1. /\ since \in Nat /\ high \in Nat /\ lastRefill \in Nat /\ since <= high
      /\ tokens \in Nat /\ tokens <= Capacity /\ spent \in Nat /\ Capacity \in Nat
  BY CapacityType DEF TokenTypeOK
<1>2. H \in Nat /\ H2 \in Nat /\ S \in Nat /\ S2 \in Nat /\ L \in Nat
  BY <1>1, Spans
<1>3. H <= H2
  BY <1>1, Spans
<1>4. S2 <= S
  BY <1>1, Spans
<1>5. since' <= lastRefill => S2 <= L
  BY <1>1, Spans
<1>6. lastRefill >= high => L >= H
  BY <1>1, Spans
<1>7. S2 <= H2
  <2>1. since' <= high'
    BY <1>1
  <2> QED
    BY <1>1, <2>1, Spans
<1>8. Limit * (high - since) = H - S /\ Limit * (high - lastRefill) = H - L
  BY <1>1, Spans
<1>9. Limit * (high' - since') = H2 - S2
  BY <1>1, Spans
<1>10. Limit * (high' - lastRefill) = H2 - L
  BY <1>1, Spans
<1>11. /\ exists /\ lastRefill >= since =>
            spent + tokens + (IF high > lastRefill THEN H - L ELSE 0) <= Capacity + (H - S)
       /\ ~(exists /\ lastRefill >= since) => spent = 0
  BY <1>8 DEF Conserved, Refills
<1>12. SUFFICES IF exists /\ lastRefill >= since'
                THEN spent + tokens + (IF high' > lastRefill THEN H2 - L ELSE 0) <= Capacity + (H2 - S2)
                ELSE spent = 0
  BY <1>9, <1>10 DEF Conserved, Refills
<1> HIDE DEF H, H2, S, S2, L
<1> QED
  BY <1>1, <1>2, <1>3, <1>4, <1>5, <1>6, <1>7, <1>11

LEMMA TokenStep == TokenInv /\ Next => TokenInv'
<1> SUFFICES ASSUME TokenInv, Next PROVE TokenInv'
  OBVIOUS
<1>1. ASSUME NEW c \in Costs, Allow(c) PROVE TokenInv'
  BY <1>1, TokenAllow
<1>2. CASE Tick
  <2>1. /\ now' = now + 1 /\ high' = IF now' > high THEN now' ELSE high
        /\ UNCHANGED <<exists, tokens, lastRefill, stepsBack, since, spent, promise>>
    BY <1>2 DEF Tick
  <2>2. TokenTypeOK'
    BY <2>1 DEF TokenInv, TokenTypeOK
  <2>3. Honest'
    BY <2>1 DEF TokenInv, TokenTypeOK, Honest
  <2>4. Conserved'
    <3>1. since' \in Nat /\ high' \in Nat /\ since' <= since /\ high <= high'
      BY <2>1 DEF TokenInv, TokenTypeOK
    <3> QED
      BY <2>1, <3>1, TokenClock DEF TokenInv
  <2> QED
    BY <2>2, <2>3, <2>4 DEF TokenInv
<1>3. CASE StepBack
  <2>1. /\ now' \in 0..(now - 1) /\ since' = Lesser(since, now') /\ stepsBack' = stepsBack + 1
        /\ UNCHANGED <<exists, tokens, lastRefill, high, spent, promise>>
    BY <1>3 DEF StepBack
  <2>2. TokenTypeOK'
    BY <2>1 DEF TokenInv, TokenTypeOK, Lesser
  <2>3. Conserved'
    <3>1. since' \in Nat /\ high' \in Nat /\ since' <= since /\ high <= high'
      BY <2>1 DEF TokenInv, TokenTypeOK, Lesser
    <3> QED
      BY <2>1, <3>1, TokenClock DEF TokenInv
  <2>4. stepsBack' # 0
    BY <2>1 DEF TokenInv, TokenTypeOK
  <2> QED
    BY <2>2, <2>3, <2>4 DEF TokenInv, Honest
<1>4. CASE Observe
  <2>1. /\ since' = now /\ high' = now /\ spent' = 0
        /\ UNCHANGED <<now, exists, tokens, lastRefill, stepsBack, promise>>
    BY <1>4 DEF Observe
  <2>2. TokenTypeOK' /\ Honest'
    BY <2>1 DEF TokenInv, TokenTypeOK, Honest
  <2>3. Conserved'
    <3>1. Limit * (now - now) = 0 /\ now \in Nat /\ lastRefill \in Nat /\ tokens \in 0..Capacity
      BY PolicyAssumption DEF TokenInv, TokenTypeOK
    <3> QED
      BY <2>1, <3>1, CapacityType DEF Conserved, Refills
  <2> QED
    BY <2>2, <2>3 DEF TokenInv
<1> QED
  BY <1>1, <1>2, <1>3, <1>4 DEF Next

LEMMA ConservedBounds == TokenInv => QuotaPerInterval
<1> SUFFICES ASSUME TokenInv PROVE QuotaPerInterval
  OBVIOUS
<1> DEFINE m == Limit * (high - since)
<1>1. m \in Nat
  <2>1. high - since \in Nat
    BY DEF TokenInv, TokenTypeOK
  <2> QED
    BY <2>1, PolicyAssumption, MulNat
<1>2. Refills \in Nat
  <2>1. high > lastRefill => high - lastRefill \in Nat
    BY DEF TokenInv, TokenTypeOK
  <2> QED
    BY <2>1, PolicyAssumption, MulNat DEF Refills
<1>3. exists /\ lastRefill >= since => spent + tokens + Refills <= Capacity + m
  BY DEF TokenInv, Conserved
<1>4. ~(exists /\ lastRefill >= since) => spent = 0
  BY DEF TokenInv, Conserved
<1> SUFFICES spent <= Capacity + m
  BY DEF QuotaPerInterval
<1> HIDE DEF m
<1> QED
  BY <1>1, <1>2, <1>3, <1>4, CapacityType DEF TokenInv, TokenTypeOK

LEMMA HonestSuffices == TokenInv => PromiseKept
<1> SUFFICES ASSUME TokenInv, stepsBack = 0
             PROVE  /\ now >= promise.retryAt => refilledBucket.tokens >= promise.cost * Window
                    /\ now >= promise.resetAt => refilledBucket.tokens = Capacity
                    /\ refilledBucket.tokens >= promise.remaining * Window
  BY DEF PromiseKept
<1> DEFINE b == refilledBucket.tokens
           L == Refilled(lastRefill)
           N == Refilled(now)
           A == Refilled(promise.retryAt)
           Z == Refilled(promise.resetAt)
           cost == promise.cost * Window
           rest == promise.remaining * Window
<1>1. /\ now \in Nat /\ lastRefill \in Nat /\ promise.retryAt \in Nat /\ promise.resetAt \in Nat
      /\ promise.cost \in 0..Limit /\ promise.remaining \in Nat /\ lastRefill <= now
      /\ tokens \in 0..Capacity /\ Capacity \in Nat
  BY CapacityType DEF TokenInv, TokenTypeOK, Honest
<1>2. L \in Nat /\ N \in Nat /\ A \in Nat /\ Z \in Nat
  BY <1>1, Spans
<1>3. now >= promise.retryAt => N >= A
  BY <1>1, Spans
<1>4. now >= promise.resetAt => N >= Z
  BY <1>1, Spans
<1>5. L <= N
  BY <1>1, Spans
<1>6. Limit * (promise.retryAt - lastRefill) = A - L
  BY <1>1, Spans
<1>7. Limit * (promise.resetAt - lastRefill) = Z - L
  BY <1>1, Spans
<1>8. cost \in 0..Capacity /\ rest \in Nat
  BY <1>1, CostType, PolicyAssumption, MulNat
<1>9. cost <= tokens + (A - L) /\ Capacity <= tokens + (Z - L) /\ rest <= tokens
  BY <1>6, <1>7 DEF TokenInv, Honest
<1>10. Limit * (now - lastRefill) = N - L
  BY <1>1, Spans
<1>11. now <= lastRefill => N = L
  BY <1>1
<1>12. b = Capacity \/ b = tokens + (N - L)
  <2>1. CASE ~exists
    BY <2>1, RefilledBucket DEF TokenInv
  <2>2. CASE exists /\ now <= lastRefill
    BY <1>1, <1>2, <1>11, <2>2, RefilledBucket DEF TokenInv
  <2>3. CASE exists /\ now > lastRefill
    BY <1>10, <2>3, RefilledBucket DEF TokenInv, Lesser
  <2> QED
    BY <1>1, <2>1, <2>2, <2>3
<1>13. b \in 0..Capacity
  BY RefilledBucket DEF TokenInv
<1> HIDE DEF b, L, N, A, Z, cost, rest
<1>14. /\ now >= promise.retryAt => b >= cost
       /\ now >= promise.resetAt => b = Capacity
       /\ b >= rest
  BY <1>1, <1>2, <1>3, <1>4, <1>5, <1>8, <1>9, <1>12, <1>13
<1> QED
  BY <1>14 DEF b, cost, rest

-----------------------------------------------------------------------------
(* The sliding log. *)

\* The requests a log can hold.
Requests == [at : 0..MaxTime, cost : 1..Limit]
\* The cost of the first n requests (PrefixCost), a sum over their positions.
Prefix(r, n) == Sliding!PrefixCost(r, n)
CostsOf(r, n) == [i \in 1..n |-> r[i].cost]

LEMMA PrefixIsSum == ASSUME NEW r, NEW n PROVE Prefix(r, n) = SumFunctionOnSet(CostsOf(r, n), 1..n)
  BY DEF Prefix, CostsOf, Sliding!PrefixCost, Sliding!SumFunctionOnSet, Sliding!FoldFunctionOnSet,
         Sliding!MapThenFoldSet, SumFunctionOnSet, FoldFunctionOnSet, MapThenFoldSet

LEMMA RequestAt ==
  ASSUME NEW r \in Seq(Requests), NEW i \in 1..Len(r)
  PROVE  r[i] \in Requests /\ r[i].at \in 0..MaxTime /\ r[i].at \in Int /\ r[i].cost \in Nat \ {0}
<1>1. r[i] \in Requests
  BY ElementOfSeq
<1> QED
  BY <1>1, PolicyAssumption DEF Requests

LEMMA PrefixType ==
  ASSUME NEW r \in Seq(Requests), NEW n \in 0..Len(r)
  PROVE  CostsOf(r, n) \in [1..n -> Nat] /\ Prefix(r, n) \in Nat
<1>1. CostsOf(r, n) \in [1..n -> Nat]
  BY RequestAt, LenProperties DEF CostsOf
<1>2. IsFiniteSet(1..n)
  BY FS_Interval, LenProperties
<1> QED
  BY <1>1, <1>2, SumType, PrefixIsSum

LEMMA PrefixZero == ASSUME NEW r PROVE Prefix(r, 0) = 0
<1>1. 1..0 = {}
  OBVIOUS
<1> QED
  BY <1>1, SumEmpty, PrefixIsSum

LEMMA PrefixNext ==
  ASSUME NEW r \in Seq(Requests), NEW n \in 1..Len(r)
  PROVE  Prefix(r, n) = Prefix(r, n - 1) + r[n].cost
<1>1. n \in Nat /\ n - 1 \in 0..Len(r) /\ n \in 0..Len(r) /\ n \in 1..n /\ 1..n \ {n} = 1..(n - 1)
  BY LenProperties
<1>2. IsFiniteSet(1..n) /\ IsFiniteSet(1..(n - 1))
  BY <1>1, FS_Interval
<1>3. CostsOf(r, n) \in [1..n -> Nat]
  BY <1>1, PrefixType
<1>4. SumFunctionOnSet(CostsOf(r, n), 1..n) = CostsOf(r, n)[n] + SumFunctionOnSet(CostsOf(r, n), 1..(n - 1))
  BY <1>1, <1>2, <1>3, SumRemove
<1>5. \A i \in 1..(n - 1) : CostsOf(r, n)[i] = CostsOf(r, n - 1)[i]
  BY <1>1 DEF CostsOf
<1>6. SumFunctionOnSet(CostsOf(r, n), 1..(n - 1)) = SumFunctionOnSet(CostsOf(r, n - 1), 1..(n - 1))
  BY <1>2, <1>5, SumAgree
<1>7. CostsOf(r, n)[n] = r[n].cost /\ r[n].cost \in Nat
  BY <1>1, RequestAt DEF CostsOf
<1>8. Prefix(r, n - 1) \in Nat
  BY <1>1, PrefixType
<1> QED
  BY <1>4, <1>6, <1>7, <1>8, PrefixIsSum

LEMMA PrefixSame ==
  ASSUME NEW r, NEW q, NEW n \in Nat, \A i \in 1..n : r[i] = q[i]
  PROVE  Prefix(r, n) = Prefix(q, n)
<1>1. \A i \in 1..n : CostsOf(r, n)[i] = CostsOf(q, n)[i]
  BY DEF CostsOf
<1>2. IsFiniteSet(1..n)
  BY FS_Interval
<1> QED
  BY <1>1, <1>2, SumAgree, PrefixIsSum

\* Costs are positive, so a longer prefix costs more; by induction on the
\* requests in between.
LEMMA PrefixMonotone ==
  ASSUME NEW r \in Seq(Requests), NEW m \in 0..Len(r), NEW n \in m..Len(r)
  PROVE  Prefix(r, m) <= Prefix(r, n)
<1> DEFINE G == {k \in Nat : m + k <= Len(r) => Prefix(r, m) <= Prefix(r, m + k)}
<1>0. Len(r) \in Nat /\ m \in Nat
  BY LenProperties
<1>1. 0 \in G
  <2>1. m + 0 = m /\ Prefix(r, m) \in Nat
    BY <1>0, PrefixType
  <2> QED
    BY <2>1
<1>2. ASSUME NEW k \in G PROVE k + 1 \in G
  <2> SUFFICES ASSUME m + (k + 1) <= Len(r) PROVE Prefix(r, m) <= Prefix(r, m + (k + 1))
    OBVIOUS
  <2>1. m + k \in 0..Len(r) /\ m + (k + 1) \in 1..Len(r) /\ (m + (k + 1)) - 1 = m + k
    BY <1>0
  <2>2. Prefix(r, m + (k + 1)) = Prefix(r, m + k) + r[m + (k + 1)].cost
    BY <2>1, PrefixNext
  <2>3. Prefix(r, m) <= Prefix(r, m + k)
    BY <2>1
  <2>4. r[m + (k + 1)].cost \in Nat /\ Prefix(r, m + k) \in Nat /\ Prefix(r, m) \in Nat
    BY <2>1, RequestAt, PrefixType
  <2> QED
    BY <2>2, <2>3, <2>4
<1>3. G = Nat
  <2> HIDE DEF G
  <2>1. G \in SUBSET Nat
    BY DEF G
  <2> QED
    BY <1>1, <1>2, <2>1, Induction
<1>4. n - m \in Nat /\ m + (n - m) = n /\ m + (n - m) <= Len(r)
  BY <1>0
<1>5. n - m \in G
  <2> HIDE DEF G
  <2> QED
    BY <1>3, <1>4
<1> QED
  BY <1>4, <1>5

\* The log without its first n requests, and what its prefixes cost.
Dropped(r, n) == SubSeq(r, n + 1, Len(r))

LEMMA DropFirst ==
  ASSUME NEW r \in Seq(Requests), NEW n \in 0..Len(r)
  PROVE  /\ Dropped(r, n) \in Seq(Requests)
         /\ Len(Dropped(r, n)) = Len(r) - n
         /\ \A i \in 1..(Len(r) - n) : Dropped(r, n)[i] = r[n + i]
<1>1. Len(r) \in Nat /\ n \in Nat
  BY LenProperties
<1>2. /\ Dropped(r, n) \in Seq(Requests)
      /\ Len(Dropped(r, n)) = IF n + 1 <= Len(r) THEN Len(r) - (n + 1) + 1 ELSE 0
      /\ \A i \in 1..(Len(r) - (n + 1) + 1) : Dropped(r, n)[i] = r[n + 1 + i - 1]
  <2>1. \A i \in (n + 1)..Len(r) : r[i] \in Requests
    BY <1>1, ElementOfSeq
  <2>2. n + 1 \in Int /\ Len(r) \in Int
    BY <1>1
  <2> QED
    BY <2>1, <2>2, SubSeqProperties DEF Dropped
<1>3. Len(r) - (n + 1) + 1 = Len(r) - n /\ \A i \in 1..(Len(r) - n) : n + 1 + i - 1 = n + i
  BY <1>1
<1>4. Len(Dropped(r, n)) = Len(r) - n
  <2> DEFINE l == Len(r)
             d == Len(Dropped(r, n))
  <2>1. d = IF n + 1 <= l THEN l - (n + 1) + 1 ELSE 0
    BY <1>2
  <2>2. l \in Nat /\ n \in 0..l
    BY <1>1
  <2> HIDE DEF l, d
  <2>3. d = l - n
    BY <2>1, <2>2
  <2> QED
    BY <2>3 DEF l, d
<1>5. ASSUME NEW i \in 1..(Len(r) - n) PROVE Dropped(r, n)[i] = r[n + i]
  BY <1>2, <1>3, <1>5
<1> QED
  BY <1>2, <1>4, <1>5

LEMMA PrefixShift ==
  ASSUME NEW r \in Seq(Requests), NEW n \in 0..Len(r), NEW m \in 0..(Len(r) - n)
  PROVE  Prefix(Dropped(r, n), m) = Prefix(r, n + m) - Prefix(r, n)
<1> DEFINE s == Dropped(r, n)
           G == {k \in Nat : k <= Len(r) - n => Prefix(s, k) = Prefix(r, n + k) - Prefix(r, n)}
<1>0. /\ Len(r) \in Nat /\ n \in Nat /\ s \in Seq(Requests) /\ Len(s) = Len(r) - n
      /\ \A i \in 1..(Len(r) - n) : s[i] = r[n + i]
  BY LenProperties, DropFirst
<1> HIDE DEF s
<1>1. 0 \in G
  <2>1. n + 0 = n /\ Prefix(r, n) \in Nat /\ Prefix(s, 0) = 0
    BY <1>0, PrefixType, PrefixZero
  <2> QED
    BY <2>1
<1>2. ASSUME NEW k \in G PROVE k + 1 \in G
  <2> SUFFICES ASSUME k + 1 <= Len(r) - n PROVE Prefix(s, k + 1) = Prefix(r, n + (k + 1)) - Prefix(r, n)
    OBVIOUS
  <2>1. /\ k + 1 \in 1..Len(s) /\ (k + 1) - 1 = k /\ k \in 0..Len(s) /\ n + k \in 0..Len(r)
        /\ n + (k + 1) \in 1..Len(r) /\ (n + (k + 1)) - 1 = n + k
    BY <1>0
  <2>2. Prefix(s, k + 1) = Prefix(s, k) + s[k + 1].cost
    BY <1>0, <2>1, PrefixNext
  <2>3. Prefix(r, n + (k + 1)) = Prefix(r, n + k) + r[n + (k + 1)].cost
    BY <2>1, PrefixNext
  <2>4. Prefix(s, k) = Prefix(r, n + k) - Prefix(r, n)
    BY <1>0, <2>1
  <2>5. s[k + 1] = r[n + (k + 1)]
    BY <1>0, <2>1
  <2>6. r[n + (k + 1)].cost \in Nat /\ Prefix(r, n + k) \in Nat /\ Prefix(r, n) \in Nat
    BY <2>1, RequestAt, PrefixType
  <2> QED
    BY <2>2, <2>3, <2>4, <2>5, <2>6
<1>3. G = Nat
  <2> HIDE DEF G
  <2>1. G \in SUBSET Nat
    BY DEF G
  <2> QED
    BY <1>1, <1>2, <2>1, Induction
<1>4. m \in Nat /\ m <= Len(r) - n
  BY <1>0
<1>5. m \in G
  <2> HIDE DEF G
  <2> QED
    BY <1>3, <1>4
<1> QED
  BY <1>4, <1>5 DEF s

\* Nothing is approved ahead of the clock.
SlidingTypeOK ==
  /\ now \in 0..MaxTime
  /\ spentAt \in [0..MaxTime -> Nat]
  /\ \A u \in 0..MaxTime : u > now => spentAt[u] = 0
  /\ denial \in [cost : Nat, resetAt : Int, retryAt : Int]

\* A log lists its requests in the order of their times and counts them all.
LogTypeOK(l) ==
  /\ l.requests \in Seq(Requests)
  /\ l.used = Prefix(l.requests, Len(l.requests))
  /\ \A i \in 1..Len(l.requests) : l.requests[i].at <= now
  /\ \A i, j \in 1..Len(l.requests) : i <= j => l.requests[i].at <= l.requests[j].at

\* The first n requests of a log are those before t.
Before(l, n, t) ==
  /\ \A j \in 1..n : l.requests[j].at < t
  /\ \A j \in (n + 1)..Len(l.requests) : l.requests[j].at >= t

\* What was approved from t on.
SpentSince(t) == Sliding!Spent({u \in 0..now : u >= t})

\* From any moment of the last window on, the log accounts for what was spent.
Accounted(l) ==
  \A n \in 0..Len(l.requests), t \in Int :
    t > now - Window /\ Before(l, n, t) => l.used - Prefix(l.requests, n) = SpentSince(t)

\* The quota of every window, wherever it ends.
Rolling == \A t \in 0..now : Sliding!Spent({u \in 0..t : u > t - Window}) <= Limit

\* A denial names the request whose expiry releases enough for its cost.
Releases(l, k, c) ==
  /\ Prefix(l.requests, k - 1) < c - (Limit - l.used)
  /\ c - (Limit - l.used) <= Prefix(l.requests, k)

DenialHonest ==
  denial.cost \in 1..Limit =>
    \E k \in 1..Len(log.requests) :
      /\ denial.resetAt = log.requests[k].at + Window
      /\ Releases(log, k, denial.cost)
      /\ denial.resetAt <= denial.retryAt + InstantsPerMS

\* A decision drops expired requests, an approval appends one and the clock
\* moves on: the log keeps accounting for the last window.
SlidingInv == SlidingTypeOK /\ LogTypeOK(log) /\ Accounted(log) /\ Rolling /\ DenialHonest

LEMMA SlidingSum == ASSUME NEW f, NEW S PROVE Sliding!SumFunctionOnSet(f, S) = SumFunctionOnSet(f, S)
  BY DEF Sliding!SumFunctionOnSet, Sliding!FoldFunctionOnSet,
         Sliding!MapThenFoldSet, SumFunctionOnSet, FoldFunctionOnSet, MapThenFoldSet

LEMMA GreatestIs ==
  ASSUME NEW n \in Nat, NEW S \in SUBSET (0..n), S # {}
  PROVE  Sliding!Max(S) \in S /\ \A i \in S : i <= Sliding!Max(S)
<1>1. PICK m \in S : \A i \in S : m >= i
  BY GreatestOf
<1>2. Sliding!Max(S) \in S /\ \A i \in S : Sliding!Max(S) >= i
  BY <1>1 DEF Sliding!Max
<1> QED
  BY <1>2

LEMMA SmallestIs ==
  ASSUME NEW S \in SUBSET Nat, S # {}
  PROVE  Sliding!Min(S) \in S /\ \A i \in S : Sliding!Min(S) <= i
<1>1. PICK m \in S : \A i \in S : m =< i
  BY SmallestOf
<1> QED
  BY <1>1 DEF Sliding!Min

\* How many requests activeLog drops: those at or before now - Window.
ExpiredCount == Sliding!Max({i \in 0..Len(log.requests) : \A j \in 1..i : Sliding!Expired(log.requests[j])})

\* They are exactly the expired ones, because the log is ordered by time.
LEMMA ActiveLog ==
  ASSUME now \in Int, LogTypeOK(log)
  PROVE  /\ ExpiredCount \in 0..Len(log.requests)
         /\ Before(log, ExpiredCount, now - Window + 1)
         /\ Sliding!activeLog = [requests |-> Dropped(log.requests, ExpiredCount),
                                 used |-> log.used - Prefix(log.requests, ExpiredCount)]
<1> DEFINE r == log.requests
           E == {i \in 0..Len(r) : \A j \in 1..i : Sliding!Expired(r[j])}
           n == ExpiredCount
<1>1. r \in Seq(Requests) /\ Len(r) \in Nat /\ Window \in Nat
  BY LenProperties, PolicyAssumption DEF LogTypeOK
<1>2. \A j \in 1..Len(r) : r[j].at \in Int
  BY <1>1, RequestAt
<1>3. E \in SUBSET (0..Len(r)) /\ 0 \in E
  BY <1>1
<1>4. n \in E /\ \A i \in E : i <= n
  <2> HIDE DEF E
  <2>1. n = Sliding!Max(E)
    BY DEF ExpiredCount, E
  <2> QED
    BY <1>1, <1>3, <2>1, GreatestIs
<1> HIDE DEF n
<1>5. n \in 0..Len(r) /\ \A j \in 1..n : Sliding!Expired(r[j])
  BY <1>4
<1>6. \A j \in 1..n : r[j].at < now - Window + 1
  <2> SUFFICES ASSUME NEW j \in 1..n PROVE r[j].at < now - Window + 1
    OBVIOUS
  <2>1. j \in 1..Len(r) /\ r[j].at <= now - Window
    BY <1>1, <1>5 DEF Sliding!Expired
  <2> QED
    BY <1>1, <1>2, <2>1
<1>7. ASSUME NEW j \in (n + 1)..Len(r) PROVE r[j].at >= now - Window + 1
  <2>1. n + 1 \in 1..Len(r) /\ n + 1 <= j /\ j \in 1..Len(r)
    BY <1>1, <1>5, <1>7
  <2>2. n + 1 \notin E
    BY <1>1, <1>4, <1>5
  <2>3. ~Sliding!Expired(r[n + 1])
    <3>1. n + 1 \in 0..Len(r)
      BY <2>1
    <3>2. PICK i \in 1..(n + 1) : ~Sliding!Expired(r[i])
      BY <2>2, <3>1
    <3>3. i = n + 1
      BY <1>1, <1>5, <3>2
    <3> QED
      BY <3>2, <3>3
  <2>4. r[n + 1].at <= r[j].at
    BY <2>1 DEF LogTypeOK
  <2> QED
    BY <1>1, <1>2, <2>1, <2>3, <2>4 DEF Sliding!Expired
<1>8. Sliding!activeLog = [requests |-> SubSeq(r, n + 1, Len(r)), used |-> log.used - Prefix(r, n)]
  BY DEF Sliding!activeLog, n, ExpiredCount, Prefix
<1> QED
  BY <1>5, <1>6, <1>7, <1>8 DEF Before, Dropped, n

\* Dropping them keeps the log's invariant, leaving what the last window spent.
LEMMA PrunedLog ==
  ASSUME now \in Int, LogTypeOK(log), Accounted(log)
  PROVE  /\ LogTypeOK(Sliding!activeLog) /\ Accounted(Sliding!activeLog)
         /\ Sliding!activeLog.used \in Nat
         /\ Sliding!activeLog.used = SpentSince(now - Window + 1)
         /\ \A i \in 1..Len(Sliding!activeLog.requests) : Sliding!activeLog.requests[i].at > now - Window
<1> DEFINE r == log.requests
           n == ExpiredCount
           s == Dropped(r, n)
           a == Sliding!activeLog
<1>1. r \in Seq(Requests) /\ Len(r) \in Nat /\ Window \in Nat /\ n \in 0..Len(r)
  BY LenProperties, ActiveLog, PolicyAssumption DEF LogTypeOK
<1>2. Before(log, n, now - Window + 1)
  BY ActiveLog
<1>3. a.requests = s /\ a.used = log.used - Prefix(r, n)
  BY ActiveLog
<1>4. s \in Seq(Requests) /\ Len(s) = Len(r) - n /\ \A i \in 1..(Len(r) - n) : s[i] = r[n + i]
  BY <1>1, DropFirst
<1> HIDE DEF n, s, a
<1>5. \A m \in 0..(Len(r) - n) : /\ Prefix(s, m) = Prefix(r, n + m) - Prefix(r, n)
                                 /\ n + m \in 0..Len(r) /\ Prefix(r, n + m) \in Nat /\ Prefix(s, m) \in Nat
  <2> SUFFICES ASSUME NEW m \in 0..(Len(r) - n)
               PROVE  /\ Prefix(s, m) = Prefix(r, n + m) - Prefix(r, n)
                      /\ n + m \in 0..Len(r) /\ Prefix(r, n + m) \in Nat /\ Prefix(s, m) \in Nat
    OBVIOUS
  <2>1. Prefix(s, m) = Prefix(r, n + m) - Prefix(r, n)
    BY <1>1, PrefixShift DEF s
  <2>2. n + m \in 0..Len(r) /\ m \in 0..Len(s)
    BY <1>1, <1>4
  <2> QED
    BY <1>1, <1>4, <2>1, <2>2, PrefixType
<1>6. Prefix(r, n) \in Nat /\ log.used = Prefix(r, Len(r)) /\ log.used \in Nat
  <2>1. Len(r) \in 0..Len(r)
    BY <1>1
  <2> QED
    BY <1>1, <2>1, PrefixType DEF LogTypeOK
<1>7. a.used = Prefix(s, Len(s)) /\ a.used \in Nat
  <2>1. Len(r) - n \in 0..(Len(r) - n) /\ n + (Len(r) - n) = Len(r)
    BY <1>1
  <2>2. Prefix(s, Len(r) - n) = Prefix(r, Len(r)) - Prefix(r, n) /\ Prefix(s, Len(r) - n) \in Nat
    BY <1>5, <2>1
  <2> QED
    BY <1>3, <1>4, <1>6, <2>2
<1>8. LogTypeOK(a)
  <2>1. ASSUME NEW i \in 1..Len(s) PROVE n + i \in 1..Len(r) /\ s[i] = r[n + i]
    BY <1>1, <1>4
  <2>2. \A i \in 1..Len(s) : s[i].at <= now
    BY <2>1 DEF LogTypeOK
  <2>3. ASSUME NEW i \in 1..Len(s), NEW j \in 1..Len(s), i <= j PROVE s[i].at <= s[j].at
    <3>1. n + i <= n + j
      BY <1>1, <1>4, <2>3
    <3> QED
      BY <2>1, <3>1 DEF LogTypeOK
  <2> QED
    BY <1>3, <1>4, <1>7, <2>2, <2>3 DEF LogTypeOK
<1>9. ASSUME NEW m \in 0..Len(s), NEW t \in Int, t > now - Window, Before(a, m, t)
      PROVE  a.used - Prefix(s, m) = SpentSince(t)
  <2>1. m \in 0..(Len(r) - n) /\ n + m \in 0..Len(r)
    BY <1>1, <1>4
  <2>2. ASSUME NEW j \in 1..(n + m) PROVE r[j].at < t
    <3>1. j \in 1..Len(r) /\ r[j].at \in Int
      BY <1>1, <2>1, <2>2, RequestAt
    <3>2. CASE j <= n
      <4>1. r[j].at < now - Window + 1
        BY <1>1, <1>2, <3>1, <3>2 DEF Before
      <4> QED
        BY <1>1, <1>9, <3>1, <4>1
    <3>3. CASE j > n
      <4>1. j - n \in 1..m /\ j - n \in 1..(Len(r) - n) /\ n + (j - n) = j
        BY <1>1, <2>1, <3>1, <3>3
      <4> QED
        BY <1>3, <1>4, <1>9, <4>1 DEF Before
    <3> QED
      BY <1>1, <3>1, <3>2, <3>3
  <2>3. ASSUME NEW j \in (n + m + 1)..Len(r) PROVE r[j].at >= t
    <3>1. j - n \in (m + 1)..Len(s) /\ j - n \in 1..(Len(r) - n) /\ n + (j - n) = j
      BY <1>1, <1>4, <2>1, <2>3
    <3> QED
      BY <1>3, <1>4, <1>9, <3>1 DEF Before
  <2>4. Before(log, n + m, t)
    BY <2>2, <2>3 DEF Before
  <2>5. log.used - Prefix(r, n + m) = SpentSince(t)
    BY <1>9, <2>1, <2>4 DEF Accounted
  <2>6. /\ Prefix(s, m) = Prefix(r, n + m) - Prefix(r, n) /\ Prefix(r, n + m) \in Nat
    BY <1>5, <2>1
  <2> QED
    BY <1>3, <1>6, <2>5, <2>6
<1>10. Accounted(a)
  BY <1>3, <1>9 DEF Accounted
<1>11. a.used = SpentSince(now - Window + 1)
  BY <1>1, <1>2, <1>3 DEF Accounted
<1>12. \A i \in 1..Len(s) : s[i].at > now - Window
  <2> SUFFICES ASSUME NEW i \in 1..Len(s) PROVE s[i].at > now - Window
    OBVIOUS
  <2>1. n + i \in (n + 1)..Len(r) /\ n + i \in 1..Len(r) /\ s[i] = r[n + i]
    BY <1>1, <1>4
  <2>2. r[n + i].at >= now - Window + 1 /\ r[n + i].at \in Int
    BY <1>1, <1>2, <2>1, RequestAt DEF Before
  <2> QED
    BY <1>1, <2>1, <2>2
<1> QED
  BY <1>3, <1>7, <1>8, <1>10, <1>11, <1>12 DEF a

\* The instants the observer records.
Instants == 0..MaxTime

LEMMA InstantsFinite == IsFiniteSet(Instants)
<1>1. 0 \in Int /\ MaxTime \in Int
  BY TimeAssumption
<1> QED
  BY <1>1, FS_Interval DEF Instants

LEMMA SlidingStart == Sliding!Init => SlidingInv
<1> SUFFICES ASSUME Sliding!Init PROVE SlidingInv
  OBVIOUS
<1>1. /\ now = 0 /\ spentAt = [t \in 0..MaxTime |-> 0] /\ denial = [cost |-> 0, resetAt |-> 0, retryAt |-> 0]
      /\ log.requests = <<>> /\ log.used = 0 /\ Window \in Nat \ {0} /\ MaxTime \in Nat /\ Limit \in Nat
  BY PolicyAssumption, TimeAssumption DEF Sliding!Init, Sliding!NoDenial
<1>2. SlidingTypeOK /\ DenialHonest
  BY <1>1 DEF SlidingTypeOK, DenialHonest
<1>3. LogTypeOK(log)
  <2>1. Len(log.requests) = 0 /\ log.requests \in Seq(Requests)
    BY <1>1
  <2> QED
    BY <1>1, <2>1, PrefixZero DEF LogTypeOK
<1>4. \A S \in SUBSET Instants : SumFunctionOnSet(spentAt, S) = 0
  <2> SUFFICES ASSUME NEW S \in SUBSET Instants PROVE SumFunctionOnSet(spentAt, S) = 0
    OBVIOUS
  <2> DEFINE G == {T \in SUBSET S : SumFunctionOnSet(spentAt, T) = 0}
  <2>1. IsFiniteSet(S) /\ IsFiniteSet(Instants)
    BY InstantsFinite, FS_Subset
  <2>2. spentAt \in [Instants -> Nat] /\ \A x \in S : spentAt[x] = 0
    BY <1>1 DEF Instants
  <2>3. ASSUME NEW T \in SUBSET S, \A x \in T : T \ {x} \in G PROVE T \in G
    <3>1. CASE T = {}
      BY <3>1, SumEmpty
    <3>2. CASE T # {}
      <4>1. PICK x \in T : TRUE
        BY <3>2
      <4>2. SumFunctionOnSet(spentAt, T) = spentAt[x] + SumFunctionOnSet(spentAt, T \ {x})
        <5>1. T \in SUBSET Instants /\ x \in T
          OBVIOUS
        <5> HIDE DEF G
        <5> QED
          BY <2>1, <2>2, <5>1, SumRemove
      <4> QED
        BY <2>2, <2>3, <4>2
    <3> QED
      BY <3>1, <3>2
  <2>4. \A T \in SUBSET S : T \in G
    <3> HIDE DEF G
    <3> QED
      BY <2>1, <2>3, SubsetInduction
  <2> QED
    BY <2>4
<1>5. \A S \in SUBSET Instants : Sliding!Spent(S) = 0
  BY <1>4, SlidingSum DEF Sliding!Spent
<1>6. Rolling
  <2> SUFFICES ASSUME NEW t \in 0..now PROVE Sliding!Spent({u \in 0..t : u > t - Window}) <= Limit
    BY DEF Rolling
  <2>1. {u \in 0..t : u > t - Window} \in SUBSET Instants
    BY <1>1 DEF Instants
  <2>2. Sliding!Spent({u \in 0..t : u > t - Window}) = 0
    BY <1>5, <2>1
  <2> QED
    BY <1>1, <2>2
<1>7. Accounted(log)
  <2> SUFFICES ASSUME NEW n \in 0..Len(log.requests), NEW t \in Int
               PROVE  log.used - Prefix(log.requests, n) = SpentSince(t)
    BY DEF Accounted
  <2>1. n = 0
    BY <1>1
  <2>2. {u \in 0..now : u >= t} \in SUBSET Instants
    BY <1>1 DEF Instants
  <2>3. SpentSince(t) = 0
    BY <1>5, <2>2 DEF SpentSince
  <2> QED
    BY <1>1, <2>1, <2>3, PrefixZero
<1> QED
  BY <1>2, <1>3, <1>6, <1>7 DEF SlidingInv

\* An approval appends a request at now; only windows that contain now change.
LEMMA SlidingAllowed ==
  ASSUME SlidingInv, NEW c \in Sliding!Costs, Sliding!Allowed(c), UNCHANGED now
  PROVE  SlidingInv'
<1> USE PolicyAssumption, TimeAssumption
<1>1. PICK a : a = Sliding!activeLog
  OBVIOUS
<1>2. /\ now \in 0..MaxTime /\ now \in Nat /\ spentAt \in [0..MaxTime -> Nat]
      /\ \A u \in 0..MaxTime : u > now => spentAt[u] = 0
  BY DEF SlidingInv, SlidingTypeOK
<1>0. now \in Instants /\ spentAt \in [Instants -> Nat] /\ IsFiniteSet(Instants)
  BY <1>2, InstantsFinite DEF Instants
<1>3. LogTypeOK(a) /\ Accounted(a) /\ a.used \in Nat /\ a.used = SpentSince(now - Window + 1)
  BY <1>1, <1>2, PrunedLog DEF SlidingInv
<1> DEFINE r == a.requests
           e == [at |-> now, cost |-> c]
           q == Append(r, e)
<1>4. /\ c \in Nat \ {0} /\ c <= Limit - a.used
      /\ log' = [requests |-> q, used |-> a.used + c]
      /\ spentAt' = [spentAt EXCEPT ![now] = @ + c]
      /\ denial' = [cost |-> 0, resetAt |-> 0, retryAt |-> 0]
  BY <1>1 DEF Sliding!Costs, Sliding!Allowed, Sliding!NoDenial
<1>5. e \in Requests
  BY <1>2, <1>3, <1>4 DEF Requests
<1>6. r \in Seq(Requests) /\ Len(r) \in Nat
  BY <1>3, LenProperties DEF LogTypeOK
<1> HIDE DEF e
<1>7. /\ q \in Seq(Requests) /\ Len(q) = Len(r) + 1
      /\ \A i \in 1..Len(r) : q[i] = r[i]
      /\ q[Len(r) + 1] = e
  BY <1>5, <1>6, AppendProperties
<1> HIDE DEF q, r
<1>8. log'.requests = q /\ log'.used = a.used + c
  BY <1>4
<1>9. \A m \in 0..Len(r) : Prefix(q, m) = Prefix(r, m) /\ Prefix(r, m) \in Nat
  <2> SUFFICES ASSUME NEW m \in 0..Len(r) PROVE Prefix(q, m) = Prefix(r, m) /\ Prefix(r, m) \in Nat
    OBVIOUS
  <2>1. m \in Nat /\ \A i \in 1..m : q[i] = r[i]
    BY <1>6, <1>7
  <2> QED
    BY <1>6, <2>1, PrefixSame, PrefixType
<1>10. Prefix(q, Len(r) + 1) = a.used + c
  <2>1. Len(r) + 1 \in 1..Len(q) /\ (Len(r) + 1) - 1 = Len(r) /\ Len(r) \in 0..Len(r)
    BY <1>6, <1>7
  <2>2. Prefix(q, Len(r) + 1) = Prefix(q, Len(r)) + q[Len(r) + 1].cost
    BY <1>7, <2>1, PrefixNext
  <2>3. q[Len(r) + 1].cost = c
    BY <1>7 DEF e
  <2>4. Prefix(q, Len(r)) = Prefix(r, Len(r)) /\ a.used = Prefix(r, Len(r))
    BY <1>3, <1>9, <2>1 DEF LogTypeOK, r
  <2> QED
    BY <2>2, <2>3, <2>4
<1>11. SlidingTypeOK' /\ DenialHonest'
  BY <1>2, <1>4 DEF SlidingTypeOK, DenialHonest
<1>12. \A i \in 1..Len(r) : r[i].at <= now /\ r[i].at \in Int
  BY <1>3, <1>6, RequestAt DEF LogTypeOK, r
<1>13. LogTypeOK(log)'
  <2>1. ASSUME NEW i \in 1..Len(q) PROVE i \in 1..Len(r) \/ i = Len(r) + 1
    BY <1>6, <1>7, <2>1
  <2>2. ASSUME NEW i \in 1..Len(q) PROVE q[i].at <= now
    <3>1. CASE i \in 1..Len(r)
      BY <1>7, <1>12, <3>1
    <3>2. CASE i = Len(r) + 1
      <4>1. q[i].at = now
        BY <1>7, <3>2 DEF e
      <4> QED
        BY <1>2, <4>1
    <3> QED
      BY <2>1, <2>2, <3>1, <3>2
  <2>3. ASSUME NEW i \in 1..Len(q), NEW j \in 1..Len(q), i <= j PROVE q[i].at <= q[j].at
    <3>1. CASE j \in 1..Len(r)
      <4>1. i \in 1..Len(r)
        BY <1>6, <2>3, <3>1
      <4>2. r[i].at <= r[j].at
        BY <1>3, <2>3, <3>1, <4>1 DEF LogTypeOK, r
      <4> QED
        BY <1>7, <3>1, <4>1, <4>2
    <3>2. CASE j = Len(r) + 1
      <4>1. q[j].at = now
        BY <1>7, <3>2 DEF e
      <4> QED
        BY <2>2, <4>1
    <3> QED
      BY <2>1, <3>1, <3>2
  <2> QED
    BY <1>7, <1>8, <1>10, <2>2, <2>3 DEF LogTypeOK
<1>14. \A S \in SUBSET Instants :
         Sliding!SumFunctionOnSet(spentAt', S) = Sliding!SumFunctionOnSet(spentAt, S) + (IF now \in S THEN c ELSE 0)
  <2> SUFFICES ASSUME NEW S \in SUBSET Instants
               PROVE  SumFunctionOnSet(spentAt', S) = SumFunctionOnSet(spentAt, S) + (IF now \in S THEN c ELSE 0)
    BY SlidingSum
  <2>1. c \in Nat
    BY <1>4
  <2>2. PICK g : g = spentAt'
    OBVIOUS
  <2>3. g \in [Instants -> Nat] /\ g[now] = spentAt[now] + c /\ \A y \in Instants : y # now => g[y] = spentAt[y]
    BY <1>0, <1>4, <2>2
  <2>4. SumFunctionOnSet(g, S) = SumFunctionOnSet(spentAt, S) + (IF now \in S THEN c ELSE 0)
    BY <1>0, <2>1, <2>3, SumUpdate
  <2> QED
    BY <2>2, <2>4
<1>15. \A S \in SUBSET Instants : Sliding!SumFunctionOnSet(spentAt, S) \in Nat
  BY <1>0, SlidingSum, SumType
<1>16. Accounted(log)'
  <2> SUFFICES ASSUME NEW m \in 0..Len(log'.requests), NEW t \in Int, t > now' - Window, Before(log, m, t)'
               PROVE  log'.used - Prefix(log'.requests, m) = SpentSince(t)'
    BY DEF Accounted
  <2>a. /\ m \in 0..Len(q) /\ t > now - Window
        /\ \A j \in 1..m : q[j].at < t
        /\ \A j \in (m + 1)..Len(q) : q[j].at >= t
    BY <1>8 DEF Before
  <2> DEFINE U == {u \in 0..now : u >= t}
  <2>1. U \in SUBSET Instants
    BY <1>2 DEF Instants
  <2>2. /\ Sliding!SumFunctionOnSet(spentAt', U) = Sliding!SumFunctionOnSet(spentAt, U) + (IF now \in U THEN c ELSE 0)
        /\ Sliding!SumFunctionOnSet(spentAt, U) \in Nat
    BY <1>14, <1>15, <2>1
  <2>3. now \in U <=> now >= t
    BY <1>2
  <2>4. ASSUME m = Len(r) + 1 PROVE a.used + c - Prefix(q, m) = Sliding!SumFunctionOnSet(spentAt', U)
    <3>1. now < t
      BY <1>6, <1>7, <2>a, <2>4 DEF e
    <3>2. U = {}
      BY <1>2, <3>1
    <3>3. Sliding!SumFunctionOnSet(spentAt, U) = 0
      <4> HIDE DEF U
      <4> QED
        BY <3>2, SlidingSum, SumEmpty
    <3> HIDE DEF U
    <3> QED
      BY <1>3, <1>4, <1>10, <2>2, <2>4, <3>2, <3>3
  <2>5. ASSUME m \in 0..Len(r) PROVE a.used + c - Prefix(q, m) = Sliding!SumFunctionOnSet(spentAt', U)
    <3>1. now >= t
      <4>1. Len(r) + 1 \in (m + 1)..Len(q)
        BY <1>6, <1>7, <2>a, <2>5
      <4> QED
        BY <1>7, <2>a, <4>1 DEF e
    <3>2. Before(a, m, t)
      <4>1. \A j \in 1..m : r[j].at < t
        BY <1>6, <1>7, <2>a, <2>5
      <4>2. \A j \in (m + 1)..Len(r) : r[j].at >= t
        BY <1>6, <1>7, <2>a, <2>5
      <4> QED
        BY <4>1, <4>2 DEF Before, r
    <3>3. a.used - Prefix(r, m) = Sliding!SumFunctionOnSet(spentAt, U)
      BY <1>3, <2>a, <2>5, <3>2 DEF Accounted, SpentSince, Sliding!Spent, r
    <3>4. Prefix(q, m) = Prefix(r, m) /\ Prefix(r, m) \in Nat
      BY <1>9, <2>5
    <3> HIDE DEF U
    <3> QED
      BY <1>3, <1>4, <2>2, <2>3, <3>1, <3>3, <3>4
  <2>6. a.used + c - Prefix(q, m) = Sliding!SumFunctionOnSet(spentAt', U)
    BY <1>6, <1>7, <2>a, <2>4, <2>5
  <2>7. SpentSince(t)' = Sliding!SumFunctionOnSet(spentAt', U)
    BY DEF SpentSince, Sliding!Spent
  <2>8. Prefix(log'.requests, m) = Prefix(q, m) /\ log'.used = a.used + c
    BY <1>8
  <2>9. Prefix(q, m) \in Nat
    BY <1>7, <2>a, PrefixType
  <2> HIDE DEF U
  <2> QED
    BY <1>3, <1>4, <2>6, <2>7, <2>8, <2>9
<1>17. Rolling'
  <2> SUFFICES ASSUME NEW t \in 0..now
               PROVE  Sliding!SumFunctionOnSet(spentAt', {u \in 0..t : u > t - Window}) <= Limit
    BY DEF Rolling, Sliding!Spent
  <2> DEFINE U == {u \in 0..t : u > t - Window}
  <2>1. U \in SUBSET Instants /\ (now \in U <=> t = now)
    BY <1>2 DEF Instants
  <2>2. /\ Sliding!SumFunctionOnSet(spentAt', U) = Sliding!SumFunctionOnSet(spentAt, U) + (IF now \in U THEN c ELSE 0)
        /\ Sliding!SumFunctionOnSet(spentAt, U) \in Nat
    BY <1>14, <1>15, <2>1
  <2>3. ASSUME t # now PROVE Sliding!SumFunctionOnSet(spentAt', U) <= Limit
    <3>1. Sliding!SumFunctionOnSet(spentAt, U) <= Limit
      BY DEF SlidingInv, Rolling, Sliding!Spent
    <3> HIDE DEF U
    <3> QED
      BY <2>1, <2>2, <2>3, <3>1
  <2>4. ASSUME t = now PROVE Sliding!SumFunctionOnSet(spentAt', U) <= Limit
    <3>1. U = {u \in 0..now : u >= now - Window + 1}
      BY <1>2, <2>4
    <3>2. Sliding!SumFunctionOnSet(spentAt, U) = a.used
      <4> HIDE DEF U
      <4> QED
        BY <1>3, <3>1 DEF SpentSince, Sliding!Spent
    <3> HIDE DEF U
    <3> QED
      BY <1>3, <1>4, <2>1, <2>2, <2>4, <3>2
  <2> QED
    BY <2>3, <2>4
<1> QED
  BY <1>11, <1>13, <1>16, <1>17 DEF SlidingInv

\* The wait of a denial, in terms of the division it rounds down.
LEMMA RoundedWait ==
  ASSUME NEW x \in Nat
  PROVE  Sliding!Max({1, x}) \in Nat /\ x <= Sliding!Max({1, x})
<1>1. 1 + x \in Nat /\ {1, x} \in SUBSET (0..(1 + x)) /\ {1, x} # {}
  OBVIOUS
<1>2. Sliding!Max({1, x}) \in {1, x} /\ \A i \in {1, x} : i <= Sliding!Max({1, x})
  BY <1>1, GreatestIs
<1> QED
  BY <1>2

\* The request a denial names is the first whose expiry releases enough.
LEMMA FirstRelease ==
  ASSUME NEW a, a.requests \in Seq(Requests), a.used = Prefix(a.requests, Len(a.requests)), NEW c \in 1..Limit,
         c > Limit - a.used
  PROVE  \E k \in 1..Len(a.requests) :
           /\ Releases(a, k, c)
           /\ Sliding!nextAvailability(a, c) = a.requests[k].at + Window
<1> DEFINE r == a.requests
           required == c - (Limit - a.used)
           enough == {i \in 1..Len(r) : Prefix(r, i) >= required}
           k == Sliding!Min(enough)
<1>1. Limit \in Nat /\ Len(r) \in Nat /\ Len(r) \in 0..Len(r)
  BY PolicyAssumption, LenProperties
<1>2. a.used \in Nat
  BY <1>1, PrefixType
<1>3. required \in Nat /\ required >= 1 /\ required <= a.used
  BY <1>1, <1>2
<1> HIDE DEF required
<1>4. Len(r) # 0
  BY <1>3, PrefixZero
<1>5. Len(r) \in enough
  BY <1>1, <1>3, <1>4
<1>6. enough \in SUBSET Nat /\ enough # {}
  BY <1>5
<1>7. k \in enough /\ \A i \in enough : k <= i
  <2> HIDE DEF enough
  <2> QED
    BY <1>6, SmallestIs
<1> HIDE DEF k
<1>8. k \in 1..Len(r) /\ Prefix(r, k) >= required
  BY <1>7
<1>9. k - 1 \in 0..Len(r) /\ Prefix(r, k - 1) \in Nat /\ Prefix(r, k) \in Nat
  <2>1. k - 1 \in 0..Len(r) /\ k \in 0..Len(r)
    BY <1>1, <1>8
  <2> QED
    BY <2>1, PrefixType
<1>10. Prefix(r, k - 1) < required
  <2>1. CASE k = 1
    BY <1>3, <2>1, PrefixZero
  <2>2. CASE k # 1
    <3>1. k - 1 \in 1..Len(r) /\ ~(k <= k - 1)
      BY <1>8, <2>2
    <3>2. k - 1 \notin enough
      <4> HIDE DEF enough
      <4> QED
        BY <1>7, <3>1
    <3> QED
      BY <1>3, <1>9, <3>1, <3>2
  <2> QED
    BY <2>1, <2>2
<1>11. Sliding!nextAvailability(a, c) = IF enough = {} THEN now + Window ELSE r[k].at + Window
  BY DEF Sliding!nextAvailability, Prefix, k, required
<1>12. Releases(a, k, c)
  BY <1>3, <1>8, <1>9, <1>10 DEF Releases, required
<1> HIDE DEF enough
<1> QED
  BY <1>6, <1>8, <1>11, <1>12

\* A denial announces a time that has not passed.
LEMMA AvailabilityAhead ==
  ASSUME now \in Int, NEW a, a.requests \in Seq(Requests), NEW c,
         \A i \in 1..Len(a.requests) : a.requests[i].at > now - Window
  PROVE  Sliding!nextAvailability(a, c) - now \in Nat /\ Sliding!nextAvailability(a, c) \in Int
<1> USE PolicyAssumption
<1> DEFINE r == a.requests
           enough == {i \in 1..Len(r) : Sliding!PrefixCost(r, i) >= c - (Limit - a.used)}
<1>1. Sliding!nextAvailability(a, c) = IF enough = {} THEN now + Window ELSE r[Sliding!Min(enough)].at + Window
  BY DEF Sliding!nextAvailability
<1>2. enough \in SUBSET (1..Len(r)) /\ enough \in SUBSET Nat
  BY LenProperties
<1> HIDE DEF enough
<1>3. CASE enough = {}
  BY <1>1, <1>3
<1>4. CASE enough # {}
  <2>1. PICK k \in 1..Len(r) : k = Sliding!Min(enough)
    BY <1>2, <1>4, SmallestIs
  <2>2. r[k].at \in Int /\ r[k].at > now - Window
    BY <2>1, RequestAt
  <2>3. Sliding!nextAvailability(a, c) = r[k].at + Window
    BY <1>1, <1>4, <2>1
  <2> QED
    BY <2>2, <2>3
<1> QED
  BY <1>3, <1>4

\* A denial keeps the shortened log and names the request that releases enough.
LEMMA SlidingDenied ==
  ASSUME SlidingInv, NEW c \in Sliding!Costs, Sliding!Denied(c), UNCHANGED now
  PROVE  SlidingInv'
<1> USE PolicyAssumption, TimeAssumption
<1>1. PICK a : a = Sliding!activeLog
  OBVIOUS
<1>2. now \in 0..MaxTime /\ now \in Nat
  BY DEF SlidingInv, SlidingTypeOK
<1>3. /\ LogTypeOK(a) /\ Accounted(a) /\ a.used \in Nat
      /\ \A i \in 1..Len(a.requests) : a.requests[i].at > now - Window
  BY <1>1, <1>2, PrunedLog DEF SlidingInv
<1>4. a.requests \in Seq(Requests) /\ a.used = Prefix(a.requests, Len(a.requests))
  BY <1>3 DEF LogTypeOK
<1>5. PICK resetAt : resetAt = Sliding!nextAvailability(a, c)
  OBVIOUS
<1>6. resetAt - now \in Nat /\ resetAt \in Int
  BY <1>2, <1>3, <1>4, <1>5, AvailabilityAhead
<1> DEFINE ms == (resetAt - now) \div InstantsPerMS
           wait == Sliding!Max({1, ms})
<1>7. /\ c \in Nat \ {0} /\ c > Limit - a.used
      /\ log' = a /\ spentAt' = spentAt
      /\ denial' = [cost |-> c, resetAt |-> resetAt, retryAt |-> now + wait * InstantsPerMS]
  BY <1>1, <1>5 DEF Sliding!Denied, Sliding!Costs, Sliding!RetryAfterMS
<1>8. ms \in Nat /\ resetAt - now < InstantsPerMS * ms + InstantsPerMS
  BY <1>6, DivBounds
<1> HIDE DEF ms
<1>9. wait \in Nat /\ ms <= wait
  BY <1>8, RoundedWait
<1> HIDE DEF wait
<1>10. wait * InstantsPerMS \in Nat /\ ms * InstantsPerMS <= wait * InstantsPerMS /\ ms * InstantsPerMS \in Nat
  BY <1>8, <1>9, MulMonotone, MulNat
<1>11. ms * InstantsPerMS = InstantsPerMS * ms
  BY <1>8
<1>12. resetAt <= now + wait * InstantsPerMS + InstantsPerMS
  BY <1>2, <1>6, <1>8, <1>10, <1>11
<1>13. SlidingTypeOK'
  BY <1>2, <1>6, <1>7, <1>10 DEF SlidingInv, SlidingTypeOK
<1>14. LogTypeOK(log)'
  BY <1>3, <1>7 DEF LogTypeOK
<1>15. Rolling'
  BY <1>7 DEF SlidingInv, Rolling, Sliding!Spent
<1>16. Accounted(log)'
  <2>1. \A t : SpentSince(t)' = SpentSince(t)
    BY <1>7 DEF SpentSince, Sliding!Spent
  <2> QED
    BY <1>3, <1>7, <2>1 DEF Accounted, Before
<1>17. DenialHonest'
  <2> SUFFICES ASSUME c \in 1..Limit PROVE DenialHonest'
    BY <1>7 DEF DenialHonest
  <2>1. PICK k \in 1..Len(a.requests) : Releases(a, k, c) /\ resetAt = a.requests[k].at + Window
    BY <1>4, <1>5, <1>7, FirstRelease
  <2>2. Releases(log, k, c)'
    BY <1>7, <2>1 DEF Releases
  <2> QED
    BY <1>7, <1>12, <2>1, <2>2 DEF DenialHonest, Releases
<1> QED
  BY <1>13, <1>14, <1>15, <1>16, <1>17 DEF SlidingInv

LEMMA SpentType ==
  ASSUME SlidingTypeOK, NEW t \in Int
  PROVE  SpentSince(t) \in Nat
<1>1. spentAt \in [Instants -> Nat] /\ IsFiniteSet(Instants)
  BY InstantsFinite DEF SlidingTypeOK, Instants
<1>2. {u \in 0..now : u >= t} \in SUBSET Instants
  BY TimeAssumption DEF SlidingTypeOK, Instants
<1>3. SumFunctionOnSet(spentAt, {u \in 0..now : u >= t}) \in Nat
  BY <1>1, <1>2, SumType
<1> QED
  BY <1>3, SlidingSum DEF SpentSince, Sliding!Spent

\* Nothing has been spent at the next instant, nor before any window's start.
LEMMA NextInstant ==
  ASSUME SlidingTypeOK, now + 1 \in 0..MaxTime, NEW t \in Int
  PROVE  /\ Sliding!Spent({u \in 0..(now + 1) : u >= t}) = SpentSince(t)
         /\ SpentSince(t) <= SpentSince(t - 1)
<1>1. now \in Nat /\ now \in 0..MaxTime /\ MaxTime \in Nat /\ spentAt \in [Instants -> Nat] /\ IsFiniteSet(Instants)
  BY TimeAssumption, InstantsFinite DEF SlidingTypeOK, Instants
<1> DEFINE S == {u \in 0..now : u >= t}
           R == {u \in 0..(now + 1) : u >= t}
           W == {u \in 0..now : u >= t - 1}
<1>2. R \in SUBSET Instants /\ W \in SUBSET Instants /\ S \in SUBSET W /\ S \in SUBSET Instants
  BY <1>1 DEF Instants
<1>3. R \ {now + 1} = S /\ (now + 1 \in R \/ R = S) /\ spentAt[now + 1] = 0
  BY <1>1 DEF SlidingTypeOK
<1> SUFFICES /\ SumFunctionOnSet(spentAt, R) = SumFunctionOnSet(spentAt, S)
             /\ SumFunctionOnSet(spentAt, S) <= SumFunctionOnSet(spentAt, W)
  BY SlidingSum DEF SpentSince, Sliding!Spent
<1> HIDE DEF R, S, W
<1>4. SumFunctionOnSet(spentAt, S) \in Nat
  BY <1>1, <1>2, SumType
<1>5. CASE now + 1 \in R
  <2>1. SumFunctionOnSet(spentAt, R) = spentAt[now + 1] + SumFunctionOnSet(spentAt, R \ {now + 1})
    BY <1>1, <1>2, <1>5, SumRemove
  <2>2. SumFunctionOnSet(spentAt, R) = SumFunctionOnSet(spentAt, S)
    <3>1. R \ {now + 1} = S /\ spentAt[now + 1] = 0
      BY <1>3
    <3>2. SumFunctionOnSet(spentAt, R) = 0 + SumFunctionOnSet(spentAt, S)
      BY <2>1, <3>1
    <3> QED
      BY <1>4, <3>2
  <2>3. SumFunctionOnSet(spentAt, S) <= SumFunctionOnSet(spentAt, W)
    BY <1>1, <1>2, SumMonotone
  <2> QED
    BY <2>2, <2>3
<1>6. CASE R = S
  BY <1>1, <1>2, <1>6, SumMonotone
<1> QED
  BY <1>3, <1>5, <1>6

\* Time adds an instant at which nothing was spent.
LEMMA SlidingTick ==
  ASSUME SlidingInv, Sliding!Tick
  PROVE  SlidingInv'
<1> USE PolicyAssumption, TimeAssumption
<1>1. now' = now + 1 /\ log' = log /\ spentAt' = spentAt /\ denial' = denial /\ now \in Nat /\ now + 1 \in 0..MaxTime
  BY DEF Sliding!Tick, SlidingInv, SlidingTypeOK
<1>2. SlidingTypeOK'
  BY <1>1 DEF SlidingInv, SlidingTypeOK
<1>3. DenialHonest'
  BY <1>1 DEF SlidingInv, DenialHonest, Releases
<1>4. LogTypeOK(log)'
  <2>1. \A i \in 1..Len(log.requests) : log.requests[i].at \in Int /\ log.requests[i].at <= now
    BY RequestAt DEF SlidingInv, LogTypeOK
  <2>2. \A i \in 1..Len(log.requests) : log.requests[i].at <= now + 1
    BY <1>1, <2>1
  <2> QED
    BY <1>1, <2>2 DEF SlidingInv, LogTypeOK
<1>5. \A t \in Int : SpentSince(t)' = SpentSince(t) /\ SpentSince(t) <= SpentSince(t - 1)
  <2> SUFFICES ASSUME NEW t \in Int PROVE SpentSince(t)' = SpentSince(t) /\ SpentSince(t) <= SpentSince(t - 1)
    OBVIOUS
  <2>1. SpentSince(t)' = Sliding!Spent({u \in 0..(now + 1) : u >= t})
    BY <1>1 DEF SpentSince, Sliding!Spent
  <2> QED
    BY <1>1, <2>1, NextInstant DEF SlidingInv
<1>6. Accounted(log)'
  <2> SUFFICES ASSUME NEW m \in 0..Len(log.requests), NEW t \in Int, t > now + 1 - Window, Before(log, m, t)
               PROVE  log.used - Prefix(log.requests, m) = SpentSince(t)'
    BY <1>1 DEF Accounted, Before
  <2>1. t > now - Window
    BY <1>1
  <2>2. log.used - Prefix(log.requests, m) = SpentSince(t)
    BY <2>1 DEF SlidingInv, Accounted
  <2> QED
    BY <1>5, <2>2
<1>7. Rolling'
  <2> SUFFICES ASSUME NEW t \in 0..(now + 1) PROVE Sliding!Spent({u \in 0..t : u > t - Window}) <= Limit
    BY <1>1 DEF Rolling, Sliding!Spent
  <2>1. CASE t \in 0..now
    BY <2>1 DEF SlidingInv, Rolling
  <2>2. CASE t = now + 1
    <3> DEFINE s == now + 1 - Window + 1
    <3>0. s \in Int
      BY <1>1
    <3>1. {u \in 0..t : u > t - Window} = {u \in 0..(now + 1) : u >= s}
      BY <1>1, <2>2
    <3>2. {u \in 0..now : u > now - Window} = {u \in 0..now : u >= s - 1}
      BY <1>1
    <3>3. Sliding!Spent({u \in 0..now : u > now - Window}) <= Limit
      BY <1>1 DEF SlidingInv, Rolling
    <3> HIDE DEF s
    <3>4. Sliding!Spent({u \in 0..(now + 1) : u >= s}) = SpentSince(s)
      BY <1>1, <3>0, NextInstant DEF SlidingInv
    <3>5. SpentSince(s - 1) <= Limit
      BY <3>2, <3>3 DEF SpentSince
    <3>6. SpentSince(s) <= SpentSince(s - 1)
      BY <1>5, <3>0
    <3>7. SpentSince(s) \in Nat /\ SpentSince(s - 1) \in Nat
      BY <1>1, <3>0, SpentType DEF SlidingInv
    <3> QED
      BY <3>1, <3>4, <3>5, <3>6, <3>7
  <2> QED
    BY <1>1, <2>1, <2>2
<1> QED
  BY <1>2, <1>3, <1>4, <1>6, <1>7 DEF SlidingInv

LEMMA SlidingStep ==
  ASSUME SlidingInv, [Sliding!Next]_(Sliding!vars)
  PROVE  SlidingInv'
<1>1. CASE \E c \in Sliding!Costs : Sliding!Allow(c)
  BY <1>1, SlidingAllowed, SlidingDenied DEF Sliding!Allow
<1>2. CASE Sliding!Tick
  BY <1>2, SlidingTick
<1>3. CASE UNCHANGED Sliding!vars
  <2>1. now' = now /\ log' = log /\ spentAt' = spentAt /\ denial' = denial
    BY <1>3 DEF Sliding!vars
  <2>2. \A t : SpentSince(t)' = SpentSince(t)
    BY <2>1 DEF SpentSince, Sliding!Spent
  <2>3. Accounted(log)'
    BY <2>1, <2>2 DEF SlidingInv, Accounted, Before
  <2>4. Rolling' /\ DenialHonest'
    BY <2>1 DEF SlidingInv, Rolling, Sliding!Spent, DenialHonest, Releases
  <2>5. SlidingTypeOK' /\ LogTypeOK(log)'
    BY <2>1 DEF SlidingInv, SlidingTypeOK, LogTypeOK
  <2> QED
    BY <2>3, <2>4, <2>5 DEF SlidingInv
<1> QED
  BY <1>1, <1>2, <1>3 DEF Sliding!Next

\* The shortened log holds what the last window approved.
LEMMA SlidingExact ==
  ASSUME SlidingInv
  PROVE  Sliding!RollingQuotaIsExact
<1>1. now \in Int /\ Window \in Nat
  BY PolicyAssumption DEF SlidingInv, SlidingTypeOK
<1>2. Sliding!activeLog.used = SpentSince(now - Window + 1)
  BY <1>1, PrunedLog DEF SlidingInv
<1>3. {u \in 0..now : u > now - Window} = {u \in 0..now : u >= now - Window + 1}
  BY <1>1
<1>4. Sliding!activeLog.used = Sliding!Spent({u \in 0..now : u > now - Window})
  BY <1>2, <1>3 DEF SpentSince
<1> QED
  BY <1>4 DEF SlidingInv, Rolling, Sliding!RollingQuotaIsExact

\* The named request has expired exactly when the released cost covers c.
LEMMA SlidingAvailable ==
  ASSUME SlidingInv
  PROVE  Sliding!NextAvailabilityIsExact /\ Sliding!RetryAfterPlusOneSuffices
<1> USE PolicyAssumption
<1> DEFINE r == log.requests
           n == ExpiredCount
           c == denial.cost
<1>1. now \in Int /\ LogTypeOK(log) /\ r \in Seq(Requests) /\ Len(r) \in Nat /\ log.used = Prefix(r, Len(r))
  BY LenProperties DEF SlidingInv, SlidingTypeOK, LogTypeOK
<1>2. /\ n \in 0..Len(r) /\ Before(log, n, now - Window + 1)
      /\ Sliding!activeLog.used = log.used - Prefix(r, n)
  BY <1>1, ActiveLog
<1> HIDE DEF n
<1>3. log.used \in Nat /\ Prefix(r, n) \in Nat
  <2>1. Len(r) \in 0..Len(r)
    BY <1>1
  <2> QED
    BY <1>1, <1>2, <2>1, PrefixType
<1>4. ASSUME c \in 1..Limit
      PROVE  /\ now >= denial.resetAt <=> c <= Limit - Sliding!activeLog.used
             /\ denial.resetAt <= denial.retryAt + InstantsPerMS
             /\ denial.resetAt \in Int /\ denial.retryAt \in Int
  <2>1. PICK k \in 1..Len(r) : /\ denial.resetAt = r[k].at + Window
                               /\ Releases(log, k, c)
                               /\ denial.resetAt <= denial.retryAt + InstantsPerMS
    BY <1>4 DEF SlidingInv, DenialHonest
  <2>2. r[k].at \in Int
    BY <1>1, <2>1, RequestAt
  <2>3. k \in 0..Len(r) /\ k - 1 \in 0..Len(r)
    BY <1>1, <2>1
  <2>4. Prefix(r, k) \in Nat /\ Prefix(r, k - 1) \in Nat
    BY <1>1, <2>3, PrefixType
  <2>5. Prefix(r, k - 1) < c - (Limit - log.used) /\ c - (Limit - log.used) <= Prefix(r, k)
    BY <2>1 DEF Releases
  <2>d. denial.retryAt \in Int
    BY DEF SlidingInv, SlidingTypeOK
  <2> SUFFICES r[k].at + Window <= now <=> c - (Limit - log.used) <= Prefix(r, n)
    <3> DEFINE p == Prefix(r, n)
               at == r[k].at
               u == log.used
               v == Sliding!activeLog.used
    <3>1. v = u - p /\ p \in Nat /\ u \in Nat /\ at \in Int
      BY <1>2, <1>3, <2>2
    <3>2. at + Window <= now <=> c - (Limit - u) <= p
      OBVIOUS
    <3>3. denial.resetAt = at + Window /\ denial.resetAt <= denial.retryAt + InstantsPerMS
      BY <2>1
    <3> HIDE DEF p, at, u, v
    <3>4. /\ now >= denial.resetAt <=> c <= Limit - v
          /\ denial.resetAt \in Int
      BY <1>1, <1>4, <3>1, <3>2, <3>3
    <3> QED
      BY <2>d, <3>3, <3>4 DEF v
  <2> DEFINE required == c - (Limit - log.used)
             below == Prefix(r, k - 1)
             upto == Prefix(r, k)
             gone == Prefix(r, n)
             at == r[k].at
  <2>e. /\ required \in Int /\ below \in Nat /\ upto \in Nat /\ gone \in Nat /\ at \in Int
        /\ below < required /\ required <= upto
    BY <1>3, <1>4, <2>2, <2>4, <2>5
  <2> SUFFICES at + Window <= now <=> required <= gone
    OBVIOUS
  <2>6. CASE k <= n
    <3>1. at < now - Window + 1
      BY <1>2, <2>1, <2>6 DEF Before
    <3>2. upto <= gone
      BY <1>1, <1>2, <2>3, <2>6, PrefixMonotone
    <3> HIDE DEF required, below, upto, gone, at
    <3> QED
      BY <1>1, <2>2, <2>e, <3>1, <3>2
  <2>7. CASE k > n
    <3>1. k \in (n + 1)..Len(r) /\ k - 1 \in n..Len(r)
      BY <1>1, <1>2, <2>1, <2>7
    <3>2. at >= now - Window + 1
      BY <1>2, <3>1 DEF Before
    <3>3. gone <= below
      BY <1>1, <1>2, <3>1, PrefixMonotone
    <3> HIDE DEF required, below, upto, gone, at
    <3> QED
      BY <1>1, <2>2, <2>e, <3>2, <3>3
  <2> QED
    BY <1>1, <1>2, <2>3, <2>6, <2>7
<1>5. Sliding!NextAvailabilityIsExact
  BY <1>4 DEF Sliding!NextAvailabilityIsExact
<1>6. Sliding!RetryAfterPlusOneSuffices
  BY <1>1, <1>4 DEF Sliding!RetryAfterPlusOneSuffices
<1> QED
  BY <1>5, <1>6

-----------------------------------------------------------------------------
(* The limiter in use. *)

\* A token bucket that is not in use has decided and observed nothing.
Unused == ~exists /\ spent = 0 /\ high = 0 /\ since = 0 /\ promise = NoPromise

LimiterInv ==
  /\ limiter = "token" => TokenInv
  /\ limiter # "token" => Unused
  /\ limiter = "fixed" => FixedInv /\ FixedHonest
  /\ limiter = "sliding" => SlidingInv

LEMMA LimiterStart == LimiterInit => LimiterInv
<1> SUFFICES ASSUME LimiterInit PROVE LimiterInv
  OBVIOUS
<1>1. TokenInv
  BY TokenInit DEF LimiterInit
<1>2. FixedInv
  BY FixedInit DEF LimiterInit
<1>3. FixedHonest
  BY DEF LimiterInit, Fixed!Init, Fixed!NoPromise, FixedHonest
<1>4. Unused
  BY DEF LimiterInit, Init, Unused
<1>5. SlidingInv
  BY SlidingStart DEF LimiterInit
<1> QED
  BY <1>1, <1>2, <1>3, <1>4, <1>5 DEF LimiterInv

LEMMA LimiterStep == LimiterInv /\ [LimiterNext]_limiterVars => LimiterInv'
<1> SUFFICES ASSUME LimiterInv, [LimiterNext]_limiterVars PROVE LimiterInv'
  OBVIOUS
<1>1. CASE UseToken
  BY <1>1, TokenStep DEF UseToken, LimiterInv
<1>2. CASE UseFixed
  <2>1. FixedInv' /\ FixedHonest'
    BY <1>2, FixedStep, FixedHonestStep DEF UseFixed, LimiterInv
  <2>2. Unused' /\ limiter' = "fixed"
    BY <1>2 DEF UseFixed, LimiterInv, Unused, tokenVars
  <2> QED
    BY <2>1, <2>2 DEF LimiterInv
<1>3. CASE UseSliding
  <2>1. SlidingInv'
    BY <1>3, SlidingStep DEF UseSliding, LimiterInv
  <2>2. Unused' /\ limiter' = "sliding"
    BY <1>3 DEF UseSliding, LimiterInv, Unused, tokenVars
  <2> QED
    BY <2>1, <2>2 DEF LimiterInv
<1>4. CASE UNCHANGED limiterVars
  <2>1. UNCHANGED <<limiter, now, stepsBack, exists, tokens, lastRefill, since, high, spent, promise>>
    BY <1>4 DEF limiterVars, tokenVars
  <2>2. UNCHANGED Fixed!vars
    BY <1>4 DEF limiterVars, fixedVars, Fixed!vars
  <2>3. limiter = "fixed" => FixedInv' /\ FixedHonest'
    BY <2>2, FixedStep, FixedHonestStep DEF LimiterInv
  <2>4. TokenInv => TokenInv'
    BY <2>1 DEF TokenInv, TokenTypeOK, Conserved, Refills, Honest
  <2>5. Unused => Unused'
    BY <2>1 DEF Unused
  <2>6. UNCHANGED Sliding!vars
    BY <1>4 DEF limiterVars, slidingVars, Sliding!vars
  <2>7. limiter = "sliding" => SlidingInv'
    BY <2>6, SlidingStep DEF LimiterInv
  <2> QED
    BY <2>1, <2>3, <2>4, <2>5, <2>7 DEF LimiterInv
<1> QED
  BY <1>1, <1>2, <1>3, <1>4 DEF LimiterNext

LEMMA LimiterSafe == LimiterSpec => []LimiterInv
  BY LimiterStart, LimiterStep, PTL DEF LimiterSpec

\* The in-memory token bucket spends at most its capacity and one refill of
\* the span of time its clock has shown, however often the clock is set back.
THEOREM TokenQuota == LimiterSpec => []QuotaPerInterval
<1>1. Unused => QuotaPerInterval
  BY CapacityType, PolicyAssumption DEF Unused, QuotaPerInterval
<1>2. LimiterInv => QuotaPerInterval
  BY <1>1, ConservedBounds DEF LimiterInv
<1> QED
  BY <1>2, LimiterSafe, PTL

\* What the in-memory token bucket tells a client (remaining, retry_after_ms,
\* reset_at) is true, for every policy and whatever the clock's resolution, as
\* long as the clock was not set back.
THEOREM TokenPromises == LimiterSpec => []PromiseKept
<1>1. Unused => PromiseKept
  <2>1. 0 * Window = 0
    BY PolicyAssumption
  <2> QED
    BY <2>1, CapacityType DEF Unused, PromiseKept, NoPromise, refilledBucket
<1>2. LimiterInv => PromiseKept
  BY <1>1, HonestSuffices DEF LimiterInv
<1> QED
  BY <1>2, LimiterSafe, PTL

\* However often the wall clock is set back (windowFor truncates the time and
\* compares window starts), an aligned window approves at most the limit for
\* every visit of the clock.
THEOREM FixedQuota == LimiterSpec => []FixedQuotaPerVisit
<1>1. LimiterInv => FixedQuotaPerVisit
  BY DEF LimiterInv, FixedInv, FixedQuotaPerVisit
<1> QED
  BY <1>1, LimiterSafe, PTL

\* The rolling quota of the sliding log is exact for every policy: no window
\* approves more than the limit, and what the log counts against a client
\* after dropping expired requests is what the last window approved.
THEOREM SlidingQuota == LimiterSpec => []SlidingQuotaIsExact
<1>1. LimiterInv => SlidingQuotaIsExact
  BY SlidingExact DEF LimiterInv, SlidingQuotaIsExact
<1> QED
  BY <1>1, LimiterSafe, PTL

\* nextAvailability names the first instant at which a denied cost fits,
\* whatever requests the log holds and however their costs add up.
THEOREM SlidingAvailability == LimiterSpec => []SlidingAvailabilityIsExact
<1>1. LimiterInv => SlidingAvailabilityIsExact
  BY SlidingAvailable DEF LimiterInv, SlidingAvailabilityIsExact
<1> QED
  BY <1>1, LimiterSafe, PTL

\* retry_after_ms is cut to whole milliseconds by the fixed window and by the
\* sliding log; a millisecond later the denied cost fits.
THEOREM RetryAfterClose == LimiterSpec => []RetryAfterIsCloseEnough
<1>1. LimiterInv => RetryAfterIsCloseEnough
  BY FixedHonestSuffices, SlidingAvailable DEF LimiterInv, RetryAfterIsCloseEnough
<1> QED
  BY <1>1, LimiterSafe, PTL
=============================================================================

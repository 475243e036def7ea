------------------------ MODULE CircuitBreakerProofs ------------------------
(***************************************************************************)
(* The circuit breaker's safety properties, for any number of requests and *)
(* any configuration the constructor accepts.                              *)
(***************************************************************************)
EXTENDS CircuitBreaker, TLAPS

\* The inductive invariant that needs no assumption on the timeouts.
BreakerInv == TypeOK /\ ClosedBelowThreshold /\ NoLockout

\* Every call in flight while the circuit is open began before it opened.
CallsPrecedeOpening == state = "open" => \A r \in calling : age[r] >= sinceOpened

\* The strengthening that keeps the probe alone.
ProbeInv ==
  /\ BreakerInv
  /\ ProbeIsAlone
  /\ state # "halfOpen" => probes = {}
  /\ CallsPrecedeOpening

-----------------------------------------------------------------------------
LEMMA BreakerInit == Init => BreakerInv
<1> SUFFICES ASSUME Init PROVE BreakerInv
  OBVIOUS
<1> USE ThresholdAssumption, OpenTimeoutAssumption, CallTimeAssumption DEF Init
<1>1. BreakerTypeOK
  <2>1. probeRunning \in BOOLEAN
    OBVIOUS
  <2>2. sinceOpened \in 0..OpenTimeout /\ failures \in Nat
    OBVIOUS
  <2> QED
    BY <2>1, <2>2 DEF BreakerTypeOK
<1>2. CallsTypeOK
  BY DEF CallsTypeOK
<1>3. ClosedBelowThreshold /\ NoLockout
  BY DEF ClosedBelowThreshold, NoLockout
<1> QED
  BY <1>1, <1>2, <1>3 DEF BreakerInv, TypeOK

\* No step breaks the types: the calls in flight stay within their deadline.
LEMMA CallsTypeStep == TypeOK /\ [Next]_vars => CallsTypeOK'
<1> SUFFICES ASSUME TypeOK, [Next]_vars PROVE CallsTypeOK'
  OBVIOUS
<1> USE CallTimeAssumption DEF TypeOK, CallsTypeOK
<1>1. ASSUME NEW r \in Requests, StartClosed(r) PROVE CallsTypeOK'
  BY <1>1 DEF StartClosed, Admit, BreakerTypeOK
<1>2. ASSUME NEW r \in Requests, StartProbe(r) PROVE CallsTypeOK'
  BY <1>2 DEF StartProbe, Admit, calls, BreakerTypeOK
<1>3. ASSUME NEW r \in Requests, AllowReturns(r) PROVE CallsTypeOK'
  BY <1>3 DEF AllowReturns, Success, Failure, RequestError, Return
<1>4. CASE Tick
  BY <1>4 DEF Tick
<1>5. CASE RedisChange
  BY <1>5 DEF RedisChange, BreakerTypeOK
<1>6. CASE UNCHANGED vars
  BY <1>6 DEF vars, calls
<1> QED
  BY <1>1, <1>2, <1>3, <1>4, <1>5, <1>6 DEF Next, startRequest

\* The fields of the circuit: each record function keeps the counter and the
\* flag in step with the state it assigns, whatever the state it finds.
LEMMA BreakerStep == BreakerInv /\ [Next]_vars => BreakerInv'
<1> SUFFICES ASSUME BreakerInv, [Next]_vars PROVE BreakerInv'
  OBVIOUS
<1> DEFINE Counters == /\ failures \in Nat /\ sinceOpened \in 0..OpenTimeout
                       /\ ClosedBelowThreshold
           Flags == /\ state \in {"closed", "open", "halfOpen"}
                    /\ probeRunning \in BOOLEAN /\ redis \in {"up", "down"}
                    /\ NoLockout
<1>a. CallsTypeOK'
  BY CallsTypeStep DEF BreakerInv
<1>b. Counters'
  <2> USE ThresholdAssumption, OpenTimeoutAssumption
          DEF BreakerInv, TypeOK, BreakerTypeOK, ClosedBelowThreshold
  <2>1. ASSUME NEW r \in Requests, StartClosed(r) PROVE Counters'
    BY <2>1 DEF StartClosed, Admit
  <2>2. ASSUME NEW r \in Requests, StartProbe(r) PROVE Counters'
    BY <2>2 DEF StartProbe, Admit, OpenElapsed, calls
  <2>3. ASSUME NEW r \in Requests, Success(r) PROVE Counters'
    BY <2>3 DEF Success, recordSuccess, Return
  <2>4. ASSUME NEW r \in Requests, Failure(r) PROVE Counters'
    BY <2>4 DEF Failure, recordFailure, open, Return
  <2>5. ASSUME NEW r \in Requests, RequestError(r) PROVE Counters'
    BY <2>5 DEF RequestError, cancelProbe, Return
  <2>6. CASE Tick
    BY <2>6 DEF Tick, OpenElapsed
  <2>7. CASE RedisChange
    BY <2>7 DEF RedisChange, breaker
  <2>8. CASE UNCHANGED vars
    BY <2>8 DEF vars, breaker, calls
  <2> QED
    BY <2>1, <2>2, <2>3, <2>4, <2>5, <2>6, <2>7, <2>8
    DEF Next, startRequest, AllowReturns
<1>c. Flags'
  <2> USE DEF BreakerInv, TypeOK, BreakerTypeOK, NoLockout
  <2>1. ASSUME NEW r \in Requests, StartClosed(r) PROVE Flags'
    BY <2>1 DEF StartClosed, Admit
  <2>2. ASSUME NEW r \in Requests, StartProbe(r) PROVE Flags'
    BY <2>2 DEF StartProbe, Admit, calls
  <2>3. ASSUME NEW r \in Requests, Success(r) PROVE Flags'
    BY <2>3 DEF Success, recordSuccess, Return
  <2>4. ASSUME NEW r \in Requests, Failure(r) PROVE Flags'
    BY <2>4 DEF Failure, recordFailure, open, Return
  <2>5. ASSUME NEW r \in Requests, RequestError(r) PROVE Flags'
    BY <2>5 DEF RequestError, cancelProbe, Return
  <2>6. CASE Tick
    BY <2>6 DEF Tick
  <2>7. CASE RedisChange
    BY <2>7 DEF RedisChange, breaker
  <2>8. CASE UNCHANGED vars
    BY <2>8 DEF vars, breaker, calls
  <2> QED
    BY <2>1, <2>2, <2>3, <2>4, <2>5, <2>6, <2>7, <2>8
    DEF Next, startRequest, AllowReturns
<1> QED
  BY <1>a, <1>b, <1>c DEF BreakerInv, TypeOK, BreakerTypeOK

\* Whatever the order in which overlapping calls record their outcomes, the
\* circuit's fields stay in range, the failure counter agrees with the state
\* and a half-open circuit has a probe in flight that will decide it.
THEOREM BreakerSafety == Spec => [](TypeOK /\ ClosedBelowThreshold /\ NoLockout)
<1>1. Spec => []BreakerInv
  BY BreakerInit, BreakerStep, PTL DEF Spec
<1>2. BreakerInv => TypeOK /\ ClosedBelowThreshold /\ NoLockout
  BY DEF BreakerInv
<1> QED
  BY <1>1, <1>2, PTL

\* The fields of the circuit and the calls in flight stay in their types.
THEOREM BreakerTypeCorrect == Spec => []TypeOK
  BY BreakerSafety, PTL

\* The circuit is closed exactly while fewer than FailureThreshold failures
\* follow the last success, although overlapping calls record in any order.
THEOREM ThresholdOpens == Spec => []ClosedBelowThreshold
  BY BreakerSafety, PTL

-----------------------------------------------------------------------------
\* Shorter calls than the open interval: a call in flight when the interval
\* ends would be older than any call may be, so the probe starts alone; and
\* since it is alone, only its own outcome takes the circuit out of half-open.
LEMMA ProbeStep ==
  ASSUME MaxCallTime < OpenTimeout
  PROVE  ProbeInv /\ [Next]_vars => ProbeInv'
<1> SUFFICES ASSUME ProbeInv, [Next]_vars PROVE ProbeInv'
  OBVIOUS
<1> DEFINE NoStrayProbe == state # "halfOpen" => probes = {}
           Alone == ProbeIsAlone /\ NoStrayProbe /\ CallsPrecedeOpening
<1>a. BreakerInv'
  BY BreakerStep DEF ProbeInv
<1>b. Alone'
  <2> USE OpenTimeoutAssumption, CallTimeAssumption
          DEF ProbeInv, BreakerInv, TypeOK, BreakerTypeOK, CallsTypeOK,
              ProbeIsAlone, CallsPrecedeOpening
  <2>1. ASSUME NEW r \in Requests, StartClosed(r) PROVE Alone'
    BY <2>1 DEF StartClosed, Admit
  <2>2. ASSUME NEW r \in Requests, StartProbe(r) PROVE Alone'
    <3>1. CASE state = "halfOpen"
      BY <2>2, <3>1 DEF StartProbe, calls, NoLockout
    <3>2. CASE state = "open"
      <4>1. calling = {}
        BY <2>2, <3>2 DEF StartProbe, OpenElapsed
      <4>2. ~probeRunning /\ probes = {}
        BY <3>2 DEF NoLockout
      <4> QED
        BY <2>2, <4>1, <4>2 DEF StartProbe, Admit
    <3> QED
      BY <2>2, <3>1, <3>2 DEF StartProbe
  <2>3. ASSUME NEW r \in Requests, Success(r) PROVE Alone'
    BY <2>3 DEF Success, recordSuccess, Return
  <2>4. ASSUME NEW r \in Requests, Failure(r) PROVE Alone'
    BY <2>4 DEF Failure, recordFailure, open, Return
  <2>5. ASSUME NEW r \in Requests, RequestError(r) PROVE Alone'
    BY <2>5 DEF RequestError, cancelProbe, Return
  <2>6. CASE Tick
    BY <2>6 DEF Tick, OpenElapsed
  <2>7. CASE RedisChange
    BY <2>7 DEF RedisChange, breaker
  <2>8. CASE UNCHANGED vars
    BY <2>8 DEF vars, breaker, calls
  <2> QED
    BY <2>1, <2>2, <2>3, <2>4, <2>5, <2>6, <2>7, <2>8
    DEF Next, startRequest, AllowReturns
<1> QED
  BY <1>a, <1>b DEF ProbeInv

\* When the bound on a call is below OpenTimeout, as in the default
\* configuration (300 ms and 5 s), the recovery probe is the only call in
\* flight while the circuit is half-open.
THEOREM ProbeAlone ==
  ASSUME MaxCallTime < OpenTimeout
  PROVE  Spec => []ProbeIsAlone
<1>1. Init => ProbeInv
  BY BreakerInit DEF Init, ProbeInv, ProbeIsAlone, CallsPrecedeOpening
<1>2. ProbeInv /\ [Next]_vars => ProbeInv'
  BY ProbeStep
<1>3. ProbeInv => ProbeIsAlone
  BY DEF ProbeInv
<1> QED
  BY <1>1, <1>2, <1>3, PTL DEF Spec
=============================================================================

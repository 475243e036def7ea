------------------------- MODULE CheckServiceProofs -------------------------
(***************************************************************************)
(* The handler, the breaker and the script together, for any number of     *)
(* requests and any configuration: the handler drives the breaker only as  *)
(* CircuitBreaker allows, so what is proved of it carries over; a 200 is   *)
(* backed by an approval event; without an outage nothing looks like one.  *)
(***************************************************************************)
EXTENDS CheckService, FiniteSetTheorems, TLAPS

\* The theorems about the breaker.
Proved == INSTANCE CircuitBreakerProofs

\* What a call in flight, and a script that nobody waits for, leave open.
CallsInOrder ==
  \A r \in Requests :
    /\ r \in calling => outcome[r] = "none"
    /\ wire[r] = "sent" => verdict[r] = "none" /\ outcome[r] # "backlog_full"
    /\ r \in calling /\ request[r] # "check" => verdict[r] = "none" /\ wire[r] = "idle"

\* As long as Redis answers, no call has met an outage, and a script is on the
\* wire only while its client waits, unless that client went away.
Undisturbed ==
  ~outage =>
    /\ redis = "up"
    /\ \A r \in calling : seen[r] = {"up"}
    /\ ~hangups => \A r \in Requests : wire[r] = "sent" => r \in calling

QuietInv == CallsInOrder /\ Undisturbed /\ NoFalseAlarm
GrantInv == IsFiniteSet(calling) /\ GrantsAreBacked

-----------------------------------------------------------------------------
\* Every step of the service is a step of the breaker or leaves it alone.
LEMMA BreakerMoves == [Next]_vars => [Breaker!Next]_breakerVars
<1> SUFFICES ASSUME [Next]_vars PROVE [Breaker!Next]_breakerVars
  OBVIOUS
<1>1. ASSUME NEW r \in Requests, NEW asks \in Asked, Check(r, asks) PROVE Breaker!Next
  BY <1>1 DEF Check, Breaker!Next
<1>2. ASSUME NEW r \in Requests, Return(r) \/ Hangup(r) \/ HangupUnwritten(r) PROVE Breaker!Next
  <2>1. Breaker!AllowReturns(r)
    BY <1>2 DEF Return, ReturnAllowed, ReturnDenied, ReturnFull, ReturnUnavailable,
                ReturnRequestError, Hangup, HangupUnwritten, Breaker!AllowReturns
  <2> QED
    BY <2>1 DEF Breaker!Next
<1>3. CASE Tick \/ RedisChange
  BY <1>3 DEF Tick, RedisChange, Breaker!Next
<1>4. ASSUME NEW r \in Requests, BadPayload(r) \/ Refused(r) \/ Execute(r) \/ Lose(r)
      PROVE  UNCHANGED breakerVars
  BY <1>4 DEF BadPayload, Refused, Execute, Lose
<1>5. CASE Refill \/ Drain \/ UNCHANGED vars
  BY <1>5 DEF Refill, Drain, vars
<1> QED
  BY <1>1, <1>2, <1>3, <1>4, <1>5 DEF Next

\* The two instances of the breaker are one.
LEMMA SameBreaker ==
  /\ Breaker!Init => Proved!Init
  /\ [Breaker!Next]_breakerVars => [Proved!Next]_(Proved!vars)
  /\ Proved!TypeOK => Breaker!TypeOK
<1>1. Breaker!Init => Proved!Init
  BY DEF Breaker!Init, Proved!Init
<1>2. [Breaker!Next]_breakerVars => [Proved!Next]_(Proved!vars)
  BY DEF breakerVars, Proved!vars, Proved!breaker, Proved!calls, Breaker!breaker, Breaker!calls,
         Breaker!Next, Breaker!startRequest, Breaker!StartClosed, Breaker!StartProbe, Breaker!Admit,
         Breaker!AllowReturns, Breaker!Success, Breaker!Failure, Breaker!RequestError, Breaker!Return,
         Breaker!recordSuccess, Breaker!recordFailure, Breaker!cancelProbe, Breaker!open,
         Breaker!OpenElapsed, Breaker!Tick, Breaker!RedisChange,
         Proved!Next, Proved!startRequest, Proved!StartClosed, Proved!StartProbe, Proved!Admit,
         Proved!AllowReturns, Proved!Success, Proved!Failure, Proved!RequestError, Proved!Return,
         Proved!recordSuccess, Proved!recordFailure, Proved!cancelProbe, Proved!open,
         Proved!OpenElapsed, Proved!Tick, Proved!RedisChange
<1>3. Proved!TypeOK => Breaker!TypeOK
  BY DEF Proved!TypeOK, Proved!BreakerTypeOK, Proved!CallsTypeOK,
         Breaker!TypeOK, Breaker!BreakerTypeOK, Breaker!CallsTypeOK
<1> QED
  BY <1>1, <1>2, <1>3

\* The handler, whatever it is asked and whatever is lost, drives the breaker
\* as CircuitBreaker describes: the breaker's theorems hold of the service.
THEOREM CheckRefinesBreaker == Spec => Breaker!Spec
<1>1. Init => Breaker!Init
  BY DEF Init
<1>2. [Breaker!Next]_breakerVars => [Breaker!Next]_(Breaker!vars)
  BY DEF breakerVars, Breaker!vars, Breaker!breaker, Breaker!calls
<1> QED
  BY <1>1, <1>2, BreakerMoves, PTL DEF Spec, Breaker!Spec

LEMMA BreakerTyped == Spec => []Breaker!TypeOK
<1>1. Init => Proved!Init
  BY SameBreaker DEF Init
<1>2. [Next]_vars => [Proved!Next]_(Proved!vars)
  BY BreakerMoves, SameBreaker
<1>3. Proved!Spec => [](Proved!TypeOK)
  BY Proved!BreakerSafety, BreakerAssumption, PTL
<1>4. Proved!TypeOK => Breaker!TypeOK
  BY SameBreaker
<1> QED
  BY <1>1, <1>2, <1>3, <1>4, PTL DEF Spec, Proved!Spec

-----------------------------------------------------------------------------
LEMMA ServiceTypeInit == Init => RequestsTypeOK /\ CountersTypeOK /\ FlagsTypeOK
<1> SUFFICES ASSUME Init PROVE RequestsTypeOK /\ CountersTypeOK /\ FlagsTypeOK
  OBVIOUS
<1>1. RequestsTypeOK
  BY DEF Init, RequestsTypeOK, Asked
<1>2. CountersTypeOK
  BY LimitAssumption, RefillsAssumption DEF Init, CountersTypeOK
<1>3. FlagsTypeOK
  BY Zenon DEF Init, FlagsTypeOK
<1> QED
  BY <1>1, <1>2, <1>3

\* What every answer of the handler does.
LEMMA Answers ==
  ASSUME NEW r \in Requests, RequestsTypeOK, Return(r) \/ Hangup(r) \/ HangupUnwritten(r)
  PROVE  /\ \E o \in Outcomes : Finish(r, o)
         /\ granted' \in {granted, granted + 1}
         /\ hangups' = hangups \/ hangups' = TRUE
  BY DEF Return, ReturnAllowed, ReturnDenied, ReturnFull, ReturnUnavailable,
         ReturnRequestError, Hangup, HangupUnwritten, RequestsTypeOK, Asked, Outcomes

LEMMA RequestsTypeStep == RequestsTypeOK /\ [Next]_vars => RequestsTypeOK'
<1> SUFFICES ASSUME RequestsTypeOK, [Next]_vars PROVE RequestsTypeOK'
  OBVIOUS
<1> USE DEF RequestsTypeOK, Asked, Outcomes
<1>1. ASSUME NEW r \in Requests, BadPayload(r) \/ Refused(r) PROVE RequestsTypeOK'
  BY <1>1 DEF BadPayload, Refused, Begin, AnswerAtOnce
<1>2. ASSUME NEW r \in Requests, NEW asks \in Asked, Check(r, asks) PROVE RequestsTypeOK'
  BY <1>2 DEF Check, Begin, AnswerAtOnce
<1>3. ASSUME NEW r \in Requests, Execute(r) PROVE RequestsTypeOK'
  BY <1>3 DEF Execute, Decide
<1>4. ASSUME NEW r \in Requests, Lose(r) PROVE RequestsTypeOK'
  BY <1>4 DEF Lose
<1>5. ASSUME NEW r \in Requests, Return(r) \/ Hangup(r) \/ HangupUnwritten(r) PROVE RequestsTypeOK'
  <2>1. PICK o \in Outcomes : Finish(r, o)
    BY <1>5, Answers
  <2> QED
    BY <2>1 DEF Finish
<1>6. CASE Refill \/ Drain \/ Tick \/ RedisChange
  BY <1>6 DEF Refill, Drain, Tick, RedisChange
<1>7. CASE UNCHANGED vars
  BY <1>7 DEF vars
<1> QED
  BY <1>1, <1>2, <1>3, <1>4, <1>5, <1>6, <1>7 DEF Next

LEMMA CountersTypeStep == RequestsTypeOK /\ CountersTypeOK /\ [Next]_vars => CountersTypeOK'
<1> SUFFICES ASSUME RequestsTypeOK, CountersTypeOK, [Next]_vars PROVE CountersTypeOK'
  OBVIOUS
<1> USE LimitAssumption, RefillsAssumption DEF CountersTypeOK, redisVars, observers
<1>1. ASSUME NEW r \in Requests, BadPayload(r) \/ Refused(r) PROVE CountersTypeOK'
  BY <1>1 DEF BadPayload, Refused, Begin
<1>2. ASSUME NEW r \in Requests, NEW asks \in Asked, Check(r, asks) PROVE CountersTypeOK'
  BY <1>2 DEF Check, Begin
<1>3. ASSUME NEW r \in Requests, Execute(r) PROVE CountersTypeOK'
  <2>1. PICK decision \in {"allowed", "denied", "full"} : Decide(r, decision)
    BY <1>3 DEF Execute
  <2>2. UNCHANGED <<refills, granted>>
    BY <1>3 DEF Execute
  <2>3. CASE decision = "allowed"
    BY <2>1, <2>2, <2>3 DEF Decide
  <2>4. CASE decision # "allowed"
    BY <2>1, <2>2, <2>4 DEF Decide
  <2> QED
    BY <2>3, <2>4
<1>4. ASSUME NEW r \in Requests, Lose(r) PROVE CountersTypeOK'
  BY <1>4 DEF Lose
<1>5. ASSUME NEW r \in Requests, Return(r) \/ Hangup(r) \/ HangupUnwritten(r) PROVE CountersTypeOK'
  <2>1. /\ \E o \in Outcomes : Finish(r, o)
        /\ granted' \in {granted, granted + 1}
    BY <1>5, Answers
  <2>2. UNCHANGED <<tokens, backlog, refills, approvals>>
    BY <2>1 DEF Finish
  <2> QED
    BY <2>1, <2>2
<1>6. CASE Refill
  BY <1>6 DEF Refill
<1>7. CASE Drain
  BY <1>7 DEF Drain
<1>8. CASE Tick \/ RedisChange
  BY <1>8 DEF Tick, RedisChange
<1>9. CASE UNCHANGED vars
  BY <1>9 DEF vars
<1> QED
  BY <1>1, <1>2, <1>3, <1>4, <1>5, <1>6, <1>7, <1>8, <1>9 DEF Next

LEMMA FlagsTypeStep == RequestsTypeOK /\ FlagsTypeOK /\ [Next]_vars => FlagsTypeOK'
<1> SUFFICES ASSUME RequestsTypeOK, FlagsTypeOK, [Next]_vars PROVE FlagsTypeOK'
  OBVIOUS
<1> USE DEF FlagsTypeOK, observers
<1>1. ASSUME NEW r \in Requests, BadPayload(r) \/ Refused(r) PROVE FlagsTypeOK'
  BY <1>1 DEF BadPayload, Refused, Begin
<1>2. ASSUME NEW r \in Requests, NEW asks \in Asked, Check(r, asks) PROVE FlagsTypeOK'
  BY <1>2 DEF Check, Begin
<1>3. ASSUME NEW r \in Requests, Execute(r) \/ Lose(r) PROVE FlagsTypeOK'
  BY <1>3 DEF Execute, Lose
<1>4. ASSUME NEW r \in Requests, Return(r) \/ Hangup(r) \/ HangupUnwritten(r) PROVE FlagsTypeOK'
  <2>1. outage' = outage /\ (hangups' = hangups \/ hangups' = TRUE)
    BY <1>4, Answers DEF Finish
  <2> QED
    BY <2>1, Zenon
<1>5. CASE Refill \/ Drain \/ Tick
  BY <1>5 DEF Refill, Drain, Tick
<1>6. CASE RedisChange
  BY <1>6, Zenon DEF RedisChange
<1>7. CASE UNCHANGED vars
  BY <1>7 DEF vars
<1> QED
  BY <1>1, <1>2, <1>3, <1>4, <1>5, <1>6, <1>7 DEF Next

\* The token counter and the stream stay within their limits and the breaker's
\* fields in range, although scripts run late and replies are lost.
THEOREM ServiceTypeCorrect == Spec => []TypeOK
  BY BreakerTyped, ServiceTypeInit, RequestsTypeStep, CountersTypeStep, FlagsTypeStep, PTL
  DEF Spec, TypeOK

-----------------------------------------------------------------------------
\* A request is admitted by the breaker or refused by it.
LEMMA Admission ==
  ASSUME Breaker!TypeOK, NEW r \in Requests, Breaker!startRequest(r)
  PROVE  /\ r \notin calling
         /\ calling' = calling \/ calling' = calling \cup {r}
         /\ \A q \in calling : seen'[q] = seen[q]
         /\ r \in calling' => seen'[r] = {redis}
         /\ redis' = redis
  BY DEF Breaker!startRequest, Breaker!StartClosed, Breaker!StartProbe, Breaker!Admit, Breaker!calls,
         Breaker!TypeOK, Breaker!CallsTypeOK

\* How an answer, the script's verdict and the call's fate belong together.
AnswerFits(r, o) ==
  /\ Finish(r, o)
  /\ o = "backlog_full" => wire[r] = "replied" /\ verdict[r] = "full"
  /\ o = "dependency_unavailable" => "down" \in seen[r]
  /\ o # "dependency_unavailable" => Breaker!recordSuccess \/ Breaker!cancelProbe
  /\ IF o = "internal_error" THEN hangups' = TRUE ELSE hangups' = hangups
  /\ IF o = "allowed"
     THEN wire[r] = "replied" /\ verdict[r] = "allowed" /\ granted' = granted + 1
     ELSE granted' = granted
  /\ o \in {"allowed", "dependency_unavailable", "internal_error"} \/ verdict[r] # "allowed"
  /\ o \in {"dependency_unavailable", "internal_error"} \/ wire[r] # "sent"

LEMMA AnswersFit ==
  ASSUME NEW r \in Requests, RequestsTypeOK, CallsInOrder,
         Return(r) \/ Hangup(r) \/ HangupUnwritten(r)
  PROVE  /\ Breaker!Return(r)
         /\ \E o \in Outcomes : AnswerFits(r, o)
<1> USE DEF AnswerFits, Outcomes
<1>1. CASE ReturnAllowed(r)
  <2>1. Breaker!Return(r) /\ AnswerFits(r, "allowed")
    BY <1>1 DEF ReturnAllowed, Breaker!Success
  <2> QED
    BY <2>1
<1>2. CASE ReturnDenied(r)
  <2>1. Breaker!Return(r) /\ AnswerFits(r, "quota_rejected")
    BY <1>2 DEF ReturnDenied, Breaker!Success
  <2> QED
    BY <2>1
<1>3. CASE ReturnFull(r)
  <2>1. Breaker!Return(r) /\ AnswerFits(r, "backlog_full")
    BY <1>3 DEF ReturnFull, Breaker!RequestError
  <2> QED
    BY <2>1
<1>4. CASE ReturnUnavailable(r)
  <2>1. Breaker!Return(r) /\ AnswerFits(r, "dependency_unavailable")
    BY <1>4 DEF ReturnUnavailable, Breaker!Failure
  <2> QED
    BY <2>1
<1>5. CASE ReturnRequestError(r)
  <2>1. request[r] \in {"invalid_request", "unknown_policy"}
    BY <1>5 DEF ReturnRequestError, RequestsTypeOK, Asked
  <2>2. r \in calling /\ wire[r] = "idle" /\ verdict[r] = "none"
    BY <1>5, <2>1 DEF ReturnRequestError, Breaker!RequestError, Breaker!Return, CallsInOrder
  <2>3. Breaker!Return(r) /\ AnswerFits(r, request[r])
    BY <1>5, <2>1, <2>2 DEF ReturnRequestError, Breaker!RequestError
  <2> QED
    BY <2>1, <2>3
<1>6. CASE Hangup(r)
  <2>1. Breaker!Return(r) /\ AnswerFits(r, "internal_error")
    BY <1>6 DEF Hangup, Breaker!RequestError
  <2> QED
    BY <2>1
<1>7. CASE HangupUnwritten(r)
  <2>1. Breaker!Return(r) /\ AnswerFits(r, "internal_error")
    BY <1>7 DEF HangupUnwritten, Breaker!Success
  <2> QED
    BY <2>1
<1> QED
  BY <1>1, <1>2, <1>3, <1>4, <1>5, <1>6, <1>7 DEF Return

LEMMA CallsStep == TypeOK /\ CallsInOrder /\ [Next]_vars => CallsInOrder'
<1> SUFFICES ASSUME TypeOK, CallsInOrder, [Next]_vars PROVE CallsInOrder'
  OBVIOUS
<1> USE DEF CallsInOrder
<1>1. ASSUME NEW r \in Requests, BadPayload(r) \/ Refused(r) PROVE CallsInOrder'
  BY <1>1 DEF BadPayload, Refused, Begin, AnswerAtOnce, breakerVars, TypeOK, RequestsTypeOK
<1>2. ASSUME NEW r \in Requests, NEW asks \in Asked, Check(r, asks) PROVE CallsInOrder'
  <2>1. r \notin calling /\ (calling' = calling \/ calling' = calling \cup {r})
    BY <1>2, Admission DEF Check, TypeOK
  <2> QED
    BY <1>2, <2>1 DEF Check, Begin, AnswerAtOnce, TypeOK, RequestsTypeOK
<1>3. ASSUME NEW r \in Requests, Execute(r) PROVE CallsInOrder'
  BY <1>3 DEF Execute, Decide, breakerVars, TypeOK, RequestsTypeOK
<1>4. ASSUME NEW r \in Requests, Lose(r) PROVE CallsInOrder'
  BY <1>4 DEF Lose, breakerVars, TypeOK, RequestsTypeOK
<1>5. ASSUME NEW r \in Requests, Return(r) \/ Hangup(r) \/ HangupUnwritten(r) PROVE CallsInOrder'
  <2>1. PICK o \in Outcomes : AnswerFits(r, o)
    BY <1>5, AnswersFit DEF TypeOK
  <2>2. calling' = calling \ {r}
    BY <1>5, AnswersFit DEF TypeOK, Breaker!Return
  <2> QED
    BY <2>1, <2>2 DEF AnswerFits, Finish, TypeOK, RequestsTypeOK
<1>6. CASE Refill \/ Drain
  BY <1>6 DEF Refill, Drain, breakerVars
<1>7. CASE Tick \/ RedisChange
  BY <1>7 DEF Tick, RedisChange, Breaker!Tick, Breaker!RedisChange
<1>8. CASE UNCHANGED vars
  BY <1>8 DEF vars, breakerVars
<1> QED
  BY <1>1, <1>2, <1>3, <1>4, <1>5, <1>6, <1>7, <1>8 DEF Next

LEMMA UndisturbedStep ==
  TypeOK /\ CallsInOrder /\ Undisturbed /\ [Next]_vars => Undisturbed'
<1> SUFFICES ASSUME TypeOK, CallsInOrder, Undisturbed, [Next]_vars, ~outage' PROVE Undisturbed'
  BY DEF Undisturbed
<1> USE DEF Undisturbed, observers
<1>1. ASSUME NEW r \in Requests, BadPayload(r) \/ Refused(r) PROVE Undisturbed'
  BY <1>1 DEF BadPayload, Refused, Begin, AnswerAtOnce, breakerVars, TypeOK, RequestsTypeOK
<1>2. ASSUME NEW r \in Requests, NEW asks \in Asked, Check(r, asks) PROVE Undisturbed'
  <2>1. /\ r \notin calling /\ (calling' = calling \/ calling' = calling \cup {r})
        /\ \A q \in calling : seen'[q] = seen[q]
        /\ r \in calling' => seen'[r] = {redis}
        /\ redis' = redis
    BY <1>2, Admission DEF Check, TypeOK
  <2>2. ~outage /\ hangups' = hangups
    BY <1>2 DEF Check, Begin
  <2>3. \A q \in Requests : wire'[q] = "sent" => q \in calling' \/ wire[q] = "sent"
    BY <1>2, <2>1 DEF Check, AnswerAtOnce, TypeOK, RequestsTypeOK
  <2> QED
    BY <2>1, <2>2, <2>3
<1>3. ASSUME NEW r \in Requests, Execute(r) \/ Lose(r) PROVE Undisturbed'
  BY <1>3 DEF Execute, Lose, breakerVars, TypeOK, RequestsTypeOK
<1>4. ASSUME NEW r \in Requests, Return(r) \/ Hangup(r) \/ HangupUnwritten(r) PROVE Undisturbed'
  <2>1. PICK o \in Outcomes : AnswerFits(r, o)
    BY <1>4, AnswersFit DEF TypeOK
  <2>2. /\ r \in calling /\ calling' = calling \ {r} /\ redis' = redis
        /\ \A q \in calling \ {r} : seen'[q] = seen[q]
    BY <1>4, AnswersFit DEF TypeOK, Breaker!Return, Breaker!TypeOK, Breaker!CallsTypeOK
  <2>3. ~outage /\ o # "dependency_unavailable"
    BY <2>1, <2>2 DEF AnswerFits, Finish
  <2>4. ~hangups' => ~hangups /\ wire[r] # "sent"
    BY <2>1, <2>3 DEF AnswerFits
  <2>5. \A q \in Requests : wire'[q] = "sent" => wire[q] = "sent"
    BY <2>1 DEF AnswerFits, Finish, TypeOK, RequestsTypeOK
  <2> QED
    BY <2>2, <2>3, <2>4, <2>5
<1>5. CASE Refill \/ Drain
  BY <1>5 DEF Refill, Drain, breakerVars
<1>6. CASE Tick
  BY <1>6 DEF Tick, Breaker!Tick
<1>7. CASE RedisChange
  BY <1>7 DEF RedisChange
<1>8. CASE UNCHANGED vars
  BY <1>8 DEF vars, breakerVars
<1> QED
  BY <1>1, <1>2, <1>3, <1>4, <1>5, <1>6, <1>7, <1>8 DEF Next

LEMMA NoFalseAlarmStep ==
  TypeOK /\ QuietInv /\ [Next]_vars => NoFalseAlarm'
<1> SUFFICES ASSUME TypeOK, CallsInOrder, Undisturbed, NoFalseAlarm, [Next]_vars, ~outage'
             PROVE  NoFalseAlarm'
  BY DEF QuietInv, NoFalseAlarm
<1> USE DEF NoFalseAlarm, observers
<1>1. ASSUME NEW r \in Requests, BadPayload(r) \/ Refused(r) PROVE NoFalseAlarm'
  BY <1>1 DEF BadPayload, Refused, Begin, AnswerAtOnce, breakerVars, TypeOK, RequestsTypeOK
<1>2. ASSUME NEW r \in Requests, NEW asks \in Asked, Check(r, asks) PROVE NoFalseAlarm'
  <2>1. ~outage /\ state = "closed" /\ hangups' = hangups
    BY <1>2 DEF Check, Begin
  <2>2. Breaker!StartClosed(r)
    BY <1>2, <2>1 DEF Check, Breaker!startRequest, Breaker!StartProbe
  <2>3. state' = state /\ failures' = failures /\ r \in calling'
    BY <2>2 DEF Breaker!StartClosed, Breaker!Admit
  <2> QED
    BY <1>2, <2>1, <2>3 DEF Check, Begin, TypeOK, RequestsTypeOK
<1>3. ASSUME NEW r \in Requests, Execute(r) PROVE NoFalseAlarm'
  BY <1>3 DEF Execute, Decide, breakerVars, TypeOK, RequestsTypeOK, CallsInOrder
<1>4. ASSUME NEW r \in Requests, Lose(r) PROVE NoFalseAlarm'
  BY <1>4 DEF Lose, breakerVars
<1>5. ASSUME NEW r \in Requests, Return(r) \/ Hangup(r) \/ HangupUnwritten(r) PROVE NoFalseAlarm'
  <2>1. PICK o \in Outcomes : AnswerFits(r, o)
    BY <1>5, AnswersFit DEF TypeOK
  <2>2. r \in calling
    BY <1>5, AnswersFit DEF TypeOK, Breaker!Return
  <2>3. ~outage /\ o # "dependency_unavailable"
    BY <2>1, <2>2 DEF AnswerFits, Finish, Undisturbed
  <2>4. state' = "closed" /\ failures' = 0
    BY <2>1, <2>3 DEF AnswerFits, Breaker!recordSuccess, Breaker!cancelProbe
  <2>5. hangups => hangups'
    BY <2>1 DEF AnswerFits
  <2>6. ASSUME NEW q \in Requests
        PROVE  /\ outcome'[q] # "dependency_unavailable"
               /\ outcome'[q] = "backlog_full" => verdict'[q] = "full"
               /\ outcome'[q] = "internal_error" => hangups'
    BY <2>1, <2>3, <2>5 DEF AnswerFits, Finish, TypeOK, RequestsTypeOK
  <2> QED
    BY <2>4, <2>6
<1>6. CASE Refill \/ Drain
  BY <1>6 DEF Refill, Drain, breakerVars
<1>7. CASE Tick
  BY <1>7 DEF Tick, Breaker!Tick
<1>8. CASE RedisChange
  BY <1>8 DEF RedisChange
<1>9. CASE UNCHANGED vars
  BY <1>9 DEF vars, breakerVars
<1> QED
  BY <1>1, <1>2, <1>3, <1>4, <1>5, <1>6, <1>7, <1>8, <1>9 DEF Next

LEMMA QuietAlways == Spec => []QuietInv
<1>1. Init => QuietInv
  BY DEF Init, Breaker!Init, QuietInv, CallsInOrder, Undisturbed, NoFalseAlarm
<1>2. TypeOK /\ QuietInv /\ [Next]_vars => QuietInv'
  BY CallsStep, UndisturbedStep, NoFalseAlarmStep DEF QuietInv
<1> QED
  BY <1>1, <1>2, ServiceTypeCorrect, PTL DEF Spec

\* As long as Redis answers, no sequence of rejections, full backlogs, request
\* errors and hang-ups, however they overlap, moves the breaker or is counted
\* under an outcome that blames the dependency.
THEOREM NoFalseAlarms == Spec => []NoFalseAlarm
<1>1. QuietInv => NoFalseAlarm
  BY DEF QuietInv
<1> QED
  BY <1>1, QuietAlways, PTL

-----------------------------------------------------------------------------
LEMMA FiniteStep == TypeOK /\ IsFiniteSet(calling) /\ [Next]_vars => IsFiniteSet(calling')
<1> SUFFICES ASSUME TypeOK, IsFiniteSet(calling), [Next]_vars PROVE IsFiniteSet(calling')
  OBVIOUS
<1>1. [Breaker!Next]_breakerVars
  BY BreakerMoves
<1>2. \/ calling' = calling
      \/ \E r \in Requests : calling' = calling \cup {r} \/ calling' = calling \ {r}
  BY <1>1 DEF breakerVars, Breaker!Next, Breaker!startRequest, Breaker!StartClosed, Breaker!StartProbe,
              Breaker!Admit, Breaker!calls, Breaker!AllowReturns, Breaker!Success, Breaker!Failure,
              Breaker!RequestError, Breaker!Return, Breaker!Tick, Breaker!RedisChange
<1> QED
  BY <1>2, FS_AddElement, FS_RemoveElement

\* One more approval, and at most one more client that waits for its answer;
\* exactly one more unless the client has gone.
LEMMA GrantsExecute ==
  ASSUME TypeOK, QuietInv, GrantInv, NEW r \in Requests, Execute(r)
  PROVE  GrantsAreBacked'
<1>1. PICK decision \in {"allowed", "denied", "full"} : Decide(r, decision)
  BY DEF Execute
<1>2. /\ calling' = calling /\ granted' = granted /\ outage' = outage /\ hangups' = hangups
      /\ wire[r] = "sent" /\ verdict[r] = "none" /\ verdict' = [verdict EXCEPT ![r] = decision]
  BY <1>1 DEF Execute, Decide, breakerVars, observers, QuietInv, CallsInOrder
<1>3. /\ IsFiniteSet(Waiting) /\ Cardinality(Waiting) \in Nat /\ r \notin Waiting
      /\ granted \in Nat /\ approvals \in Nat
  BY <1>2, FS_Subset, FS_CardinalityType DEF GrantInv, Waiting, TypeOK, CountersTypeOK
<1>4. CASE decision = "allowed"
  <2>1. approvals' = approvals + 1
    BY <1>1, <1>4 DEF Decide
  <2>2. CASE r \in calling
    <3>1. Waiting' = Waiting \cup {r}
      BY <1>2, <1>4, <2>2 DEF Waiting, TypeOK, RequestsTypeOK, Breaker!TypeOK, Breaker!CallsTypeOK
    <3>2. Cardinality(Waiting') = Cardinality(Waiting) + 1
      BY <1>3, <3>1, FS_AddElement
    <3> QED
      BY <1>2, <1>3, <2>1, <3>2 DEF GrantInv, GrantsAreBacked
  <2>3. CASE r \notin calling
    <3>1. Waiting' = Waiting
      BY <1>2, <2>3 DEF Waiting, TypeOK, RequestsTypeOK, Breaker!TypeOK, Breaker!CallsTypeOK
    <3>2. outage \/ hangups
      BY <1>2, <2>3 DEF QuietInv, Undisturbed
    <3> QED
      BY <1>2, <1>3, <2>1, <3>1, <3>2 DEF GrantInv, GrantsAreBacked
  <2> QED
    BY <2>2, <2>3
<1>5. CASE decision # "allowed"
  <2>1. approvals' = approvals
    BY <1>1, <1>5 DEF Decide
  <2>2. Waiting' = Waiting
    BY <1>2, <1>5 DEF Waiting, TypeOK, RequestsTypeOK, Breaker!TypeOK, Breaker!CallsTypeOK
  <2> QED
    BY <1>2, <2>1, <2>2 DEF GrantInv, GrantsAreBacked
<1> QED
  BY <1>4, <1>5

\* A client that was approved hears of it, unless Redis was unavailable or it
\* has gone.
LEMMA GrantsReturn ==
  ASSUME TypeOK, QuietInv, GrantInv, NEW r \in Requests,
         Return(r) \/ Hangup(r) \/ HangupUnwritten(r)
  PROVE  GrantsAreBacked'
<1>1. PICK o \in Outcomes : AnswerFits(r, o)
  BY AnswersFit DEF TypeOK, QuietInv
<1>2. r \in calling /\ calling' = calling \ {r}
  BY AnswersFit DEF TypeOK, QuietInv, Breaker!Return
<1>3. verdict' = verdict /\ approvals' = approvals /\ outage' = outage
  BY <1>1 DEF AnswerFits, Finish, redisVars
<1>4. /\ IsFiniteSet(Waiting) /\ Cardinality(Waiting) \in Nat
      /\ granted \in Nat /\ approvals \in Nat
  BY FS_Subset, FS_CardinalityType DEF GrantInv, Waiting, TypeOK, CountersTypeOK
<1>5. Waiting' = Waiting \ {r}
  BY <1>2, <1>3 DEF Waiting
<1>6. Cardinality(Waiting') = IF verdict[r] = "allowed" THEN Cardinality(Waiting) - 1
                                                       ELSE Cardinality(Waiting)
  <2>1. r \in Waiting <=> verdict[r] = "allowed"
    BY <1>2 DEF Waiting
  <2> QED
    BY <1>4, <1>5, <2>1, FS_RemoveElement
<1>7. CASE o = "allowed"
  <2>1. granted' = granted + 1 /\ verdict[r] = "allowed" /\ hangups' = hangups
    BY <1>1, <1>7 DEF AnswerFits
  <2> QED
    BY <1>3, <1>4, <1>6, <2>1 DEF GrantInv, GrantsAreBacked
<1>8. CASE o \in {"dependency_unavailable", "internal_error"}
  <2>1. granted' = granted
    BY <1>1, <1>8 DEF AnswerFits
  <2>2. outage' \/ hangups'
    BY <1>1, <1>2, <1>3, <1>8 DEF AnswerFits, QuietInv, Undisturbed
  <2> QED
    BY <1>3, <1>4, <1>6, <2>1, <2>2 DEF GrantInv, GrantsAreBacked
<1>9. CASE o \notin {"allowed", "dependency_unavailable", "internal_error"}
  <2>1. granted' = granted /\ verdict[r] # "allowed" /\ hangups' = hangups
    BY <1>1, <1>9 DEF AnswerFits
  <2> QED
    BY <1>3, <1>4, <1>6, <2>1 DEF GrantInv, GrantsAreBacked
<1> QED
  BY <1>7, <1>8, <1>9

LEMMA GrantsStep == TypeOK /\ QuietInv /\ GrantInv /\ [Next]_vars => GrantInv'
<1> SUFFICES ASSUME TypeOK, QuietInv, GrantInv, [Next]_vars PROVE GrantsAreBacked'
  BY FiniteStep DEF GrantInv
<1> DEFINE Quiet == Waiting' = Waiting /\ UNCHANGED <<granted, approvals, hangups>>
                    /\ (outage' = outage \/ outage' = TRUE)
<1>1. ASSUME Quiet PROVE GrantsAreBacked'
  BY <1>1 DEF GrantInv, GrantsAreBacked
<1>2. ASSUME NEW r \in Requests, BadPayload(r) \/ Refused(r) PROVE Quiet
  BY <1>2 DEF BadPayload, Refused, Begin, breakerVars, redisVars, observers, Waiting, TypeOK,
              RequestsTypeOK, Breaker!TypeOK, Breaker!CallsTypeOK
<1>3. ASSUME NEW r \in Requests, NEW asks \in Asked, Check(r, asks) PROVE Quiet
  <2>1. r \notin calling /\ (calling' = calling \/ calling' = calling \cup {r})
    BY <1>3, Admission DEF Check, TypeOK
  <2> QED
    BY <1>3, <2>1 DEF Check, Begin, redisVars, observers, Waiting, TypeOK,
                      RequestsTypeOK, Breaker!TypeOK, Breaker!CallsTypeOK
<1>4. ASSUME NEW r \in Requests, Lose(r) PROVE Quiet
  BY <1>4 DEF Lose, breakerVars, redisVars, observers, Waiting
<1>5. ASSUME Refill \/ Drain PROVE Quiet
  BY <1>5 DEF Refill, Drain, breakerVars, observers, Waiting
<1>6. ASSUME Tick \/ RedisChange PROVE Quiet
  BY <1>6 DEF Tick, RedisChange, Breaker!Tick, Breaker!RedisChange, redisVars, observers, Waiting
<1>7. ASSUME UNCHANGED vars PROVE Quiet
  BY <1>7 DEF vars, breakerVars, redisVars, observers, Waiting
<1> QED
  BY <1>1, <1>2, <1>3, <1>4, <1>5, <1>6, <1>7, GrantsExecute, GrantsReturn DEF Next

\* Every 200 is backed by an approval event of its own, and quota is spent on a
\* client that is not told so only after an outage or a hang-up, whatever the
\* number of requests and the order of scripts, replies and deadlines.
THEOREM GrantsBacked == Spec => []GrantsAreBacked
<1>1. Init => GrantInv
  <2> SUFFICES ASSUME Init PROVE GrantInv
    OBVIOUS
  <2>1. calling = {} /\ Waiting = {} /\ granted = 0 /\ approvals = 0
    BY DEF Init, Breaker!Init, Waiting
  <2> QED
    BY <2>1, FS_EmptySet DEF GrantInv, GrantsAreBacked
<1>2. GrantInv => GrantsAreBacked
  BY DEF GrantInv
<1> QED
  BY <1>1, <1>2, GrantsStep, ServiceTypeCorrect, QuietAlways, PTL DEF Spec
=============================================================================

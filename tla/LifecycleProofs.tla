--------------------------- MODULE LifecycleProofs ---------------------------
(***************************************************************************)
(* Start-up and shutdown of both processes, for every environment, number  *)
(* of requests and moment of a signal; and the worker's backlog monitor,   *)
(* for every limit, warning level and number of restarts.                  *)
(***************************************************************************)
EXTENDS Lifecycle, BacklogMonitor, TLAPS

Places == {"load", "ping", "pool", "build", "group", "run", "wait", "shutdown", "close", "exit"}

Messages == {"nil", "error"}

LifecycleTypeOK ==
  /\ pc \in [Processes -> Places]
  /\ exit \in [Processes -> {"none", "ok", "failed", "killed"}]
  /\ server \in [Processes -> {"new", "listening", "broken", "closed", "reported"}]
  /\ active \in [Processes -> Nat]
  /\ shutdown \in [Processes -> {"no", "running", "drained", "late"}]
  /\ DOMAIN signalled = Processes
  /\ stopped \in Seq(Messages)

BuildFails(p) == IF p = "api" THEN NewLimiterFails(environment) ELSE NewProcessorFails(environment)

\* A process gets past each check of its start-up only by passing it.
StartInv ==
  \A p \in Processes :
    /\ pc[p] \in {"ping", "pool", "build"} => Valid(p)
    /\ pc[p] \in {"group", "run"} \/ server[p] = "listening" => Valid(p) /\ ~BuildFails(p)

\* Nothing but a signal closes a server or ends the worker's processing.
ToldToStop ==
  /\ \A p \in Processes :
       /\ shutdown[p] # "no" \/ server[p] = "closed" \/ pc[p] \in {"close", "shutdown"} \/ exit[p] = "ok"
            => signalled[p]
       /\ exit[p] # "none" => pc[p] = "exit"
  /\ \A i \in DOMAIN stopped : stopped[i] = "nil" => signalled["worker"]

\* A server that was shut down accepts nothing more, so a drained one stays so.
Drained ==
  /\ \A p \in Processes :
       /\ shutdown[p] # "no" => server[p] \notin {"new", "listening"}
       /\ shutdown[p] = "drained" => active[p] = 0
  /\ pc["api"] = "close" \/ exit["api"] = "ok" => shutdown["api"] = "drained"
  /\ exit["worker"] = "ok" => batch # "transaction"

-----------------------------------------------------------------------------
\* Whatever the environment holds, two processes that accept it read the same
\* settings in it, but for the blanks around the database URL.  Of TrimSpace
\* only this is used: it makes nothing of nothing.
LEMMA TrimEmpty == TrimSpace("") = ""
  BY DEF TrimSpace

LEMMA SettingsAgree ==
  ASSUME NEW e, ApiValid(e), ~NewLimiterFails(e), WorkerValid(e), ~NewProcessorFails(e)
  PROVE  WorkerSettings(e) = [ApiSettings(e) EXCEPT !.database = TrimSpace(@)]
<1> DEFINE stream == GetEnv(e, "RATE_LIMIT_EVENT_STREAM", "rate_limit:approved_requests")
           text == GetEnv(e, "RATE_LIMIT_EVENT_MAX_BACKLOG", "100000")
           url == GetEnv(e, "DATABASE_URL", "")
<1>1. stream # ""
  BY DEF NewProcessorFails
<1>2. text \in DOMAIN Atoi /\ Atoi[text] > 0 /\ Atoi[text] # 0
  <2>1. text \in DOMAIN Atoi /\ Atoi[text] > 0
    BY DEF WorkerValid, positiveInt
  <2> QED
    BY <2>1
<1>3. ApiLimit(e) = Atoi[text] /\ GetEnvAsInt(e, "RATE_LIMIT_EVENT_MAX_BACKLOG", "100000") = Atoi[text]
  BY <1>2 DEF ApiLimit, GetEnvAsInt
<1>4. GetEnv(e, "DATABASE_URL", "localhost:5433") = url
  <2>1. url # ""
    BY TrimEmpty DEF WorkerValid
  <2> QED
    BY <2>1 DEF GetEnv
<1> HIDE DEF stream, text, url
<1>5. WorkerSettings(e) = Settings(newRedisClient(e), stream, Atoi[text], TrimSpace(url))
  BY <1>3, Zenon DEF WorkerSettings, stream, url
<1> DEFINE apiStream == IF stream = "" THEN "rate_limit:approved_requests" ELSE stream
           apiLimit == IF ApiLimit(e) = 0 THEN 100000 ELSE ApiLimit(e)
           apiUrl == GetEnv(e, "DATABASE_URL", "localhost:5433")
<1>6. apiStream = stream
  BY <1>1
<1>7. apiLimit = Atoi[text]
  BY <1>2, <1>3
<1>8. ApiSettings(e) = Settings(newRedisClient(e), apiStream, apiLimit, apiUrl)
  BY DEF ApiSettings, stream
<1> HIDE DEF apiStream, apiLimit, apiUrl
<1>9. apiUrl = url
  BY <1>4 DEF apiUrl
<1>10. ApiSettings(e) = Settings(newRedisClient(e), stream, Atoi[text], url)
  BY <1>6, <1>7, <1>8, <1>9
<1> QED
  BY <1>5, <1>10 DEF Settings

-----------------------------------------------------------------------------
LEMMA TailFacts ==
  ASSUME NEW S, NEW s \in Seq(S), s # <<>>
  PROVE  /\ Tail(s) \in Seq(S) /\ Head(s) \in S
         /\ Head(s) = s[1] /\ 1 \in DOMAIN s
         /\ \A i \in DOMAIN Tail(s) : i + 1 \in DOMAIN s /\ Tail(s)[i] = s[i + 1]
  OBVIOUS

LEMMA AppendFacts ==
  ASSUME NEW S, NEW s \in Seq(S), NEW x \in S
  PROVE  /\ Append(s, x) \in Seq(S)
         /\ \A i \in DOMAIN Append(s, x) : (i \in DOMAIN s /\ Append(s, x)[i] = s[i]) \/ Append(s, x)[i] = x
  OBVIOUS

LEMMA LifecycleTypeStep == LifecycleTypeOK /\ [Next]_vars => LifecycleTypeOK'
<1> SUFFICES ASSUME LifecycleTypeOK, [Next]_vars PROVE LifecycleTypeOK'
  OBVIOUS
<1> USE DEF LifecycleTypeOK, Places, Processes, processes, signals, http, work
<1>1. ASSUME NEW p \in Processes,
             LoadConfig(p) \/ Ping(p) \/ OpenPool(p) \/ Build(p) \/ CloseAll(p)
      PROVE  LifecycleTypeOK'
  BY <1>1 DEF LoadConfig, Ping, OpenPool, Build, CloseAll, Goto, Exit
<1>2. ASSUME StopServing \/ AwaitShutdown PROVE LifecycleTypeOK'
  BY <1>2 DEF StopServing, AwaitShutdown, Goto, Exit
<1>3. ASSUME EnsureGroup PROVE LifecycleTypeOK'
  BY <1>3 DEF EnsureGroup, Goto, Exit
<1>4. ASSUME Select \/ AfterShutdown PROVE LifecycleTypeOK'
  <2>1. stopped' \in Seq(Messages)
    <3>1. stopped # <<>> => Tail(stopped) \in Seq(Messages)
      BY TailFacts
    <3> QED
      BY <1>4, <3>1 DEF Select, AfterShutdown, Receive
  <2> QED
    BY <1>4, <2>1 DEF Select, AfterShutdown, Receive, BeginShutdown, Goto, Exit
<1>5. ASSUME NEW p \in Processes,
             Listen(p) \/ ServeFails(p) \/ Accept(p) \/ Respond(p) \/ ShutdownReturns(p)
      PROVE  LifecycleTypeOK'
  BY <1>5 DEF Listen, ServeFails, Accept, Respond, ShutdownReturns, Alive
<1>6. ASSUME NEW p \in Processes, Signal(p) PROVE LifecycleTypeOK'
  BY <1>6 DEF Signal, Exit, Alive
<1>7. ASSUME Notify \/ QuitAPI PROVE LifecycleTypeOK'
  BY <1>7 DEF Notify, QuitAPI, BeginShutdown, Alive
<1>8. ASSUME ReportServer \/ EndProcess PROVE LifecycleTypeOK'
  <2>1. stopped' \in Seq(Messages)
    <3>1. Append(stopped, "nil") \in Seq(Messages) /\ Append(stopped, "error") \in Seq(Messages)
      BY AppendFacts DEF Messages
    <3> QED
      BY <1>8, <3>1 DEF ReportServer, EndProcess
  <2> QED
    BY <1>8, <2>1 DEF ReportServer, EndProcess
<1>9. ASSUME BeginBatch \/ EndBatch \/ Cleanup PROVE LifecycleTypeOK'
  BY <1>9 DEF BeginBatch, EndBatch, Cleanup, Process, Alive
<1>10. ASSUME UNCHANGED vars PROVE LifecycleTypeOK'
  BY <1>10 DEF vars
<1> QED
  BY <1>1, <1>2, <1>3, <1>4, <1>5, <1>6, <1>7, <1>8, <1>9, <1>10 DEF Next, Main, MainAPI, MainWorker, Terminated

LEMMA StartStep == LifecycleTypeOK /\ StartInv /\ [Next]_vars => StartInv'
<1> SUFFICES ASSUME LifecycleTypeOK, StartInv, [Next]_vars PROVE StartInv'
  OBVIOUS
<1> USE DEF LifecycleTypeOK, StartInv, Valid, BuildFails, Processes, processes, signals, http, work
<1>1. ASSUME NEW p \in Processes, LoadConfig(p) \/ Ping(p) \/ OpenPool(p) \/ Build(p) \/ CloseAll(p) PROVE StartInv'
  BY <1>1 DEF LoadConfig, Ping, OpenPool, Build, CloseAll, Goto, Exit
<1>2. ASSUME StopServing \/ AwaitShutdown PROVE StartInv'
  BY <1>2 DEF StopServing, AwaitShutdown, Goto, Exit
<1>3. ASSUME EnsureGroup PROVE StartInv'
  BY <1>3 DEF EnsureGroup, Goto, Exit
<1>4. ASSUME Select \/ AfterShutdown PROVE StartInv'
  BY <1>4 DEF Select, AfterShutdown, Receive, BeginShutdown, Goto, Exit
<1>5. ASSUME NEW p \in Processes,
             Listen(p) \/ ServeFails(p) \/ Accept(p) \/ Respond(p) \/ ShutdownReturns(p)
      PROVE  StartInv'
  BY <1>5 DEF Listen, ServeFails, Accept, Respond, ShutdownReturns, Alive
<1>6. ASSUME NEW p \in Processes, Signal(p) PROVE StartInv'
  BY <1>6 DEF Signal, Exit, Alive
<1>7. ASSUME Notify \/ QuitAPI PROVE StartInv'
  BY <1>7 DEF Notify, QuitAPI, BeginShutdown, Alive
<1>8. ASSUME ReportServer \/ EndProcess PROVE StartInv'
  BY <1>8 DEF ReportServer, EndProcess, Alive
<1>9. ASSUME BeginBatch \/ EndBatch \/ Cleanup PROVE StartInv'
  BY <1>9 DEF BeginBatch, EndBatch, Cleanup, Process, Alive
<1>10. ASSUME UNCHANGED vars PROVE StartInv'
  BY <1>10 DEF vars
<1> QED
  BY <1>1, <1>2, <1>3, <1>4, <1>5, <1>6, <1>7, <1>8, <1>9, <1>10 DEF Next, Main, MainAPI, MainWorker, Terminated

LEMMA ToldStep == LifecycleTypeOK /\ ToldToStop /\ [Next]_vars => ToldToStop'
<1> SUFFICES ASSUME LifecycleTypeOK, ToldToStop, [Next]_vars PROVE ToldToStop'
  OBVIOUS
<1> USE DEF LifecycleTypeOK, ToldToStop, Processes, processes, signals, http, work
<1>1. ASSUME NEW p \in Processes, LoadConfig(p) \/ Ping(p) \/ OpenPool(p) \/ Build(p) \/ CloseAll(p) PROVE ToldToStop'
  BY <1>1 DEF LoadConfig, Ping, OpenPool, Build, CloseAll, Goto, Exit
<1>2. ASSUME StopServing \/ AwaitShutdown PROVE ToldToStop'
  BY <1>2 DEF StopServing, AwaitShutdown, Goto, Exit
<1>3. ASSUME EnsureGroup PROVE ToldToStop'
  BY <1>3 DEF EnsureGroup, Goto, Exit
<1>4. ASSUME Select \/ AfterShutdown PROVE ToldToStop'
  <2>1. \A i \in DOMAIN stopped' : stopped'[i] = "nil" => signalled["worker"]
    <3>1. CASE stopped' = stopped
      BY <3>1
    <3>2. CASE stopped # <<>> /\ stopped' = Tail(stopped)
      BY <3>2, TailFacts
    <3> QED
      BY <1>4, <3>1, <3>2 DEF Select, AfterShutdown, Receive
  <2>2. stopped # <<>> /\ Head(stopped) # "error" => signalled["worker"]
    BY TailFacts DEF Messages
  <2> QED
    BY <1>4, <2>1, <2>2 DEF Select, AfterShutdown, Receive, BeginShutdown, Goto, Exit
<1>5. ASSUME NEW p \in Processes,
             Listen(p) \/ ServeFails(p) \/ Accept(p) \/ Respond(p) \/ ShutdownReturns(p)
      PROVE  ToldToStop'
  BY <1>5 DEF Listen, ServeFails, Accept, Respond, ShutdownReturns, Alive
<1>6. ASSUME NEW p \in Processes, Signal(p) PROVE ToldToStop'
  BY <1>6 DEF Signal, Exit, Alive
<1>7. ASSUME Notify \/ QuitAPI PROVE ToldToStop'
  BY <1>7 DEF Notify, QuitAPI, BeginShutdown, Alive
<1>8. ASSUME ReportServer \/ EndProcess PROVE ToldToStop'
  <2>1. PICK m \in Messages : stopped' = Append(stopped, m) /\ (m = "nil" => signalled["worker"])
    BY <1>8 DEF ReportServer, EndProcess, Messages
  <2>2. \A i \in DOMAIN stopped' : stopped'[i] = "nil" => signalled["worker"]
    BY <2>1, AppendFacts
  <2> QED
    BY <1>8, <2>2 DEF ReportServer, EndProcess, Alive
<1>9. ASSUME BeginBatch \/ EndBatch \/ Cleanup PROVE ToldToStop'
  BY <1>9 DEF BeginBatch, EndBatch, Cleanup, Process, Alive
<1>10. ASSUME UNCHANGED vars PROVE ToldToStop'
  BY <1>10 DEF vars
<1> QED
  BY <1>1, <1>2, <1>3, <1>4, <1>5, <1>6, <1>7, <1>8, <1>9, <1>10 DEF Next, Main, MainAPI, MainWorker, Terminated

LEMMA DrainedStep == LifecycleTypeOK /\ ToldToStop /\ Drained /\ [Next]_vars => Drained'
<1> SUFFICES ASSUME LifecycleTypeOK, ToldToStop, Drained, [Next]_vars PROVE Drained'
  OBVIOUS
<1> USE DEF LifecycleTypeOK, ToldToStop, Drained, Processes, processes, signals, http, work
<1>1. ASSUME NEW p \in Processes, LoadConfig(p) \/ Ping(p) \/ OpenPool(p) \/ Build(p) \/ CloseAll(p) PROVE Drained'
  BY <1>1 DEF LoadConfig, Ping, OpenPool, Build, CloseAll, Goto, Exit
<1>2. ASSUME StopServing \/ AwaitShutdown PROVE Drained'
  BY <1>2 DEF StopServing, AwaitShutdown, Goto, Exit
<1>3. ASSUME EnsureGroup PROVE Drained'
  BY <1>3 DEF EnsureGroup, Goto, Exit
<1>4. ASSUME Select \/ AfterShutdown PROVE Drained'
  BY <1>4 DEF Select, AfterShutdown, Receive, BeginShutdown, Goto, Exit
<1>5. ASSUME NEW p \in Processes,
             Listen(p) \/ ServeFails(p) \/ Accept(p) \/ Respond(p) \/ ShutdownReturns(p)
      PROVE  Drained'
  BY <1>5 DEF Listen, ServeFails, Accept, Respond, ShutdownReturns, Alive
<1>6. ASSUME NEW p \in Processes, Signal(p) PROVE Drained'
  BY <1>6 DEF Signal, Exit, Alive
<1>7. ASSUME Notify \/ QuitAPI PROVE Drained'
  BY <1>7 DEF Notify, QuitAPI, BeginShutdown, Alive
<1>8. ASSUME ReportServer \/ EndProcess PROVE Drained'
  BY <1>8 DEF ReportServer, EndProcess, Alive
<1>9. ASSUME BeginBatch \/ EndBatch \/ Cleanup PROVE Drained'
  BY <1>9 DEF BeginBatch, EndBatch, Cleanup, Process, Alive
<1>10. ASSUME UNCHANGED vars PROVE Drained'
  BY <1>10 DEF vars
<1> QED
  BY <1>1, <1>2, <1>3, <1>4, <1>5, <1>6, <1>7, <1>8, <1>9, <1>10 DEF Next, Main, MainAPI, MainWorker, Terminated

-----------------------------------------------------------------------------
LEMMA LifecycleInit == Init => LifecycleTypeOK /\ StartInv /\ ToldToStop /\ Drained
  BY DEF Init, LifecycleTypeOK, Places, Messages, StartInv, ToldToStop, Drained, Processes

LEMMA LifecycleTyped == Spec => []LifecycleTypeOK
  BY LifecycleInit, LifecycleTypeStep, PTL DEF Spec

\* However many variables are set, and to what (SettingsAgree asks nothing of
\* the environment): if both processes serve, they use one Redis, stream and
\* limit, and one database unless there are blanks around DATABASE_URL.
THEOREM StartedAgree == Spec => []StartedProcessesAgree
<1>1. StartInv => StartedProcessesAgree
  <2> SUFFICES ASSUME StartInv, \A p \in Processes : server[p] = "listening"
               PROVE  WorkerSettings(environment)
                        = [ApiSettings(environment) EXCEPT !.database = TrimSpace(@)]
    BY DEF StartedProcessesAgree
  <2>1. Valid("api") /\ ~BuildFails("api") /\ Valid("worker") /\ ~BuildFails("worker")
    BY DEF StartInv, Processes
  <2> QED
    BY <2>1, SettingsAgree DEF Valid, BuildFails
<1> QED
  BY <1>1, LifecycleInit, LifecycleTyped, StartStep, PTL DEF Spec

\* However many requests are under way and whenever the signal arrives: a
\* process that exits with status 0 was told to stop, an API process has then
\* answered all it accepted and a worker has no transaction open.
THEOREM CleanExits == Spec => []CleanExitDrains
<1>1. ToldToStop /\ Drained => CleanExitDrains
  BY DEF ToldToStop, Drained, CleanExitDrains, Processes
<1> QED
  BY <1>1, LifecycleInit, LifecycleTyped, ToldStep, DrainedStep, PTL DEF Spec

-----------------------------------------------------------------------------
(* The backlog monitor. *)

\* A drain that was announced has left nothing for the next sample to announce.
DrainInv == drained => length = 0 /\ previousLength = 0

\* What the monitor logged last is the state it is in, and one drain of the
\* stream is announced once, whatever is appended, removed and restarted
\* between two samples.
THEOREM MonitorSafety == MonitorSpec => [](TypeOK /\ DrainAnnouncedOnce)
<1>1. MonitorInit => TypeOK /\ DrainInv
  <2> SUFFICES ASSUME MonitorInit PROVE TypeOK /\ DrainInv
    OBVIOUS
  <2>1. LengthsTypeOK
    BY BacklogAssumption, RestartAssumption DEF MonitorInit, LengthsTypeOK
  <2>2. FlagsTypeOK
    BY Zenon DEF MonitorInit, FlagsTypeOK
  <2>3. Announced /\ DrainInv
    BY DEF MonitorInit, Announced, DrainInv
  <2> QED
    BY <2>1, <2>2, <2>3 DEF TypeOK
<1>2. LengthsTypeOK /\ [MonitorNext]_monitorVars => LengthsTypeOK'
  <2> SUFFICES ASSUME LengthsTypeOK, [MonitorNext]_monitorVars PROVE LengthsTypeOK'
    OBVIOUS
  <2> USE BacklogAssumption, RestartAssumption DEF LengthsTypeOK
  <2>1. CASE Sample
    BY <2>1 DEF Sample
  <2>2. CASE AppendEvent
    BY <2>2 DEF AppendEvent
  <2>3. CASE RemoveEvents
    BY <2>3 DEF RemoveEvents
  <2>4. CASE Restart
    BY <2>4 DEF Restart
  <2>5. CASE UNCHANGED monitorVars
    BY <2>5 DEF monitorVars
  <2> QED
    BY <2>1, <2>2, <2>3, <2>4, <2>5 DEF MonitorNext
<1>3. FlagsTypeOK /\ [MonitorNext]_monitorVars => FlagsTypeOK'
  BY Zenon DEF FlagsTypeOK, MonitorNext, monitorVars, Sample, AppendEvent,
               RemoveEvents, Restart
<1>4. Announced /\ [MonitorNext]_monitorVars => Announced'
  BY DEF Announced, MonitorNext, monitorVars, Sample, logBacklogTransition,
         backlogState, AppendEvent, RemoveEvents, Restart
<1>5. LengthsTypeOK /\ DrainInv /\ [MonitorNext]_monitorVars => DrainInv'
  <2> SUFFICES ASSUME LengthsTypeOK, DrainInv, [MonitorNext]_monitorVars PROVE DrainInv'
    OBVIOUS
  <2> USE DEF DrainInv, LengthsTypeOK
  <2>1. CASE Sample
    BY <2>1 DEF Sample, LogsDrained
  <2>2. CASE AppendEvent
    BY <2>2 DEF AppendEvent
  <2>3. CASE RemoveEvents
    BY <2>3 DEF RemoveEvents
  <2>4. CASE Restart
    BY <2>4 DEF Restart
  <2>5. CASE UNCHANGED monitorVars
    BY <2>5 DEF monitorVars
  <2> QED
    BY <2>1, <2>2, <2>3, <2>4, <2>5 DEF MonitorNext
<1>6. DrainInv => DrainAnnouncedOnce
  BY DEF DrainInv, DrainAnnouncedOnce, LogsDrained
<1> QED
  BY <1>1, <1>2, <1>3, <1>4, <1>5, <1>6, PTL DEF MonitorSpec, TypeOK

\* The sampled lengths stay in range, and the monitor is always in the state
\* it logged last, across restarts that forget it.
THEOREM MonitorTypeCorrect == MonitorSpec => []TypeOK
  BY MonitorSafety, PTL

\* However many samples see the stream empty, its drain is logged once.
THEOREM DrainsAnnouncedOnce == MonitorSpec => []DrainAnnouncedOnce
  BY MonitorSafety, PTL
=============================================================================

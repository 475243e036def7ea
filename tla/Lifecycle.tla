------------------------------ MODULE Lifecycle ------------------------------
(***************************************************************************)
(* Start-up and shutdown of an API process (main and run of cmd/api) and   *)
(* of a worker process (main and run of cmd/worker) with one environment.  *)
(*                                                                         *)
(* Each has a main goroutine (pc), an HTTP server and a signal handler;    *)
(* the worker also has its processing goroutine and the channel stopped.   *)
(* Any call to Redis or PostgreSQL may fail.  logger.Fatalw exits at once, *)
(* without the deferred calls; a signal nobody listens for kills.          *)
(*                                                                         *)
(* What one batch does is ApprovalEvents, what one request does is         *)
(* CheckService and UsageReport; here they only are under way or not.  The *)
(* monitor goroutine holds nothing that an exit could lose.                *)
(***************************************************************************)
EXTENDS Configuration

CONSTANTS
  MaxSet,       \* bound on the variables set in the environment
  MaxActive     \* bound on the requests a server handles at a time

ASSUME BoundAssumption == MaxSet \in Nat /\ MaxActive \in Nat

VARIABLES
  environment, \* the environment of both processes
  pc,          \* where main is
  exit,        \* "none", or how it ended: "ok", "failed" or "killed"
  notified,    \* the process listens for SIGINT and SIGTERM
  signalled,   \* it has received one
  server,      \* the http.Server
  active,      \* requests that the server is handling
  shutdown,    \* its Shutdown: "no", "running", "drained" or "late"
  batch,       \* the worker's processing goroutine
  stopped      \* the worker's channel stopped

processes == <<pc, exit>>
signals == <<notified, signalled>>
http == <<server, active, shutdown>>
work == <<batch, stopped>>
vars == <<environment, processes, signals, http, work>>

Processes == {"api", "worker"}

Init ==
  /\ environment \in Environments(MaxSet)
  /\ pc = [p \in Processes |-> "load"]
  /\ exit = [p \in Processes |-> "none"]
  /\ notified = [p \in Processes |-> FALSE]
  /\ signalled = [p \in Processes |-> FALSE]
  /\ server = [p \in Processes |-> "new"]
  /\ active = [p \in Processes |-> 0]
  /\ shutdown = [p \in Processes |-> "no"]
  /\ batch = "off"
  /\ stopped = <<>>

Alive(p) == pc[p] # "exit"
Goto(p, next) == pc' = [pc EXCEPT ![p] = next] /\ UNCHANGED exit
Exit(p, how) == pc' = [pc EXCEPT ![p] = "exit"] /\ exit' = [exit EXCEPT ![p] = how]

-----------------------------------------------------------------------------
(* Start-up.  The worker's calls take the context that a signal cancels.   *)

Valid(p) == IF p = "api" THEN ApiValid(environment) ELSE WorkerValid(environment)
Configured(p) == IF p = "api" THEN ApiSettings(environment) ELSE WorkerSettings(environment)

\* signal.NotifyContext follows loadConfig in the worker.
LoadConfig(p) ==
  /\ pc[p] = "load"
  /\ IF Valid(p) THEN Goto(p, "ping") ELSE Exit(p, "failed")
  /\ notified' = [notified EXCEPT ![p] = p = "worker"]
  /\ UNCHANGED <<environment, signalled, http, work>>

Ping(p) ==
  /\ pc[p] = "ping"
  /\ \/ ~signalled[p] /\ Goto(p, "pool")
     \/ Exit(p, "failed")
  /\ UNCHANGED <<environment, signals, http, work>>

\* The API opens its pool and goes on; NewPostgresPool of the worker pings.
OpenPool(p) ==
  /\ pc[p] = "pool"
  /\ \/ /\ ~OpenPostgresPoolFails(Configured(p).database) /\ ~signalled[p]
        /\ Goto(p, "build")
     \/ /\ OpenPostgresPoolFails(Configured(p).database) \/ p = "worker"
        /\ Exit(p, "failed")
  /\ UNCHANGED <<environment, signals, http, work>>

\* The limiter with its breaker, or the processor.
Build(p) ==
  LET fails == IF p = "api" THEN NewLimiterFails(environment) ELSE NewProcessorFails(environment)
  IN  /\ pc[p] = "build"
      /\ IF fails THEN Exit(p, "failed") ELSE Goto(p, IF p = "api" THEN "run" ELSE "group")
      /\ UNCHANGED <<environment, signals, http, work>>

\* EnsureGroup, then the worker's goroutines.
EnsureGroup ==
  /\ pc["worker"] = "group"
  /\ \/ ~signalled["worker"] /\ Goto("worker", "run") /\ batch' = "idle"
     \/ Exit("worker", "failed") /\ UNCHANGED batch
  /\ UNCHANGED <<environment, signals, http, stopped>>

-----------------------------------------------------------------------------
(* The HTTP servers.                                                       *)

\* ListenAndServe begins: a port that is taken breaks it.
Listen(p) ==
  /\ pc[p] = "run" /\ server[p] = "new"
  /\ \E s \in {"listening", "broken"} : server' = [server EXCEPT ![p] = s]
  /\ UNCHANGED <<environment, processes, signals, active, shutdown, work>>

\* An error of the listener ends ListenAndServe, with requests under way or not.
ServeFails(p) ==
  /\ Alive(p) /\ server[p] = "listening"
  /\ server' = [server EXCEPT ![p] = "broken"]
  /\ UNCHANGED <<environment, processes, signals, active, shutdown, work>>

Accept(p) ==
  /\ Alive(p) /\ server[p] = "listening" /\ active[p] < MaxActive
  /\ active' = [active EXCEPT ![p] = @ + 1]
  /\ UNCHANGED <<environment, processes, signals, server, shutdown, work>>

Respond(p) ==
  /\ Alive(p) /\ active[p] > 0
  /\ active' = [active EXCEPT ![p] = @ - 1]
  /\ UNCHANGED <<environment, processes, signals, server, shutdown, work>>

\* server.Shutdown closes the listener and waits for the requests; before
\* ListenAndServe it makes that return at once.
BeginShutdown(p) ==
  /\ server' = [server EXCEPT ![p] = IF @ \in {"new", "listening"} THEN "closed" ELSE @]
  /\ shutdown' = [shutdown EXCEPT ![p] = "running"]
  /\ UNCHANGED active

\* Mutant of ShutdownReturns: Shutdown has no deadline.
ShutdownReturnsDrained(p) ==
  /\ Alive(p) /\ shutdown[p] = "running" /\ active[p] = 0
  /\ shutdown' = [shutdown EXCEPT ![p] = "drained"]
  /\ UNCHANGED <<environment, processes, signals, server, active, work>>

\* It returns when no request is left, or when its five seconds are over.
ShutdownReturns(p) ==
  /\ Alive(p) /\ shutdown[p] = "running"
  /\ shutdown' = [shutdown EXCEPT ![p] = IF active[p] = 0 THEN "drained" ELSE "late"]
  /\ UNCHANGED <<environment, processes, signals, server, active, work>>

-----------------------------------------------------------------------------
(* Signals.                                                                *)

Signal(p) ==
  /\ Alive(p) /\ ~signalled[p]
  /\ signalled' = [signalled EXCEPT ![p] = TRUE]
  /\ IF notified[p] THEN UNCHANGED processes ELSE Exit(p, "killed")
  /\ UNCHANGED <<environment, notified, http, work>>

\* The API listens for signals in a goroutine, which may start late.
Notify ==
  /\ pc["api"] = "run" /\ ~notified["api"]
  /\ notified' = [notified EXCEPT !["api"] = TRUE]
  /\ UNCHANGED <<environment, processes, signalled, http, work>>

QuitAPI ==
  /\ Alive("api") /\ notified["api"] /\ signalled["api"] /\ shutdown["api"] = "no"
  /\ BeginShutdown("api")
  /\ UNCHANGED <<environment, processes, signals, work>>

-----------------------------------------------------------------------------
(* The API's run.                                                          *)

\* Mutant of StopServing: run does not wait for Shutdown.
StopServingAtOnce ==
  /\ pc["api"] = "run" /\ server["api"] \in {"closed", "broken"}
  /\ IF server["api"] = "broken" THEN Exit("api", "failed") ELSE Goto("api", "close")
  /\ UNCHANGED <<environment, signals, http, work>>

\* ListenAndServe has returned.
StopServing ==
  /\ pc["api"] = "run" /\ server["api"] \in {"closed", "broken"}
  /\ IF server["api"] = "broken" THEN Exit("api", "failed") ELSE Goto("api", "wait")
  /\ UNCHANGED <<environment, signals, http, work>>

\* run receives what Shutdown returned.
AwaitShutdown ==
  /\ pc["api"] = "wait"
  /\ \/ shutdown["api"] = "drained" /\ Goto("api", "close")
     \/ shutdown["api"] = "late" /\ Exit("api", "failed")
  /\ UNCHANGED <<environment, signals, http, work>>

-----------------------------------------------------------------------------
(* The worker's run.                                                       *)

Receive ==
  /\ stopped # <<>>
  /\ stopped' = Tail(stopped)
  /\ IF Head(stopped) = "error" THEN Exit("worker", "failed") ELSE Goto("worker", "close")

\* The select, which takes either case when both are ready.
Select ==
  /\ pc["worker"] = "run"
  /\ \/ signalled["worker"] /\ Goto("worker", "shutdown") /\ BeginShutdown("worker") /\ UNCHANGED stopped
     \/ Receive /\ UNCHANGED http
  /\ UNCHANGED <<environment, signals, batch>>

AfterShutdown ==
  /\ pc["worker"] = "shutdown"
  /\ \/ shutdown["worker"] = "late" /\ Exit("worker", "failed") /\ UNCHANGED stopped
     \/ shutdown["worker"] = "drained" /\ Receive
  /\ UNCHANGED <<environment, signals, http, batch>>

\* The server's goroutine reports the end of ListenAndServe.
ReportServer ==
  /\ Alive("worker") /\ server["worker"] \in {"closed", "broken"}
  /\ stopped' = Append(stopped, IF server["worker"] = "broken" THEN "error" ELSE "nil")
  /\ server' = [server EXCEPT !["worker"] = "reported"]
  /\ UNCHANGED <<environment, processes, signals, active, shutdown, batch>>

\* process: no transaction begins with a cancelled context, and the one under
\* way ends either way.  Whether XACK and XDEL still happen makes no difference
\* here.
Process(from, to) ==
  /\ Alive("worker") /\ batch = from
  /\ batch' = to
  /\ UNCHANGED <<environment, processes, signals, http, stopped>>

BeginBatch == ~signalled["worker"] /\ Process("idle", "transaction")
EndBatch == Process("transaction", "cleanup") \/ Process("transaction", "idle")
Cleanup == Process("cleanup", "idle")

EndProcess ==
  /\ Alive("worker") /\ signalled["worker"] /\ batch = "idle"
  /\ batch' = "ended"
  /\ stopped' = Append(stopped, "nil")
  /\ UNCHANGED <<environment, processes, signals, http>>

\* The deferred calls of main: postgresPool.Close waits until no transaction
\* holds a connection.
CloseAll(p) ==
  /\ pc[p] = "close"
  /\ p = "worker" => batch # "transaction"
  /\ Exit(p, "ok")
  /\ UNCHANGED <<environment, signals, http, work>>

-----------------------------------------------------------------------------
Main(p) == LoadConfig(p) \/ Ping(p) \/ OpenPool(p) \/ Build(p) \/ CloseAll(p)
MainAPI == Main("api") \/ StopServing \/ AwaitShutdown
MainWorker == Main("worker") \/ EnsureGroup \/ Select \/ AfterShutdown

Terminated == (\A p \in Processes : ~Alive(p)) /\ UNCHANGED vars

Next ==
  \/ MainAPI \/ MainWorker
  \/ \E p \in Processes :
       Listen(p) \/ ServeFails(p) \/ Accept(p) \/ Respond(p) \/ ShutdownReturns(p) \/ Signal(p)
  \/ Notify \/ QuitAPI
  \/ ReportServer \/ BeginBatch \/ EndBatch \/ Cleanup \/ EndProcess
  \/ Terminated

Spec == Init /\ [][Next]_vars

\* Every goroutine goes on when it can: calls to Redis and PostgreSQL return,
\* with an error if need be.  A client may take for ever to finish a request.
FairSpec ==
  /\ Spec
  /\ WF_vars(MainAPI) /\ WF_vars(MainWorker)
  /\ \A p \in Processes : WF_vars(Listen(p)) /\ WF_vars(ShutdownReturns(p))
  /\ WF_vars(Notify) /\ WF_vars(QuitAPI) /\ WF_vars(ReportServer)
  /\ WF_vars(EndBatch \/ Cleanup) /\ WF_vars(EndProcess)

-----------------------------------------------------------------------------
\* An environment in which both processes serve gives them one Redis, stream
\* and stream limit, whatever is unset, empty, padded or unreadable in it:
\* where the API falls back to a default, the worker does too or does not
\* start.  So the percentage that the worker reports and warns at is one of
\* the limit at which the script refuses approvals.  Their databases are the
\* same but for the blanks around DATABASE_URL, which only the worker trims: a
\* padded URL is the one way for the API to report on another database than
\* the worker fills.
StartedProcessesAgree ==
  LET api == ApiSettings(environment)
      worker == WorkerSettings(environment)
  IN  (\A p \in Processes : server[p] = "listening") =>
        worker = [api EXCEPT !.database = TrimSpace(@)]

\* docs/requirements.md names "graceful shutdown": an API process that exits
\* with status 0 was told to and has answered every request it accepted, and a
\* worker that does has no transaction open, although its run may return while
\* the processing goroutine is still at work.
CleanExitDrains ==
  /\ \A p \in Processes : exit[p] = "ok" => signalled[p]
  /\ exit["api"] = "ok" => active["api"] = 0
  /\ exit["worker"] = "ok" => batch # "transaction"

\* A process that is told to stop stops, whatever its clients and its
\* dependencies do: Shutdown has a deadline, and no goroutine waits for a
\* message that is not sent.
ShutdownCompletes == \A p \in Processes : signalled[p] ~> ~Alive(p)
=============================================================================

--------------------------- MODULE BacklogMonitor ---------------------------
(***************************************************************************)
(* The worker's backlog monitor (cmd/worker/monitor.go): it samples the    *)
(* length of the approval stream (internal/events/status.go) on a ticker   *)
(* and logs the transitions it sees, while API instances append events and *)
(* the worker removes them between any two samples.                        *)
(*                                                                         *)
(* A tick whose Status call fails changes nothing and has no action.       *)
(***************************************************************************)
EXTENDS Integers

CONSTANTS
  MaxBacklog,    \* config.maxBacklog, the limit the API enforces
  WarningLevel,  \* config.warningLevel, in percent
  MaxRestarts    \* bound on the restarts of the worker

\* loadConfig refuses any other values.
ASSUME BacklogAssumption == MaxBacklog \in Nat \ {0}
ASSUME WarningAssumption == WarningLevel \in 1..100
ASSUME RestartAssumption == MaxRestarts \in Nat

VARIABLES
  length,          \* XLEN of the approval stream
  state,           \* what the monitor takes the backlog to be
  previousLength,  \* the length of the previous sample
  restarts,        \* restarts so far
  last,            \* observer: last transition this process logged, "none" at first
  admissionStopped, \* observer: the last word on admission was that it stopped
  drained          \* observer: the drain was logged and nothing was appended since

monitorVars == <<length, state, previousLength, restarts, last, admissionStopped, drained>>

\* A worker may start on a stream of any length.
MonitorInit ==
  /\ length \in 0..MaxBacklog
  /\ state = "normal"
  /\ previousLength = 0
  /\ restarts = 0
  /\ last = "none"
  /\ admissionStopped = FALSE
  /\ drained = FALSE

-----------------------------------------------------------------------------
backlogState(l) ==
  IF l >= MaxBacklog THEN "full"
  ELSE IF l * 100 >= MaxBacklog * WarningLevel THEN "warning"
  ELSE "normal"

\* The message logged on the way from one state to another.
logBacklogTransition(previous, next) ==
  CASE next = "warning" -> "warning crossed"
    [] next = "full" -> "admission stopped"
    [] next = "normal" -> IF previous = "full" THEN "admission resumed" ELSE "warning cleared"

\* Mutant of Sample: forgets to keep the state it announced.
SampleForgetsState ==
  LET next == backlogState(length)
  IN  /\ last' = IF next = state THEN last ELSE logBacklogTransition(state, next)
      /\ drained' = (drained \/ (previousLength > 0 /\ length = 0))
      /\ previousLength' = length
      /\ admissionStopped' = (next = "full" \/ (admissionStopped /\ last' # "admission resumed"))
      /\ UNCHANGED <<length, state, restarts>>

\* Mutant of Sample: keeps the length of the last non-empty sample.
SampleKeepsLength ==
  LET next == backlogState(length)
      message == IF next = state THEN last ELSE logBacklogTransition(state, next)
  IN  /\ state' = next
      /\ last' = message
      /\ drained' = (drained \/ (previousLength > 0 /\ length = 0))
      /\ previousLength' = IF length > 0 THEN length ELSE previousLength
      /\ admissionStopped' = (\/ message = "admission stopped"
                              \/ admissionStopped /\ message # "admission resumed")
      /\ UNCHANGED <<length, restarts>>

LogsDrained == previousLength > 0 /\ length = 0

\* One tick of monitorBacklog whose Status call answers.
Sample ==
  LET next == backlogState(length)
      message == IF next = state THEN last ELSE logBacklogTransition(state, next)
  IN  /\ state' = next
      /\ last' = message
      /\ drained' = (drained \/ LogsDrained)
      /\ previousLength' = length
      /\ admissionStopped' = (\/ message = "admission stopped"
                              \/ admissionStopped /\ message # "admission resumed")
      /\ UNCHANGED <<length, restarts>>

\* The script of an API instance appends an event, below the limit only.
AppendEvent ==
  /\ length < MaxBacklog
  /\ length' = length + 1
  /\ drained' = FALSE
  /\ UNCHANGED <<state, previousLength, restarts, last, admissionStopped>>

\* A worker removes stored events, up to a whole batch.
RemoveEvents ==
  /\ \E l \in 0..(length - 1) : length' = l
  /\ UNCHANGED <<state, previousLength, restarts, last, admissionStopped, drained>>

\* The monitor's state is local to monitorBacklog: a new process starts over.
Restart ==
  /\ restarts < MaxRestarts
  /\ restarts' = restarts + 1
  /\ state' = "normal"
  /\ previousLength' = 0
  /\ last' = "none"
  /\ UNCHANGED <<length, admissionStopped, drained>>

MonitorNext == Sample \/ AppendEvent \/ RemoveEvents \/ Restart

MonitorSpec == MonitorInit /\ [][MonitorNext]_monitorVars
\* The ticker keeps ticking and not every Status call fails.
FairMonitorSpec == MonitorSpec /\ WF_monitorVars(Sample)

-----------------------------------------------------------------------------
LengthsTypeOK ==
  /\ length \in 0..MaxBacklog
  /\ previousLength \in 0..MaxBacklog
  /\ restarts \in 0..MaxRestarts

FlagsTypeOK == admissionStopped \in BOOLEAN /\ drained \in BOOLEAN

Announced ==
  state = CASE last = "admission stopped" -> "full"
            [] last = "warning crossed" -> "warning"
            [] OTHER -> "normal"

\* The fields are in range and the monitor is never in a state it has not
\* announced: what an operator read last in the log is the state it is in.
TypeOK == LengthsTypeOK /\ FlagsTypeOK /\ Announced

\* docs/backlog-protection.md: the monitor logs "only state transitions".  One
\* drain of the stream is announced once, however many samples see it empty
\* and whatever happens between them.
DrainAnnouncedOnce == ~(drained /\ LogsDrained)

\* Samples may miss any number of changes, but a length that stays put is
\* reported for what it is.
MonitorConverges ==
  \A l \in 0..MaxBacklog : <>[](length = l) => <>[](state = backlogState(l))

\* docs/backlog-protection.md: the monitor logs the transition "the backlog
\* falls below the limit and admission resumes".  After the monitor has seen
\* the stream below the limit, its last word on admission is not that it stopped.
ResumptionIsLogged == admissionStopped /\ restarts = 0 => state = "full"
=============================================================================

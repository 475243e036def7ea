--------------------------- MODULE ApprovalEvents ---------------------------
(***************************************************************************)
(* Delivery of approval events from the Redis stream to PostgreSQL         *)
(* (internal/events/processor.go, internal/events/persist.go and the loop  *)
(* of cmd/worker/worker.go).                                               *)
(*                                                                         *)
(* The API's script appends events; workers of one consumer group read new *)
(* entries or claim idle pending ones, store a batch in one transaction    *)
(* and then acknowledge and delete it.  Each Redis command, each INSERT    *)
(* and the COMMIT is one atomic step; between any two of them another      *)
(* worker may run, a dependency may fail or the worker may die.            *)
(*                                                                         *)
(* Redis replicates asynchronously (internal/store/redis.go connects       *)
(* through Sentinel): a replica that fell behind may be promoted, and      *)
(* Redis is then back in the state that the replica had.                   *)
(*                                                                         *)
(* An event is its stream ID, the number of its XADD.                      *)
(***************************************************************************)
EXTENDS Integers, FiniteSets

CONSTANTS
  Workers,     \* consumers of the group
  BatchSize,   \* config.BatchSize
  ClaimIdle,   \* config.ClaimIdle, in claim intervals
  Malformed,   \* IDs of events that approvalRequest rejects
  MaxBacklog,  \* the script's bound on the stream length
  MaxEvents,   \* bound: approvals in a behaviour
  MaxFaults    \* bound: failures and crashes in a behaviour

\* NewProcessor refuses values that are not positive.
ASSUME BatchAssumption == BatchSize \in Nat \ {0}
ASSUME ClaimAssumption == ClaimIdle \in Nat \ {0}
ASSUME BoundAssumption == MaxBacklog \in Nat /\ MaxEvents \in Nat /\ MaxFaults \in Nat

VARIABLES
  lastId,         \* ID of the last XADD
  stream,         \* entries in the stream
  lastDelivered,  \* last-delivered ID of the consumer group, or NoGroup
  pending,        \* the group's pending entries list
  idle,           \* time since a pending entry was last delivered, saturated
  replica,        \* what a replica that fell behind has; {} when it follows
  lost,           \* approvals that a failover dropped from the stream
  db,             \* committed rows of approved_requests
  pc,             \* what each worker does next
  batch,          \* messages of each worker's batch
  todo,           \* messages of the batch not yet inserted
  rows,           \* uncommitted rows of each worker's open transaction
  claimDue,       \* a tick waits in claimTicker.C
  faults          \* failures so far

redis == <<lastId, stream, lastDelivered, pending, idle, replica, lost>>
worker == <<pc, batch, todo, rows, claimDue>>
vars == <<redis, db, worker, faults>>

Events == 1..MaxEvents
NoGroup == -1

Init ==
  /\ lastId = 0
  /\ stream = {}
  /\ lastDelivered = NoGroup
  /\ pending = {}
  /\ idle = [i \in Events |-> 0]
  /\ replica = {}
  /\ lost = {}
  /\ db = {}
  /\ pc = [w \in Workers |-> "down"]
  /\ batch = [w \in Workers |-> {}]
  /\ todo = [w \in Workers |-> {}]
  /\ rows = [w \in Workers |-> {}]
  /\ claimDue = [w \in Workers |-> FALSE]
  /\ faults = 0

-----------------------------------------------------------------------------
\* The token-bucket script approves a request and appends its event.
Approve ==
  /\ lastId < MaxEvents
  /\ Cardinality(stream) < MaxBacklog
  /\ lastId' = lastId + 1
  /\ stream' = stream \cup {lastId'}
  /\ UNCHANGED <<lastDelivered, pending, idle, replica, lost, db, worker, faults>>

\* Mutant of EnsureGroup: the group starts at the end of the stream.
EnsureGroupAtEnd ==
  lastDelivered' = IF lastDelivered = NoGroup THEN lastId ELSE lastDelivered

\* XGROUP CREATE from ID 0; BUSYGROUP is not an error.
EnsureGroup ==
  lastDelivered' = IF lastDelivered = NoGroup THEN 0 ELSE lastDelivered

\* A worker starts, or is started again, and enters its loop.
Start(w) ==
  /\ pc[w] = "down"
  /\ EnsureGroup
  /\ pc' = [pc EXCEPT ![w] = "idle"]
  /\ claimDue' = [claimDue EXCEPT ![w] = FALSE]
  /\ UNCHANGED <<lastId, stream, pending, idle, replica, lost, db, batch, todo, rows, faults>>

-----------------------------------------------------------------------------
\* The first BatchSize entries of S: COUNT limits what a command returns.
FirstBatch(S) == {i \in S : Cardinality({j \in S : j <= i}) <= BatchSize}

\* Redis records B as delivered now.
Deliver(B) ==
  /\ pending' = pending \cup B
  /\ idle' = [i \in Events |-> IF i \in B THEN 0 ELSE idle[i]]
  /\ UNCHANGED <<lastId, stream, replica, lost>>

\* persistMessages parses the whole batch before it opens a transaction; one
\* malformed event ends the call with nothing stored.
Begin(w, B) ==
  /\ IF B \cap Malformed = {}
     THEN /\ pc' = [pc EXCEPT ![w] = "insert"]
          /\ batch' = [batch EXCEPT ![w] = B]
          /\ todo' = [todo EXCEPT ![w] = B]
     ELSE UNCHANGED <<pc, batch, todo>>
  /\ UNCHANGED <<db, rows, faults>>

\* The reply of a command that Redis executed does not reach the worker.
LoseReply ==
  /\ faults < MaxFaults
  /\ faults' = faults + 1
  /\ UNCHANGED <<db, pc, batch, todo, rows>>

New == {i \in stream : i > lastDelivered}

\* XREADGROUP ">".  The select takes the default branch only when no claim
\* tick is waiting.  An empty read times out and changes nothing, as does
\* NOGROUP: only Start creates the group.
ConsumeNew(w) ==
  /\ pc[w] = "idle"
  /\ ~claimDue[w]
  /\ lastDelivered # NoGroup
  /\ New # {}
  /\ Deliver(FirstBatch(New))
  /\ \E m \in FirstBatch(New) :
       /\ \A i \in FirstBatch(New) : i <= m
       /\ lastDelivered' = m
  /\ Begin(w, FirstBatch(New)) \/ LoseReply
  /\ UNCHANGED claimDue

Claimable == {i \in pending : idle[i] >= ClaimIdle}

\* Mutant of RecoverPending: claims entries and forgets the messages.
RecoverPendingForgets(w) ==
  /\ pc[w] = "idle"
  /\ claimDue[w]
  /\ claimDue' = [claimDue EXCEPT ![w] = FALSE]
  /\ Deliver(FirstBatch(Claimable))
  /\ UNCHANGED <<lastDelivered, db, pc, batch, todo, rows, faults>>

\* XAUTOCLAIM from 0-0, then persistMessages unless nothing was claimed.
\* Without a group nothing is pending.
RecoverPending(w) ==
  /\ pc[w] = "idle"
  /\ claimDue[w]
  /\ claimDue' = [claimDue EXCEPT ![w] = FALSE]
  /\ Deliver(FirstBatch(Claimable))
  /\ IF Claimable = {}
     THEN UNCHANGED <<db, pc, batch, todo, rows, faults>>
     ELSE Begin(w, FirstBatch(Claimable)) \/ LoseReply
  /\ UNCHANGED lastDelivered

-----------------------------------------------------------------------------
\* An INSERT of i waits while another open transaction holds an uncommitted
\* row with the same primary key.
Locked(w, i) == \E v \in Workers \ {w} : i \in rows[v]

\* Mutant of NextInsert: the batch is stored in no particular order.
NextInsertAny(w) == todo[w]

\* Messages are inserted in the order Redis returned them, by ascending ID.
NextInsert(w) == {i \in todo[w] : \A j \in todo[w] : i <= j}

\* INSERT ... ON CONFLICT (stream_id) DO NOTHING.
Insert(w) ==
  /\ pc[w] = "insert"
  /\ \E i \in NextInsert(w) :
       /\ ~Locked(w, i)
       /\ rows' = [rows EXCEPT ![w] = IF i \in db THEN @ ELSE @ \cup {i}]
       /\ todo' = [todo EXCEPT ![w] = @ \ {i}]
  /\ UNCHANGED <<redis, db, pc, batch, claimDue, faults>>

Forget(w) ==
  /\ batch' = [batch EXCEPT ![w] = {}]
  /\ todo' = [todo EXCEPT ![w] = {}]
  /\ rows' = [rows EXCEPT ![w] = {}]

\* COMMIT succeeds.
Commit(w) ==
  /\ pc[w] = "insert"
  /\ todo[w] = {}
  /\ db' = db \cup rows[w]
  /\ rows' = [rows EXCEPT ![w] = {}]
  /\ pc' = [pc EXCEPT ![w] = "cleanup"]
  /\ UNCHANGED <<redis, batch, todo, claimDue, faults>>

\* COMMIT is applied but its answer is lost: the worker sees an error.
CommitUnanswered(w) ==
  /\ faults < MaxFaults
  /\ pc[w] = "insert"
  /\ todo[w] = {}
  /\ db' = db \cup rows[w]
  /\ Forget(w)
  /\ pc' = [pc EXCEPT ![w] = "idle"]
  /\ faults' = faults + 1
  /\ UNCHANGED <<redis, claimDue>>

\* Mutant of Fail: an error of COMMIT is ignored.
FailIgnored(w) ==
  /\ faults < MaxFaults
  /\ pc[w] \in {"insert", "cleanup"}
  /\ pc' = [pc EXCEPT ![w] = IF @ = "insert" /\ todo[w] = {} THEN "cleanup" ELSE "idle"]
  /\ rows' = [rows EXCEPT ![w] = {}]
  /\ UNCHANGED <<batch, todo>>
  /\ faults' = faults + 1
  /\ UNCHANGED <<redis, db, claimDue>>

\* Mutant of Fail: the transaction of a failed batch stays open.
FailKeepsTransaction(w) ==
  /\ faults < MaxFaults
  /\ pc[w] \in {"insert", "cleanup"}
  /\ pc' = [pc EXCEPT ![w] = "idle"]
  /\ faults' = faults + 1
  /\ UNCHANGED <<redis, db, batch, todo, rows, claimDue>>

\* BeginTx, an INSERT, COMMIT or the cleanup fails with nothing applied: the
\* deferred Rollback ends the transaction and the worker returns to its loop.
Fail(w) ==
  /\ faults < MaxFaults
  /\ pc[w] \in {"insert", "cleanup"}
  /\ Forget(w)
  /\ pc' = [pc EXCEPT ![w] = "idle"]
  /\ faults' = faults + 1
  /\ UNCHANGED <<redis, db, claimDue>>

\* MULTI; XACK; XDEL; EXEC.  A lost reply leaves the same state.
Cleanup(w) ==
  /\ pc[w] = "cleanup"
  /\ pending' = pending \ batch[w]
  /\ stream' = stream \ batch[w]
  /\ Forget(w)
  /\ pc' = [pc EXCEPT ![w] = "idle"]
  /\ UNCHANGED <<lastId, lastDelivered, idle, replica, lost, db, claimDue, faults>>

\* The process dies or is told to stop: its context is cancelled and its
\* transaction is rolled back.
Crash(w) ==
  /\ faults < MaxFaults
  /\ pc[w] # "down"
  /\ Forget(w)
  /\ pc' = [pc EXCEPT ![w] = "down"]
  /\ faults' = faults + 1
  /\ UNCHANGED <<redis, db, claimDue>>

\* One claim interval passes.
Tick ==
  /\ idle' = [i \in Events |->
                IF i \in pending /\ idle[i] < ClaimIdle THEN idle[i] + 1 ELSE idle[i]]
  /\ claimDue' = [w \in Workers |-> pc[w] # "down"]
  /\ UNCHANGED <<lastId, stream, lastDelivered, pending, replica, lost, db, pc, batch, todo, rows, faults>>

-----------------------------------------------------------------------------
\* The replica stops following: it keeps what Redis holds now.
FallBehind ==
  /\ faults < MaxFaults
  /\ replica = {}
  /\ replica' = {[stream |-> stream, lastDelivered |-> lastDelivered, pending |-> pending]}
  /\ faults' = faults + 1
  /\ UNCHANGED <<lastId, stream, lastDelivered, pending, idle, lost, db, worker>>

\* Sentinel promotes the replica and the clients follow it.  It knows only
\* the older delivery of an entry that was claimed since.  IDs are times, so
\* lastId goes on.
Promote ==
  /\ \E r \in replica, aged \in SUBSET Events :
       /\ stream' = r.stream
       /\ lastDelivered' = r.lastDelivered
       /\ pending' = r.pending
       /\ aged \subseteq r.pending
       /\ idle' = [i \in Events |-> IF i \in aged THEN ClaimIdle ELSE idle[i]]
       /\ lost' = lost \cup (stream \ r.stream)
  /\ replica' = {}
  /\ UNCHANGED <<lastId, db, worker, faults>>

\* The steps a worker takes when nothing fails.
Work(w) ==
  Start(w) \/ RecoverPending(w) \/ Insert(w) \/ Commit(w) \/ Cleanup(w)

Next ==
  \/ Approve
  \/ Tick
  \/ FallBehind
  \/ Promote
  \/ \E w \in Workers : Work(w) \/ ConsumeNew(w) \/ CommitUnanswered(w) \/ Fail(w) \/ Crash(w)

\* Workers run and are restarted, claim ticks keep coming, and handling one
\* tick does not take until the next, so new events are read now and then.
Fairness ==
  /\ WF_vars(Tick)
  /\ \A w \in Workers : WF_vars(Work(w)) /\ SF_vars(ConsumeNew(w))

Spec == Init /\ [][Next]_vars
FairSpec == Spec /\ Fairness

-----------------------------------------------------------------------------
RedisTypeOK ==
  /\ lastId \in 0..MaxEvents
  /\ stream \in SUBSET (1..lastId)
  /\ lastDelivered \in NoGroup..lastId
  /\ pending \in SUBSET Events
  /\ idle \in [Events -> 0..ClaimIdle]
  /\ replica \in SUBSET [stream : SUBSET (1..lastId),
                         lastDelivered : NoGroup..lastId,
                         pending : SUBSET Events]
  /\ lost \in SUBSET Events

WorkerTypeOK ==
  /\ db \in SUBSET Events
  /\ pc \in [Workers -> {"down", "idle", "insert", "cleanup"}]
  /\ batch \in [Workers -> SUBSET Events]
  /\ todo \in [Workers -> SUBSET Events]
  /\ rows \in [Workers -> SUBSET Events]
  /\ claimDue \in [Workers -> BOOLEAN]
  /\ faults \in 0..MaxFaults

\* A worker outside persistMessages holds no batch and no open transaction.
IdleHoldsNothing ==
  \A w \in Workers : pc[w] \in {"down", "idle"} =>
    batch[w] = {} /\ todo[w] = {} /\ rows[w] = {}

TypeOK == RedisTypeOK /\ WorkerTypeOK /\ IdleHoldsNothing

\* "not committed to PostgreSQL -> never delete from Redis": an approval is in
\* the stream or in the database, whatever fails, dies or is delivered twice;
\* a failover loses only what the promoted replica had not received.
NoApprovalLost == 1..lastId \subseteq stream \cup db \cup lost

Deliverable(entries, position, delivered) ==
  /\ \A i \in entries : i > position \/ i \in delivered
  /\ delivered \subseteq entries

\* An entry of the stream can still reach a worker: it is undelivered or it
\* is pending and can be claimed; and nothing stays pending that is gone.  So
\* it is after a failover, whichever moment the replica stopped at.
NothingStranded ==
  /\ Deliverable(stream, lastDelivered, pending)
  /\ \A r \in replica : Deliverable(r.stream, r.lastDelivered, r.pending)

\* Workers whose batches overlap, after a claim took an entry from a slow
\* worker, insert the shared rows in one order: their open transactions never
\* wait for each other in a circle.
Inserting == {w \in Workers : pc[w] = "insert"}
NoTransactionDeadlock ==
  \A W \in SUBSET Inserting : W # {} =>
    \E w \in W : todo[w] = {} \/ \E i \in NextInsert(w) : \A v \in W \ {w} : i \notin rows[v]

\* Every approval is in the end stored in PostgreSQL and removed from Redis,
\* unless a failover drops it.  Two states of Redis block the workers for good
\* and are excluded: a group that a failover took away and no restart created
\* again, and an event that approvalRequest rejects, which keeps its batch.
ApprovalsReachHistory ==
  <>[](lastDelivered # NoGroup) =>
    \A i \in Events : (i <= lastId) ~>
      \/ i \in db /\ i \notin stream
      \/ i \in lost
      \/ \E m \in Malformed : m <= lastId
=============================================================================

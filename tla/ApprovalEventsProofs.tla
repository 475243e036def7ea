------------------------ MODULE ApprovalEventsProofs ------------------------
(***************************************************************************)
(* No approval is lost or stranded, for any number of workers, events and  *)
(* failures, any batch size and any set of malformed events; a failover    *)
(* loses only what the promoted replica had not received.  Overlapping     *)
(* transactions of any number of workers never wait in a circle.           *)
(***************************************************************************)
EXTENDS ApprovalEvents, NumericLemmas, FiniteSetTheorems, TLAPS

\* A batch being stored is what is left to insert, the open transaction's rows
\* and rows that are committed already; a batch being removed is committed.
BatchAccounted ==
  \A w \in Workers :
    /\ pc[w] = "insert" => batch[w] \subseteq todo[w] \cup rows[w] \cup db
    /\ pc[w] = "cleanup" => batch[w] \subseteq db

DeliveryInv == TypeOK /\ NothingStranded /\ NoApprovalLost /\ BatchAccounted

-----------------------------------------------------------------------------
\* COUNT cuts a set of entries off at an ID: what it returns has no gaps.
LEMMA FirstBatchIsPrefix ==
  ASSUME NEW S \in SUBSET Nat, IsFiniteSet(S)
  PROVE  /\ FirstBatch(S) \subseteq S
         /\ \A i \in S, m \in FirstBatch(S) : i <= m => i \in FirstBatch(S)
<1>1. FirstBatch(S) \subseteq S
  BY DEF FirstBatch
<1>2. ASSUME NEW i \in S, NEW m \in FirstBatch(S), i <= m PROVE i \in FirstBatch(S)
  <2> DEFINE A == {j \in S : j <= i}
             B == {j \in S : j <= m}
  <2>1. m \in S /\ m \in Nat /\ i \in Nat
    BY <1>1, <1>2
  <2>2. A \subseteq B
    <3>1. ASSUME NEW j \in S, j <= i PROVE j <= m
      <4>1. j \in Nat
        OBVIOUS
      <4> QED
        BY <1>2, <2>1, <3>1, <4>1
    <3> QED
      BY <3>1
  <2>3. IsFiniteSet(B)
    BY FS_Subset
  <2>4. IsFiniteSet(A) /\ Cardinality(A) <= Cardinality(B)
    BY <2>2, <2>3, FS_Subset
  <2>5. Cardinality(A) \in Nat /\ Cardinality(B) \in Nat
    BY <2>3, <2>4, FS_CardinalityType
  <2>6. Cardinality(B) <= BatchSize
    BY <1>2 DEF FirstBatch
  <2>7. Cardinality(A) <= BatchSize
    BY <2>4, <2>5, <2>6, BatchAssumption
  <2> QED
    BY <1>2, <2>7 DEF FirstBatch
<1> QED
  BY <1>1, <1>2

LEMMA NewIsFinite ==
  ASSUME TypeOK
  PROVE  New \in SUBSET Nat /\ IsFiniteSet(New)
<1>1. lastId \in Nat /\ stream \subseteq 1..lastId
  BY BoundAssumption DEF TypeOK, RedisTypeOK
<1>2. IsFiniteSet(1..lastId)
  BY <1>1, FS_Interval
<1>3. New \subseteq 1..lastId
  BY <1>1 DEF New
<1>4. 1..lastId \subseteq Nat
  BY <1>1
<1>5. IsFiniteSet(New)
  BY <1>2, <1>3, FS_Subset
<1> QED
  BY <1>3, <1>4, <1>5

LEMMA BatchTypes ==
  ASSUME TypeOK
  PROVE  /\ FirstBatch(New) \subseteq New /\ FirstBatch(New) \subseteq Events
         /\ FirstBatch(Claimable) \subseteq Claimable /\ FirstBatch(Claimable) \subseteq Events
<1>1. New \subseteq Events
  <2>1. New \subseteq 1..lastId
    BY DEF TypeOK, RedisTypeOK, New
  <2>2. 1..lastId \subseteq 1..MaxEvents
    BY BoundAssumption DEF TypeOK, RedisTypeOK
  <2> QED
    BY <2>1, <2>2 DEF Events
<1>2. Claimable \subseteq Events
  BY DEF TypeOK, RedisTypeOK, Claimable
<1> QED
  BY <1>1, <1>2 DEF FirstBatch

LEMMA DeliveryInit == Init => DeliveryInv
<1> SUFFICES ASSUME Init PROVE DeliveryInv
  OBVIOUS
<1> USE BoundAssumption, ClaimAssumption DEF Init
<1>1. RedisTypeOK
  BY DEF RedisTypeOK, NoGroup
<1>2. WorkerTypeOK
  BY DEF WorkerTypeOK
<1>3. IdleHoldsNothing /\ BatchAccounted
  BY DEF IdleHoldsNothing, BatchAccounted
<1>4. NothingStranded /\ NoApprovalLost
  BY DEF NothingStranded, Deliverable, NoApprovalLost
<1> QED
  BY <1>1, <1>2, <1>3, <1>4 DEF DeliveryInv, TypeOK

-----------------------------------------------------------------------------
(* Type correctness. *)

LEMMA RedisTypeStep == TypeOK /\ [Next]_vars => RedisTypeOK'
<1> SUFFICES ASSUME TypeOK, [Next]_vars PROVE RedisTypeOK'
  OBVIOUS
<1> USE BoundAssumption, ClaimAssumption DEF TypeOK, RedisTypeOK, Events, NoGroup
<1>1. ASSUME NEW w \in Workers, Start(w) PROVE RedisTypeOK'
  BY <1>1 DEF Start, EnsureGroup
<1>2. ASSUME NEW w \in Workers, ConsumeNew(w) PROVE RedisTypeOK'
  <2>1. FirstBatch(New) \subseteq New /\ FirstBatch(New) \subseteq Events /\ New \subseteq 1..lastId
    BY BatchTypes DEF New
  <2>2. lastDelivered' \in NoGroup..lastId'
    <3>1. lastDelivered' \in 1..lastId /\ lastId' = lastId
      BY <1>2, <2>1 DEF ConsumeNew, Deliver
    <3> QED
      BY <3>1
  <2>3. idle' \in [Events -> 0..ClaimIdle]
    BY <1>2 DEF ConsumeNew, Deliver
  <2>4. UNCHANGED <<lastId, stream, replica, lost>> /\ pending' = pending \cup FirstBatch(New)
    BY <1>2 DEF ConsumeNew, Deliver
  <2> QED
    BY <2>1, <2>2, <2>3, <2>4
<1>3. ASSUME NEW w \in Workers, RecoverPending(w) PROVE RedisTypeOK'
  <2>1. FirstBatch(Claimable) \subseteq Events
    BY BatchTypes
  <2>2. /\ UNCHANGED <<lastId, stream, lastDelivered, replica, lost>>
        /\ pending' = pending \cup FirstBatch(Claimable)
        /\ idle' = [i \in Events |-> IF i \in FirstBatch(Claimable) THEN 0 ELSE idle[i]]
    BY <1>3 DEF RecoverPending, Deliver
  <2>3. idle' \in [Events -> 0..ClaimIdle]
    BY <2>2
  <2> QED
    BY <2>1, <2>2, <2>3
<1>4. ASSUME NEW w \in Workers, Insert(w) PROVE RedisTypeOK'
  BY <1>4 DEF Insert, NextInsert, redis
<1>5. ASSUME NEW w \in Workers, Commit(w) PROVE RedisTypeOK'
  BY <1>5 DEF Commit, redis
<1>6. ASSUME NEW w \in Workers, CommitUnanswered(w) PROVE RedisTypeOK'
  BY <1>6 DEF CommitUnanswered, Forget, redis
<1>7. ASSUME NEW w \in Workers, Fail(w) PROVE RedisTypeOK'
  BY <1>7 DEF Fail, Forget, redis
<1>8. ASSUME NEW w \in Workers, Cleanup(w) PROVE RedisTypeOK'
  BY <1>8 DEF Cleanup, Forget
<1>9. ASSUME NEW w \in Workers, Crash(w) PROVE RedisTypeOK'
  BY <1>9 DEF Crash, Forget, redis
<1>10. CASE Approve
  <2>1. /\ lastId' = lastId + 1 /\ lastId' \in 0..MaxEvents
        /\ stream' = stream \cup {lastId'}
        /\ UNCHANGED <<lastDelivered, pending, idle, replica, lost>>
    BY <1>10 DEF Approve
  <2>2. 1..lastId \subseteq 1..lastId' /\ NoGroup..lastId \subseteq NoGroup..lastId'
    BY <2>1
  <2>3. ASSUME NEW r \in replica
        PROVE  r \in [stream : SUBSET (1..lastId'), lastDelivered : NoGroup..lastId',
                      pending : SUBSET Events]
    BY <2>2
  <2> QED
    BY <2>1, <2>2, <2>3
<1>11. CASE Tick
  BY <1>11 DEF Tick
<1>12. CASE UNCHANGED vars
  BY <1>12 DEF vars, redis, worker
<1>13. CASE FallBehind
  BY <1>13 DEF FallBehind, worker
<1>14. CASE Promote
  <2>1. PICK r \in replica, aged \in SUBSET Events :
          /\ stream' = r.stream /\ lastDelivered' = r.lastDelivered /\ pending' = r.pending
          /\ idle' = [i \in Events |-> IF i \in aged THEN ClaimIdle ELSE idle[i]]
          /\ lost' = lost \cup (stream \ r.stream)
    BY <1>14 DEF Promote
  <2>2. UNCHANGED lastId /\ replica' = {}
    BY <1>14 DEF Promote
  <2>3. idle' \in [Events -> 0..ClaimIdle] /\ stream \subseteq Events
    BY <2>1
  <2> QED
    BY <2>1, <2>2, <2>3
<1> QED
  BY <1>1, <1>2, <1>3, <1>4, <1>5, <1>6, <1>7, <1>8, <1>9, <1>10, <1>11, <1>12, <1>13, <1>14
  DEF Next, Work

LEMMA WorkerTypeStep == TypeOK /\ [Next]_vars => WorkerTypeOK'
<1> SUFFICES ASSUME TypeOK, [Next]_vars PROVE WorkerTypeOK'
  OBVIOUS
<1> USE BoundAssumption DEF TypeOK, WorkerTypeOK
<1>1. ASSUME NEW w \in Workers, Start(w) PROVE WorkerTypeOK'
  BY <1>1 DEF Start, EnsureGroup
<1>2. ASSUME NEW w \in Workers, ConsumeNew(w) PROVE WorkerTypeOK'
  <2>1. FirstBatch(New) \in SUBSET Events
    BY BatchTypes
  <2> QED
    BY <1>2, <2>1 DEF ConsumeNew, Begin, LoseReply
<1>3. ASSUME NEW w \in Workers, RecoverPending(w) PROVE WorkerTypeOK'
  <2>1. FirstBatch(Claimable) \in SUBSET Events
    BY BatchTypes
  <2> QED
    BY <1>3, <2>1 DEF RecoverPending, Begin, LoseReply
<1>4. ASSUME NEW w \in Workers, Insert(w) PROVE WorkerTypeOK'
  BY <1>4 DEF Insert, NextInsert, redis
<1>5. ASSUME NEW w \in Workers, Commit(w) PROVE WorkerTypeOK'
  BY <1>5 DEF Commit, redis
<1>6. ASSUME NEW w \in Workers, CommitUnanswered(w) PROVE WorkerTypeOK'
  BY <1>6 DEF CommitUnanswered, Forget, redis
<1>7. ASSUME NEW w \in Workers, Fail(w) PROVE WorkerTypeOK'
  BY <1>7 DEF Fail, Forget, redis
<1>8. ASSUME NEW w \in Workers, Cleanup(w) PROVE WorkerTypeOK'
  BY <1>8 DEF Cleanup, Forget
<1>9. ASSUME NEW w \in Workers, Crash(w) PROVE WorkerTypeOK'
  BY <1>9 DEF Crash, Forget, redis
<1>10. CASE Approve
  BY <1>10 DEF Approve, worker
<1>11. CASE Tick
  BY <1>11 DEF Tick
<1>12. CASE UNCHANGED vars
  BY <1>12 DEF vars, redis, worker
<1>13. CASE FallBehind
  BY <1>13 DEF FallBehind, worker
<1>14. CASE Promote
  BY <1>14 DEF Promote, worker
<1> QED
  BY <1>1, <1>2, <1>3, <1>4, <1>5, <1>6, <1>7, <1>8, <1>9, <1>10, <1>11, <1>12, <1>13, <1>14
  DEF Next, Work

LEMMA IdleStep == TypeOK /\ [Next]_vars => IdleHoldsNothing'
<1> SUFFICES ASSUME TypeOK, [Next]_vars PROVE IdleHoldsNothing'
  OBVIOUS
<1> USE DEF TypeOK, WorkerTypeOK, IdleHoldsNothing
<1>1. ASSUME NEW w \in Workers, Start(w) PROVE IdleHoldsNothing'
  BY <1>1 DEF Start, EnsureGroup
<1>2. ASSUME NEW w \in Workers, ConsumeNew(w) PROVE IdleHoldsNothing'
  BY <1>2 DEF ConsumeNew, Deliver, Begin, LoseReply
<1>3. ASSUME NEW w \in Workers, RecoverPending(w) PROVE IdleHoldsNothing'
  BY <1>3 DEF RecoverPending, Deliver, Begin, LoseReply
<1>4. ASSUME NEW w \in Workers, Insert(w) PROVE IdleHoldsNothing'
  BY <1>4 DEF Insert, NextInsert, redis
<1>5. ASSUME NEW w \in Workers, Commit(w) PROVE IdleHoldsNothing'
  BY <1>5 DEF Commit, redis
<1>6. ASSUME NEW w \in Workers, CommitUnanswered(w) PROVE IdleHoldsNothing'
  BY <1>6 DEF CommitUnanswered, Forget, redis
<1>7. ASSUME NEW w \in Workers, Fail(w) PROVE IdleHoldsNothing'
  BY <1>7 DEF Fail, Forget, redis
<1>8. ASSUME NEW w \in Workers, Cleanup(w) PROVE IdleHoldsNothing'
  BY <1>8 DEF Cleanup, Forget
<1>9. ASSUME NEW w \in Workers, Crash(w) PROVE IdleHoldsNothing'
  BY <1>9 DEF Crash, Forget, redis
<1>10. CASE Approve
  BY <1>10 DEF Approve, worker
<1>11. CASE Tick
  BY <1>11 DEF Tick
<1>12. CASE UNCHANGED vars
  BY <1>12 DEF vars, redis, worker
<1>13. CASE FallBehind
  BY <1>13 DEF FallBehind, worker
<1>14. CASE Promote
  BY <1>14 DEF Promote, worker
<1> QED
  BY <1>1, <1>2, <1>3, <1>4, <1>5, <1>6, <1>7, <1>8, <1>9, <1>10, <1>11, <1>12, <1>13, <1>14
  DEF Next, Work

-----------------------------------------------------------------------------
(* Nothing is stranded: a read moves the group's position past entries it   *)
(* has put in the pending list, and only the cleanup takes them out of both *)
(* the list and the stream.                                                 *)
LEMMA StrandedStep == TypeOK /\ NothingStranded /\ [Next]_vars => NothingStranded'
<1> SUFFICES ASSUME TypeOK, NothingStranded, [Next]_vars PROVE NothingStranded'
  OBVIOUS
<1>t. /\ lastId \in Nat /\ lastDelivered \in Int /\ lastDelivered <= lastId
      /\ \A i \in stream : i \in Nat /\ i >= 1
  BY BoundAssumption DEF TypeOK, RedisTypeOK, NoGroup
<1>1. ASSUME NEW w \in Workers, Start(w) PROVE NothingStranded'
  BY <1>1, <1>t DEF Start, EnsureGroup, NothingStranded, Deliverable, NoGroup
<1>2. ASSUME NEW w \in Workers, ConsumeNew(w) PROVE NothingStranded'
  <2>1. PICK m \in FirstBatch(New) : lastDelivered' = m
    BY <1>2 DEF ConsumeNew
  <2>2. UNCHANGED <<stream, replica>> /\ pending' = pending \cup FirstBatch(New)
    BY <1>2 DEF ConsumeNew, Deliver
  <2>3. /\ FirstBatch(New) \subseteq New
        /\ \A i \in New : i <= m => i \in FirstBatch(New)
    BY NewIsFinite, FirstBatchIsPrefix
  <2>4. New \subseteq stream /\ m \in stream
    BY <2>3 DEF New
  <2>5. ASSUME NEW i \in stream PROVE i > m \/ i \in pending \cup FirstBatch(New)
    <3>1. CASE i > lastDelivered
      <4>1. i \in New
        BY <3>1 DEF New
      <4> QED
        BY <1>t, <2>3, <2>4, <4>1
    <3>2. CASE ~(i > lastDelivered)
      BY <3>2 DEF NothingStranded, Deliverable
    <3> QED
      BY <3>1, <3>2
  <2> QED
    BY <2>1, <2>2, <2>3, <2>4, <2>5 DEF NothingStranded, Deliverable
<1>3. ASSUME NEW w \in Workers, RecoverPending(w) PROVE NothingStranded'
  <2>1. FirstBatch(Claimable) \subseteq pending
    BY DEF FirstBatch, Claimable
  <2>2. UNCHANGED <<stream, lastDelivered, replica>> /\ pending' = pending \cup FirstBatch(Claimable)
    BY <1>3 DEF RecoverPending, Deliver
  <2> QED
    BY <2>1, <2>2 DEF NothingStranded, Deliverable
<1>4. ASSUME NEW w \in Workers, Cleanup(w) PROVE NothingStranded'
  BY <1>4 DEF Cleanup, NothingStranded, Deliverable
<1>5. CASE Approve
  BY <1>5, <1>t DEF Approve, NothingStranded, Deliverable
<1>6. ASSUME UNCHANGED <<stream, lastDelivered, pending, replica>> PROVE NothingStranded'
  BY <1>6 DEF NothingStranded
<1>7. ASSUME NEW w \in Workers,
             Insert(w) \/ Commit(w) \/ CommitUnanswered(w) \/ Fail(w) \/ Crash(w)
      PROVE  NothingStranded'
  BY <1>6, <1>7 DEF Insert, Commit, CommitUnanswered, Fail, Crash, redis
<1>8. ASSUME Tick \/ UNCHANGED vars PROVE NothingStranded'
  BY <1>6, <1>8 DEF Tick, vars, redis
<1>9. CASE FallBehind
  BY <1>9 DEF FallBehind, NothingStranded
<1>10. CASE Promote
  BY <1>10 DEF Promote, NothingStranded
<1> QED
  BY <1>1, <1>2, <1>3, <1>4, <1>5, <1>7, <1>8, <1>9, <1>10 DEF Next, Work

-----------------------------------------------------------------------------
(* No approval is lost: a batch reaches the cleanup only through a commit,  *)
(* and a committed row stays.                                               *)
LEMMA AccountedStep == TypeOK /\ BatchAccounted /\ [Next]_vars => BatchAccounted'
<1> SUFFICES ASSUME TypeOK, BatchAccounted, [Next]_vars PROVE BatchAccounted'
  OBVIOUS
<1> USE DEF TypeOK, WorkerTypeOK, BatchAccounted
<1>1. ASSUME NEW w \in Workers, Start(w) PROVE BatchAccounted'
  BY <1>1 DEF Start
<1>2. ASSUME NEW w \in Workers, ConsumeNew(w) PROVE BatchAccounted'
  BY <1>2 DEF ConsumeNew, Begin, LoseReply
<1>3. ASSUME NEW w \in Workers, RecoverPending(w) PROVE BatchAccounted'
  BY <1>3 DEF RecoverPending, Begin, LoseReply
<1>4. ASSUME NEW w \in Workers, Insert(w) PROVE BatchAccounted'
  BY <1>4 DEF Insert
<1>5. ASSUME NEW w \in Workers, Commit(w) PROVE BatchAccounted'
  BY <1>5 DEF Commit
<1>6. ASSUME NEW w \in Workers, CommitUnanswered(w) PROVE BatchAccounted'
  BY <1>6 DEF CommitUnanswered, Forget
<1>7. ASSUME NEW w \in Workers, Fail(w) \/ Cleanup(w) \/ Crash(w) PROVE BatchAccounted'
  BY <1>7 DEF Fail, Cleanup, Crash, Forget
<1>8. CASE Approve
  BY <1>8 DEF Approve, worker
<1>9. ASSUME Tick \/ FallBehind \/ Promote \/ UNCHANGED vars PROVE BatchAccounted'
  BY <1>9 DEF Tick, FallBehind, Promote, vars, worker
<1> QED
  BY <1>1, <1>2, <1>3, <1>4, <1>5, <1>6, <1>7, <1>8, <1>9 DEF Next, Work

LEMMA LostStep == TypeOK /\ BatchAccounted /\ NoApprovalLost /\ [Next]_vars => NoApprovalLost'
<1> SUFFICES ASSUME TypeOK, BatchAccounted, NoApprovalLost, [Next]_vars PROVE NoApprovalLost'
  OBVIOUS
<1>1. ASSUME NEW w \in Workers, Cleanup(w) PROVE NoApprovalLost'
  BY <1>1 DEF Cleanup, BatchAccounted, NoApprovalLost
<1>2. ASSUME NEW w \in Workers, Commit(w) \/ CommitUnanswered(w) PROVE NoApprovalLost'
  BY <1>2 DEF Commit, CommitUnanswered, redis, NoApprovalLost
<1>3. CASE Approve
  <2>1. lastId \in Nat /\ lastId' = lastId + 1 /\ stream' = stream \cup {lastId + 1} /\ UNCHANGED <<db, lost>>
    BY <1>3, BoundAssumption DEF Approve, TypeOK, RedisTypeOK
  <2>2. 1..(lastId + 1) = (1..lastId) \cup {lastId + 1}
    BY <2>1
  <2> QED
    BY <2>1, <2>2 DEF NoApprovalLost
<1>4. ASSUME UNCHANGED <<lastId, stream, db, lost>> PROVE NoApprovalLost'
  BY <1>4 DEF NoApprovalLost
<1>5. ASSUME NEW w \in Workers,
             Start(w) \/ ConsumeNew(w) \/ RecoverPending(w) \/ Insert(w) \/ Fail(w) \/ Crash(w)
      PROVE  NoApprovalLost'
  BY <1>4, <1>5
  DEF Start, ConsumeNew, RecoverPending, Deliver, Begin, LoseReply, Insert, Fail, Crash, redis
<1>6. ASSUME Tick \/ FallBehind \/ UNCHANGED vars PROVE NoApprovalLost'
  BY <1>4, <1>6 DEF Tick, FallBehind, vars, redis
<1>7. CASE Promote
  BY <1>7 DEF Promote, NoApprovalLost
<1> QED
  BY <1>1, <1>2, <1>3, <1>5, <1>6, <1>7 DEF Next, Work

\* Whatever fails, dies or is delivered twice, an approval is in the stream or
\* committed to PostgreSQL, or it was appended after the promoted replica fell
\* behind; and what is in the stream can still be delivered.
THEOREM DeliverySafety == Spec => [](TypeOK /\ NoApprovalLost /\ NothingStranded)
<1>1. DeliveryInv /\ [Next]_vars => DeliveryInv'
  BY RedisTypeStep, WorkerTypeStep, IdleStep, StrandedStep, AccountedStep, LostStep
  DEF DeliveryInv, TypeOK
<1>2. DeliveryInv => TypeOK /\ NoApprovalLost /\ NothingStranded
  BY DEF DeliveryInv
<1> QED
  BY <1>1, <1>2, DeliveryInit, PTL DEF Spec

\* The stream, the pending entries, the rows and the batches stay in their types.
THEOREM EventsTypeCorrect == Spec => []TypeOK
  BY DeliverySafety, PTL

\* An entry of the stream is new to the group or pending for one of its
\* workers, in Redis and in every replica that may be promoted: XREADGROUP or
\* XAUTOCLAIM can always hand it out.
THEOREM NeverStranded == Spec => []NothingStranded
  BY DeliverySafety, PTL

-----------------------------------------------------------------------------
(* Transactions insert by ascending ID, so of the workers that wait, the    *)
(* one whose next row has the greatest ID can go on.                        *)

\* What an open transaction has inserted precedes what it has yet to insert.
RowsPrecede == \A w \in Workers : \A i \in rows[w], j \in todo[w] : i < j

LEMMA PrecedeStep == TypeOK /\ RowsPrecede /\ [Next]_vars => RowsPrecede'
<1> SUFFICES ASSUME TypeOK, RowsPrecede, [Next]_vars PROVE RowsPrecede'
  OBVIOUS
<1>1. ASSUME NEW w \in Workers, Insert(w) PROVE RowsPrecede'
  <2>1. PICK i \in NextInsert(w) :
          /\ rows' = [rows EXCEPT ![w] = IF i \in db THEN @ ELSE @ \cup {i}]
          /\ todo' = [todo EXCEPT ![w] = @ \ {i}]
    BY <1>1 DEF Insert
  <2>2. i \in todo[w] /\ (\A j \in todo[w] : i <= j) /\ todo[w] \subseteq Events
    BY DEF NextInsert, TypeOK, WorkerTypeOK
  <2>3. \A j \in todo[w] \ {i} : i < j
    BY <2>2 DEF Events
  <2>4. \A v \in Workers : /\ rows'[v] \subseteq (IF v = w THEN rows[v] \cup {i} ELSE rows[v])
                           /\ todo'[v] = (IF v = w THEN todo[v] \ {i} ELSE todo[v])
    BY <2>1 DEF TypeOK, WorkerTypeOK
  <2> QED
    BY <2>3, <2>4 DEF RowsPrecede
<1>2. ASSUME NEW w \in Workers, ConsumeNew(w) \/ RecoverPending(w) PROVE RowsPrecede'
  <2>1. /\ rows' = rows /\ rows[w] = {}
        /\ \A v \in Workers \ {w} : todo'[v] = todo[v]
    BY <1>2 DEF ConsumeNew, RecoverPending, Begin, LoseReply, TypeOK, WorkerTypeOK, IdleHoldsNothing
  <2> QED
    BY <2>1 DEF RowsPrecede
<1>3. ASSUME NEW w \in Workers, Commit(w) \/ CommitUnanswered(w) \/ Fail(w) \/ Cleanup(w) \/ Crash(w)
      PROVE  RowsPrecede'
  <2>1. \A v \in Workers : rows'[v] \subseteq rows[v] /\ todo'[v] \subseteq todo[v]
    BY <1>3 DEF Commit, CommitUnanswered, Fail, Cleanup, Crash, Forget, TypeOK, WorkerTypeOK
  <2> QED
    BY <2>1 DEF RowsPrecede
<1>4. ASSUME UNCHANGED <<rows, todo>> PROVE RowsPrecede'
  BY <1>4 DEF RowsPrecede
<1>5. ASSUME NEW w \in Workers, Start(w) PROVE RowsPrecede'
  BY <1>4, <1>5 DEF Start
<1>6. ASSUME Approve \/ Tick \/ FallBehind \/ Promote \/ UNCHANGED vars PROVE RowsPrecede'
  BY <1>4, <1>6 DEF Approve, Tick, FallBehind, Promote, vars, worker
<1> QED
  BY <1>1, <1>2, <1>3, <1>5, <1>6 DEF Next, Work

LEMMA PrecedeImpliesNoDeadlock == TypeOK /\ RowsPrecede => NoTransactionDeadlock
<1> SUFFICES ASSUME TypeOK, RowsPrecede, NEW W \in SUBSET Inserting, W # {}
             PROVE  \E w \in W : \/ todo[w] = {}
                                 \/ \E i \in NextInsert(w) : \A v \in W \ {w} : i \notin rows[v]
  BY DEF NoTransactionDeadlock
<1> SUFFICES ASSUME \A w \in W : todo[w] # {}
             PROVE  \E w \in W : \E i \in NextInsert(w) : \A v \in W \ {w} : i \notin rows[v]
  OBVIOUS
<1> DEFINE Heads == UNION {NextInsert(w) : w \in W}
<1>1. \A w \in W : w \in Workers /\ todo[w] \subseteq 1..MaxEvents /\ todo[w] \in SUBSET Nat
  BY DEF Inserting, TypeOK, WorkerTypeOK, Events
<1>2. ASSUME NEW w \in W PROVE NextInsert(w) # {} /\ NextInsert(w) \subseteq todo[w]
  BY <1>1, SmallestOf DEF NextInsert
<1>3. Heads \in SUBSET (1..MaxEvents) /\ Heads # {} /\ MaxEvents \in Nat
  BY <1>1, <1>2, BoundAssumption
<1>4. PICK m \in Heads : \A i \in Heads : i <= m
  <2>1. Heads \in SUBSET (0..MaxEvents)
    <3> HIDE DEF Heads
    <3> QED
      BY <1>3
  <2> QED
    BY <1>3, <2>1, GreatestOf
<1>5. PICK w \in W : m \in NextInsert(w)
  BY <1>4
<1>6. ASSUME NEW v \in W, m \in rows[v] PROVE FALSE
  <2>1. PICK j \in NextInsert(v) : j \in todo[v] /\ j \in Heads
    BY <1>2
  <2>2. j <= m /\ m < j /\ j \in Nat /\ m \in Nat
    BY <1>1, <1>3, <1>4, <1>6, <2>1 DEF RowsPrecede
  <2> QED
    BY <2>2
<1> QED
  BY <1>5, <1>6

\* Open transactions whose batches overlap, after a claim took entries from a
\* slow worker, never wait for each other in a circle, however many workers
\* there are.
THEOREM TransactionsNeverDeadlock == Spec => []NoTransactionDeadlock
<1>1. Init => RowsPrecede
  BY DEF Init, RowsPrecede
<1>2. Spec => []TypeOK
  BY DeliverySafety, PTL
<1>3. TypeOK /\ RowsPrecede /\ [Next]_vars => RowsPrecede'
  BY PrecedeStep
<1> QED
  BY <1>1, <1>2, <1>3, PrecedeImpliesNoDeadlock, PTL DEF Spec
=============================================================================

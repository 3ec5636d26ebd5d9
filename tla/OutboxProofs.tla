---------------------------- MODULE OutboxProofs ----------------------------
(***************************************************************************)
(* Type correctness of the outbox, and the outbox is an ordered,           *)
(* effectively-once log, for every number of writers, relays, workers,     *)
(* lanes and events: claims, failures, handlers and appends keep the order *)
(* of the lanes, and the outbox implements OrderedDelivery, where a commit *)
(* of writers is a Publish, the commit of a handler is an Apply, and a row *)
(* operation of a relay or of _record_failure is a DeadLetter or leaves    *)
(* the abstract state unchanged.                                           *)
(***************************************************************************)
EXTENDS Outbox, TLAPS

-----------------------------------------------------------------------------
(* Facts about the operators of the model *)

\* The entries of a log.
LEMMA LogFacts ==
  ASSUME NEW S, NEW log \in Seq(S)
  PROVE  /\ Len(log) \in Nat /\ (log # << >> => Len(log) > 0)
         /\ \A i \in 1 .. Len(log) : log[i] \in S
  OBVIOUS

\* What a log is after an event is appended.
LEMMA AppendFacts ==
  ASSUME NEW S, NEW log \in Seq(S), NEW e \in S
  PROVE  /\ Append(log, e) \in Seq(S) /\ Append(log, e) # << >>
         /\ Len(log) \in Nat /\ Len(Append(log, e)) = Len(log) + 1
         /\ Append(log, e)[Len(log) + 1] = e
         /\ \A i \in 1 .. Len(log) : Append(log, e)[i] = log[i]
  OBVIOUS

\* A retry is scheduled a natural number of seconds ahead.
LEMMA RetryDelayNat == \A n : RetryDelay(n) \in Nat
  BY OutboxAssumption DEF RetryDelay

\* The row operations of claim, record, release, execute and _record_failure
\* return rows.
LEMMA RowOperations ==
  ASSUME NEW row \in OutboxDelivery, NEW at \in Nat, NEW ok \in BOOLEAN,
         now \in Nat
  PROVE  /\ ClearLease(row) \in OutboxDelivery
         /\ DeadLettered(row) \in OutboxDelivery
         /\ \A r \in Relays : Leased(row, r, at) \in OutboxDelivery
         /\ WithOutcome(row, ok, at) \in OutboxDelivery
         /\ ReleasedRow(row) \in OutboxDelivery
         /\ SucceededRow(row) \in OutboxDelivery
         /\ FailedRow(row) \in OutboxDelivery
<1>1. ClearLease(row) \in OutboxDelivery
  BY Zenon DEF ClearLease, OutboxDelivery, Tokens
<1>2. DeadLettered(row) \in OutboxDelivery
  BY <1>1 DEF DeadLettered, OutboxDelivery, Statuses, Unfinished
<1>3. ASSUME NEW r \in Relays PROVE Leased(row, r, at) \in OutboxDelivery
  <2>1. at + LeaseDuration \in Nat
    BY OutboxAssumption
  <2>2. row.enqueue_count + 1 \in Nat
    BY DEF OutboxDelivery
  <2>3. {r} \in SUBSET Relays
    OBVIOUS
  <2> QED BY <2>1, <2>2, <2>3, Zenon DEF Leased, OutboxDelivery, Statuses, Unfinished, Tokens
<1>4. WithOutcome(row, ok, at) \in OutboxDelivery
  <2> DEFINE later == at + RetryDelay(row.enqueue_count)
  <2>1. later \in Nat
    BY RetryDelayNat
  <2> HIDE DEF later
  <2>2. [row EXCEPT !.enqueued = TRUE] \in OutboxDelivery
    BY Zenon DEF OutboxDelivery
  <2>3. [ClearLease(row) EXCEPT !.status = "pending",
            !.available_at = later,
            !.enqueued = FALSE] \in OutboxDelivery
    BY <1>1, <2>1, Zenon DEF OutboxDelivery, Statuses, Unfinished
  <2> QED BY <2>2, <2>3 DEF WithOutcome, later
<1>5. ReleasedRow(row) \in OutboxDelivery
  BY <1>1 DEF ReleasedRow, OutboxDelivery, Statuses, Unfinished
<1>6. SucceededRow(row) \in OutboxDelivery
  <2> DEFINE attempts == row.attempt_count + 1
  <2>1. attempts \in Nat
    BY DEF OutboxDelivery
  <2> HIDE DEF attempts
  <2>2. [ClearLease(row) EXCEPT !.status = "succeeded", !.attempt_count = attempts]
          \in OutboxDelivery
    BY <1>1, <2>1, Zenon DEF OutboxDelivery, Statuses
  <2> QED BY <2>2 DEF SucceededRow, attempts
<1>7. FailedRow(row) \in OutboxDelivery
  <2> DEFINE later == now + RetryDelay(row.attempt_count + 1)
  <2>1. later \in Nat
    BY RetryDelayNat
  <2>2. row.attempt_count + 1 \in Nat
    BY DEF OutboxDelivery
  <2> DEFINE cleared == [ClearLease(row) EXCEPT !.attempt_count = row.attempt_count + 1,
                                                !.enqueued = FALSE]
  <2>3. cleared \in OutboxDelivery
    BY <1>1, <2>2, Zenon DEF OutboxDelivery
  <2> HIDE DEF cleared, later
  <2>4. [cleared EXCEPT !.status = "dead"] \in OutboxDelivery
    BY <2>3 DEF OutboxDelivery, Statuses, Unfinished
  <2>5. [cleared EXCEPT !.status = "pending",
            !.available_at = later] \in OutboxDelivery
    BY <2>1, <2>3, Zenon DEF OutboxDelivery, Statuses, Unfinished
  <2> QED BY <2>4, <2>5 DEF FailedRow, cleared, later
<1> QED BY <1>1, <1>2, <1>3, <1>4, <1>5, <1>6, <1>7

-----------------------------------------------------------------------------
(* Type correctness *)

\* Idle processes are well typed.
LEMMA IdleTypes ==
  /\ IdleWriter \in WriterStates
  /\ IdleRelay \in RelayStates
  /\ IdleWorker \in WorkerStates
  BY DEF IdleWriter, WriterStates, IdleRelay, RelayStates, IdleWorker, WorkerStates

\* The initial state is well typed.
LEMMA TypeInit == Init => TypeOK
<1> SUFFICES ASSUME Init PROVE TypeOK
  OBVIOUS
<1> DEFINE p0 == CHOOSE p \in Partitions : TRUE
<1>1. p0 \in Partitions
  BY OutboxAssumption
<1> HIDE DEF p0
<1>2. AbsentRow(p0) \in OutboxDelivery
  BY <1>1, Zenon DEF AbsentRow, PendingRow, OutboxDelivery, Statuses, Unfinished, Tokens
<1>3. delivery \in [DeliveryIds -> OutboxDelivery]
  BY <1>2, Zenon DEF Init, p0
<1>4. /\ writer \in [Writers -> WriterStates]
      /\ relay \in [Relays -> RelayStates]
      /\ worker \in [Workers -> WorkerStates]
  BY IdleTypes DEF Init
<1>5. \A k \in Workers : worker[k].pc # "idle" => worker[k].reference \in References
  BY DEF Init, IdleWorker
<1>6. applied \in [Lanes -> Seq(Positions)]
  BY DEF Init
<1> QED BY <1>3, <1>4, <1>5, <1>6 DEF Init, TypeOK

\* A step of an application transaction preserves the types.
LEMMA WriterTypes ==
  ASSUME TypeOK, NEW w \in Writers, WriterStep(w)
  PROVE  TypeOK'
<1>0. writer[w] \in WriterStates
  BY DEF TypeOK
<1>1. ASSUME NEW cs \in (SUBSET Consumers) \ {{}}, NEW p \in Partitions,
             BeginAppend(w, cs, p)
      PROVE  TypeOK'
  <2> DEFINE keys == {LaneKey(lane) : lane \in cs \X {p}} \ writer[w].held
  <2> DEFINE lanes == cs \X {p}
  <2>1. keys \in SUBSET Nat
    BY OutboxAssumption DEF LaneKey
  <2>2. lanes \in SUBSET Lanes
    BY DEF Lanes
  <2>3. writer' = [writer EXCEPT ![w] =
                     [@ EXCEPT !.pc = "locking", !.lanes = lanes, !.wanted = keys]]
    BY <1>1 DEF BeginAppend
  <2> HIDE DEF keys, lanes
  <2>4. [writer[w] EXCEPT !.pc = "locking", !.lanes = lanes, !.wanted = keys]
          \in WriterStates
    BY <1>0, <2>1, <2>2, Zenon DEF WriterStates
  <2>5. writer' \in [Writers -> WriterStates]
    BY <2>3, <2>4 DEF TypeOK
  <2> QED BY <1>1, <2>5 DEF BeginAppend, TypeOK
<1>2. CASE AcquireLock(w)
  <2>1. PICK key \in writer[w].wanted : Lock(w, key)
    BY <1>2 DEF AcquireLock
  <2>2. [writer[w] EXCEPT !.wanted = writer[w].wanted \ {key},
                         !.held = writer[w].held \cup {key}] \in WriterStates
    BY <1>0, Zenon DEF WriterStates
  <2>3. writer' \in [Writers -> WriterStates]
    BY <2>1, <2>2 DEF Lock, TypeOK
  <2> QED BY <2>1, <2>3 DEF Lock, TypeOK
<1>3. CASE Flush(w)
  <2> DEFINE new == {NewRow(lane) : lane \in writer[w].lanes}
  <2>1. new \in SUBSET NewRows
    <3> SUFFICES ASSUME NEW lane \in writer[w].lanes PROVE NewRow(lane) \in NewRows
      OBVIOUS
    <3>1. position \in Positions
      BY <1>3, OutboxAssumption DEF Flush, Insert, TypeOK, Positions
    <3>2. lane \in Lanes
      BY <1>0 DEF WriterStates
    <3>3. lane[1] \in Consumers /\ lane[2] \in Partitions
      BY <3>2 DEF Lanes
    <3>4. <<position, lane[1]>> \in DeliveryIds
      BY <3>1, <3>3 DEF DeliveryIds
    <3> QED BY <3>3, <3>4 DEF NewRow, NewRows, TypeOK
  <2>2. writer' = [writer EXCEPT ![w] =
                     [@ EXCEPT !.pc = "open", !.lanes = {},
                               !.rows = writer[w].rows \cup new]]
    BY <1>3 DEF Flush, Insert
  <2> HIDE DEF new
  <2>3. [writer[w] EXCEPT !.pc = "open", !.lanes = {},
                         !.rows = writer[w].rows \cup new]
          \in WriterStates
    BY <1>0, <2>1, Zenon DEF WriterStates
  <2>4. writer' \in [Writers -> WriterStates]
    BY <2>2, <2>3 DEF TypeOK
  <2>5. position' \in Nat \ {0}
    BY <1>3 DEF Flush, Insert, TypeOK
  <2> QED BY <1>3, <2>4, <2>5 DEF Flush, Insert, TypeOK
<1>4. CASE Commit(w)
  <2>1. writer' \in [Writers -> WriterStates]
    BY <1>4, IdleTypes DEF Commit, TypeOK
  <2>2. ASSUME NEW row \in writer[w].rows
        PROVE  PendingRow(row.partition_key, row.available_at) \in OutboxDelivery
    <3>1. row \in NewRows
      BY <1>0 DEF WriterStates
    <3> QED BY <3>1 DEF NewRows, PendingRow, OutboxDelivery, Statuses, Unfinished, Tokens
  <2>3. delivery' \in [DeliveryIds -> OutboxDelivery]
    <3> SUFFICES ASSUME NEW d \in DeliveryIds PROVE delivery'[d] \in OutboxDelivery
      BY <1>4 DEF Commit
    <3>1. CASE \E row \in writer[w].rows : row.id = d
      <4> DEFINE chosen == CHOOSE row \in writer[w].rows : row.id = d
      <4>1. chosen \in writer[w].rows
        BY <3>1
      <4>2. delivery'[d] = PendingRow(chosen.partition_key, chosen.available_at)
        BY <1>4, <3>1 DEF Commit
      <4> HIDE DEF chosen
      <4> QED BY <2>2, <4>1, <4>2
    <3>2. CASE ~ \E row \in writer[w].rows : row.id = d
      BY <1>4, <3>2 DEF Commit, TypeOK
    <3> QED BY <3>1, <3>2
  <2> QED BY <1>4, <2>1, <2>3 DEF Commit, TypeOK
<1>5. CASE Rollback(w)
  BY <1>5, IdleTypes DEF Rollback, TypeOK
<1> QED BY <1>1, <1>2, <1>3, <1>4, <1>5 DEF WriterStep

\* record_enqueue_outcomes leaves rows.
LEMMA OutcomesRecordedType ==
  ASSUME TypeOK, NEW r \in Relays, OutcomesRecorded(r)
  PROVE  delivery' \in [DeliveryIds -> OutboxDelivery]
<1>0. relay[r] \in RelayStates
  BY DEF TypeOK
<1> SUFFICES ASSUME NEW d \in DeliveryIds PROVE delivery'[d] \in OutboxDelivery
  BY Zenon DEF OutcomesRecorded
<1>1. delivery[d] \in OutboxDelivery
  BY DEF TypeOK
<1> DEFINE mine == \E outcome \in relay[r].outcomes :
                     /\ outcome.reference[1] = d
                     /\ OwnsLiveLease(delivery[d], outcome.reference, r, relay[r].at)
<1>2. CASE mine
  <2> DEFINE chosen == CHOOSE outcome \in relay[r].outcomes : outcome.reference[1] = d
  <2>1. chosen \in relay[r].outcomes
    BY <1>2
  <2>2. delivery'[d] = WithOutcome(delivery[d], chosen.ok, relay[r].at)
    BY <1>2 DEF OutcomesRecorded
  <2> HIDE DEF chosen
  <2>3. chosen.ok \in BOOLEAN /\ relay[r].at \in Nat
    BY <1>0, <2>1 DEF RelayStates
  <2> QED BY <1>1, <2>2, <2>3, RowOperations, Zenon DEF TypeOK
<1>3. CASE ~mine
  BY <1>1, <1>3 DEF OutcomesRecorded
<1> QED BY <1>2, <1>3

\* A step of a relay preserves the types.
LEMMA RelayTypes ==
  ASSUME TypeOK, NEW r \in Relays, RelayStep(r)
  PROVE  TypeOK'
<1>0. relay[r] \in RelayStates
  BY DEF TypeOK
<1>1. CASE ClaimBegin(r)
  <2>1. [relay[r] EXCEPT !.pc = "claiming", !.at = now] \in RelayStates
    BY <1>0, Zenon DEF TypeOK, RelayStates
  <2>2. relay' \in [Relays -> RelayStates]
    BY <1>1, <2>1 DEF ClaimBegin, TypeOK
  <2> QED BY <1>1, <2>2 DEF ClaimBegin, TypeOK
<1>2. CASE Claim(r)
  <2>1. PICK dead \in Earliest(Exhausted(relay[r].at), BatchSize),
             leased \in Earliest(Due(relay[r].at), BatchSize) :
          /\ delivery' = [d \in DeliveryIds |->
               IF d \in dead THEN DeadLettered(delivery[d])
               ELSE IF d \in leased THEN Leased(delivery[d], r, relay[r].at)
               ELSE delivery[d]]
          /\ relay' = [relay EXCEPT ![r] =
               IF leased = {} THEN IdleRelay
               ELSE [IdleRelay EXCEPT
                       !.pc = "publishing",
                       !.unattempted =
                         {<<d, delivery[d].enqueue_count + 1>> : d \in leased}]]
    BY <1>2, Zenon DEF Claim
  <2>2. leased \subseteq DeliveryIds
    BY DEF Earliest, Due
  <2>3. delivery' \in [DeliveryIds -> OutboxDelivery]
    <3> SUFFICES ASSUME NEW d \in DeliveryIds PROVE delivery'[d] \in OutboxDelivery
      BY <2>1
    <3>1. delivery[d] \in OutboxDelivery /\ relay[r].at \in Nat
      BY <1>0 DEF TypeOK, RelayStates
    <3>2. DeadLettered(delivery[d]) \in OutboxDelivery
      BY <3>1, RowOperations, Zenon DEF TypeOK
    <3>3. Leased(delivery[d], r, relay[r].at) \in OutboxDelivery
      BY <3>1, RowOperations, Zenon DEF TypeOK
    <3> QED BY <2>1, <3>1, <3>2, <3>3
  <2> DEFINE refs == {<<d, delivery[d].enqueue_count + 1>> : d \in leased}
  <2>4. refs \in SUBSET References
    BY <2>2 DEF TypeOK, OutboxDelivery, References, Tokens
  <2>5. relay' = [relay EXCEPT ![r] =
                    IF leased = {} THEN IdleRelay
                    ELSE [IdleRelay EXCEPT !.pc = "publishing", !.unattempted = refs]]
    BY <2>1
  <2> HIDE DEF refs
  <2>6. [IdleRelay EXCEPT !.pc = "publishing", !.unattempted = refs] \in RelayStates
    BY <2>4, IdleTypes, Zenon DEF RelayStates
  <2>7. relay' \in [Relays -> RelayStates]
    BY <2>5, <2>6, IdleTypes DEF TypeOK
  <2> QED BY <1>2, <2>3, <2>7 DEF Claim, TypeOK
<1>3. CASE StartChunk(r)
  <2>1. PICK chunk \in Chunks(r) : Publish(r, chunk, relay[r].unattempted \ chunk)
    BY <1>3, Zenon DEF StartChunk
  <2>2. chunk \subseteq relay[r].unattempted
    BY DEF Chunks, Earliest
  <2>3. [relay[r] EXCEPT !.chunk = chunk, !.unattempted = relay[r].unattempted \ chunk]
          \in RelayStates
    BY <1>0, <2>2, Zenon DEF RelayStates
  <2>4. relay' \in [Relays -> RelayStates]
    BY <2>1, <2>3 DEF Publish, TypeOK
  <2> QED BY <2>1, <2>4 DEF Publish, TypeOK
<1>4. ASSUME NEW ref \in relay[r].chunk, NEW ok \in BOOLEAN, Settle(r, ref, ok)
      PROVE  relay' \in [Relays -> RelayStates] /\ ref \in References
  <2>1. ref \in References
    BY <1>0 DEF RelayStates
  <2> DEFINE outcomes == relay[r].outcomes \cup {[reference |-> ref, ok |-> ok]}
             chunk == relay[r].chunk \ {ref}
  <2>2. outcomes \in SUBSET [reference : References, ok : BOOLEAN]
    BY <1>0, <2>1 DEF RelayStates
  <2>3. chunk \in SUBSET References
    BY <1>0 DEF RelayStates
  <2>4. relay' = [relay EXCEPT ![r] = [@ EXCEPT !.chunk = chunk, !.outcomes = outcomes]]
    BY <1>4 DEF Settle
  <2> HIDE DEF outcomes, chunk
  <2>5. [relay[r] EXCEPT !.chunk = chunk, !.outcomes = outcomes] \in RelayStates
    BY <1>0, <2>2, <2>3, Zenon DEF RelayStates
  <2> QED BY <2>1, <2>4, <2>5 DEF TypeOK
<1>5. ASSUME NEW ref \in relay[r].chunk, Enqueue(r, ref) PROVE TypeOK'
  BY <1>4, <1>5, Zenon DEF Enqueue, TypeOK
<1>6. ASSUME NEW ref \in relay[r].chunk, EnqueueError(r, ref) PROVE TypeOK'
  <2>1. relay' \in [Relays -> RelayStates] /\ ref \in References
    BY <1>4, <1>6, Zenon DEF EnqueueError
  <2> QED BY <1>6, <2>1 DEF EnqueueError, Fault, TypeOK
<1>7. CASE RecordBegin(r)
  <2>1. [relay[r] EXCEPT !.pc = "recording", !.at = now] \in RelayStates
    BY <1>0, Zenon DEF TypeOK, RelayStates
  <2>2. relay' \in [Relays -> RelayStates]
    BY <1>7, <2>1 DEF RecordBegin, TypeOK
  <2> QED BY <1>7, <2>2 DEF RecordBegin, TypeOK
<1>8. CASE RecordOutcomes(r)
  <2>1. delivery' \in [DeliveryIds -> OutboxDelivery]
    BY <1>8, OutcomesRecordedType DEF RecordOutcomes
  <2>2. relay' \in [Relays -> RelayStates]
    BY <1>8, IdleTypes DEF RecordOutcomes, TypeOK
  <2> QED BY <1>8, <2>1, <2>2 DEF RecordOutcomes, TypeOK
<1>9. CASE Cancel(r)
  <2>1. [relay[r] EXCEPT !.pc = "cancelled", !.chunk = {}, !.at = now] \in RelayStates
    BY <1>0, Zenon DEF TypeOK, RelayStates
  <2>2. relay' \in [Relays -> RelayStates]
    BY <1>9, <2>1 DEF Cancel, TypeOK
  <2>3. stream' \in SUBSET References
    BY <1>0, <1>9 DEF Cancel, TypeOK, RelayStates
  <2> QED BY <1>9, <2>2, <2>3 DEF Cancel, Fault, TypeOK
<1>10. CASE RecordCancelled(r)
  <2>1. delivery' \in [DeliveryIds -> OutboxDelivery]
    BY <1>10, OutcomesRecordedType DEF RecordCancelled, TypeOK
  <2>2. [relay[r] EXCEPT !.pc = "releasing", !.outcomes = {}] \in RelayStates
    BY <1>0, Zenon DEF RelayStates
  <2>3. relay' \in [Relays -> RelayStates]
    BY <1>10, <2>2 DEF RecordCancelled, TypeOK
  <2> QED BY <1>10, <2>1, <2>3 DEF RecordCancelled, TypeOK
<1>11. CASE Release(r)
  <2>1. relay' \in [Relays -> RelayStates]
    BY <1>11, IdleTypes DEF Release, TypeOK
  <2>2. ASSUME NEW d \in DeliveryIds
        PROVE  ReleasedRow(delivery[d]) \in OutboxDelivery
    BY RowOperations, Zenon DEF TypeOK
  <2>3. delivery' \in [DeliveryIds -> OutboxDelivery]
    BY <1>11, <2>2 DEF Release, TypeOK
  <2> QED BY <1>11, <2>1, <2>3 DEF Release, TypeOK
<1>12. CASE AbandonBatch(r)
  BY <1>12, IdleTypes DEF AbandonBatch, Fault, TypeOK
<1> QED BY <1>1, <1>2, <1>3, <1>5, <1>6, <1>7, <1>8, <1>9, <1>10, <1>11, <1>12
        DEF RelayStep

\* The lane of a delivery is one of the lanes.
LEMMA LaneType ==
  ASSUME TypeOK, NEW d \in DeliveryIds
  PROVE  Lane(d) \in Lanes /\ d[1] \in Positions /\ d[2] \in Consumers /\ d = <<d[1], d[2]>>
  BY DEF TypeOK, DeliveryIds, Lane, Lanes, OutboxDelivery

\* The commit of a handler preserves the types.
LEMMA HandlerCommittedTypes ==
  ASSUME TypeOK, NEW k \in Workers, HandlerCommitted(k)
  PROVE  /\ worker[k].reference \in References
         /\ worker[k].reference[1] \in DeliveryIds
         /\ delivery' \in [DeliveryIds -> OutboxDelivery]
         /\ applied' \in [Lanes -> Seq(Positions)]
         /\ checkpoint' \in [Lanes -> Nat]
<1> DEFINE d == worker[k].reference[1]
<1>1. worker[k].reference \in References
  BY DEF TypeOK, HandlerCommitted
<1>2. d \in DeliveryIds
  BY <1>1 DEF References
<1>3. Lane(d) \in Lanes /\ d[1] \in Positions /\ d[1] \in Nat
  BY <1>2, LaneType, OutboxAssumption DEF Positions
<1>4. delivery' \in [DeliveryIds -> OutboxDelivery]
  <2>1. SucceededRow(delivery[d]) \in OutboxDelivery
    BY <1>2, RowOperations, Zenon DEF TypeOK
  <2> QED BY <1>2, <2>1 DEF HandlerCommitted, TypeOK
<1>5. applied' \in [Lanes -> Seq(Positions)]
  <2>1. Append(applied[Lane(d)], d[1]) \in Seq(Positions)
    BY <1>3, AppendFacts DEF TypeOK
  <2> QED BY <2>1, Zenon DEF HandlerCommitted, TypeOK
<1>6. checkpoint' \in [Lanes -> Nat]
  BY <1>3 DEF HandlerCommitted, AdvanceCheckpoint, TypeOK
<1> QED BY <1>1, <1>2, <1>4, <1>5, <1>6

\* A step of a worker preserves the types.
LEMMA WorkerTypes ==
  ASSUME TypeOK, NEW k \in Workers, WorkerStep(k)
  PROVE  TypeOK'
<1> DEFINE Execution(w) ==
      /\ w \in [Workers -> WorkerStates]
      /\ \A j \in Workers : w[j].pc # "idle" => w[j].reference \in References
<1>0. Execution(worker)
  BY DEF TypeOK
<1>1. Execution([worker EXCEPT ![k] = IdleWorker])
  BY IdleTypes DEF TypeOK, IdleWorker
<1>2. ASSUME worker[k].pc # "idle", NEW pc \in {"handling", "failed"}
      PROVE  Execution([worker EXCEPT ![k].pc = pc])
  BY <1>2, Zenon DEF TypeOK, WorkerStates
<1>3. ASSUME Acknowledge(k)
      PROVE  Execution(worker') /\ stream' \in SUBSET References
  BY <1>1, <1>3 DEF Acknowledge, TypeOK
<1>4. ASSUME NEW ref \in stream, Receive(k, ref) PROVE TypeOK'
  <2>1. ref \in References
    BY DEF TypeOK
  <2>2. [pc |-> "received", reference |-> ref] \in WorkerStates
    BY <2>1 DEF WorkerStates
  <2>3. Execution(worker')
    BY <1>4, <2>1, <2>2 DEF Receive, TypeOK
  <2> QED BY <1>4, <2>3 DEF Receive, TypeOK
<1>5. CASE StartHandler(k)
  <2>1. Execution(worker')
    BY <1>2, <1>5 DEF StartHandler, RunHandler
  <2> QED BY <1>5, <2>1 DEF StartHandler, RunHandler, TypeOK
<1>6. CASE DiscardStale(k)
  BY <1>3, <1>6 DEF DiscardStale, TypeOK
<1>7. CASE Succeed(k)
  BY <1>3, <1>7, HandlerCommittedTypes DEF Succeed, TypeOK
<1>8. CASE SucceedUnconfirmed(k)
  <2>1. Execution(worker')
    BY <1>2, <1>8 DEF SucceedUnconfirmed, HandlerCommitted
  <2> QED BY <1>8, <2>1, HandlerCommittedTypes DEF SucceedUnconfirmed, Fault, TypeOK
<1>9. CASE Fail(k)
  <2>1. Execution(worker')
    BY <1>2, <1>9, Zenon DEF Fail
  <2> QED BY <1>9, <2>1 DEF Fail, TypeOK
<1>10. CASE RecordFailure(k)
  <2> DEFINE d == worker[k].reference[1]
  <2>1. d \in DeliveryIds
    BY <1>10 DEF RecordFailure, TypeOK, References
  <2>2. FailedRow(delivery[d]) \in OutboxDelivery
    BY <2>1, RowOperations, Zenon DEF TypeOK
  <2>3. delivery' \in [DeliveryIds -> OutboxDelivery]
    BY <1>10, <2>1, <2>2, Zenon DEF RecordFailure, TypeOK
  <2>4. Execution(worker') /\ stream' \in SUBSET References
    BY <1>3, <1>10 DEF RecordFailure
  <2> QED BY <1>10, <2>3, <2>4 DEF RecordFailure, TypeOK
<1>11. CASE RecordFailureLost(k)
  BY <1>3, <1>11 DEF RecordFailureLost, Fault, TypeOK
<1>12. CASE WorkerCrash(k)
  BY <1>1, <1>12 DEF WorkerCrash, Fault, TypeOK
<1> QED BY <1>4, <1>5, <1>6, <1>7, <1>8, <1>9, <1>10, <1>11, <1>12 DEF WorkerStep

\* Every step preserves the types.
LEMMA TypeNext == TypeOK /\ [Next]_vars => TypeOK'
<1> SUFFICES ASSUME TypeOK, [Next]_vars PROVE TypeOK'
  OBVIOUS
<1>1. CASE \E w \in Writers : WriterStep(w)
  BY <1>1, WriterTypes
<1>2. CASE \E r \in Relays : RelayStep(r)
  BY <1>2, RelayTypes
<1>3. CASE \E k \in Workers : WorkerStep(k)
  BY <1>3, WorkerTypes
<1>4. ASSUME NEW ref \in stream, Trim(ref) PROVE TypeOK'
  BY <1>4 DEF Trim, Fault, TypeOK
<1>5. CASE Tick
  BY <1>5 DEF Tick, TypeOK
<1>6. CASE UNCHANGED vars
  BY <1>6 DEF vars, TypeOK
<1> QED BY <1>1, <1>2, <1>3, <1>4, <1>5, <1>6 DEF Next

\* Every variable keeps its type in every behaviour of the outbox.
THEOREM TypeCorrect == Spec => []TypeOK
  BY TypeInit, TypeNext, PTL DEF Spec

-----------------------------------------------------------------------------
(* What a step does to the rows and to the row locks *)

\* A handler of the delivery has failed or succeeded, or the delivery is dead.
Attempted(d) ==
  /\ Visible(d)
  /\ delivery[d].attempt_count > 0 \/ delivery[d].status = "dead"

\* A relay or a failed execution leaves a row alone, or moves an unlocked,
\* unfinished row; it starts a run only at the front of the row's lane.
DispatchStep(d) ==
  \/ delivery'[d] = delivery[d]
  \/ /\ delivery[d].status \in {"pending", "running"}
     /\ ~Locked(d)
     /\ delivery'[d].partition_key = delivery[d].partition_key
     /\ delivery'[d].status \in Unfinished
     /\ delivery'[d].status = "running" =>
          delivery[d].status = "running" \/ ~EarlierUnfinished(d)
     /\ Attempted(d)' => Attempted(d) \/ delivery[d].status = "running"

\* No worker starts a handler or changes the delivery it handles.
NoNewHandler ==
  \A j \in Workers : worker'[j].pc = "handling" => worker'[j] = worker[j]

\* The fields of a row after each row operation.
LEMMA RowFields ==
  ASSUME NEW row \in OutboxDelivery, NEW at, NEW r, NEW ok
  PROVE  /\ DeadLettered(row).status = "dead"
         /\ DeadLettered(row).partition_key = row.partition_key
         /\ DeadLettered(row).attempt_count = row.attempt_count
         /\ Leased(row, r, at).status = "running"
         /\ Leased(row, r, at).partition_key = row.partition_key
         /\ Leased(row, r, at).attempt_count = row.attempt_count
         /\ WithOutcome(row, ok, at).status = IF ok THEN row.status ELSE "pending"
         /\ WithOutcome(row, ok, at).partition_key = row.partition_key
         /\ WithOutcome(row, ok, at).attempt_count = row.attempt_count
         /\ ReleasedRow(row).status = "pending"
         /\ ReleasedRow(row).partition_key = row.partition_key
         /\ ReleasedRow(row).attempt_count = row.attempt_count
<1>1. /\ DeadLettered(row).status = "dead"
      /\ DeadLettered(row).partition_key = row.partition_key
      /\ DeadLettered(row).attempt_count = row.attempt_count
  BY DEF DeadLettered, ClearLease, OutboxDelivery
<1>2. /\ Leased(row, r, at).status = "running"
      /\ Leased(row, r, at).partition_key = row.partition_key
      /\ Leased(row, r, at).attempt_count = row.attempt_count
  BY DEF Leased, OutboxDelivery
<1>3. /\ WithOutcome(row, ok, at).status = IF ok THEN row.status ELSE "pending"
      /\ WithOutcome(row, ok, at).partition_key = row.partition_key
      /\ WithOutcome(row, ok, at).attempt_count = row.attempt_count
  BY DEF WithOutcome, ClearLease, OutboxDelivery
<1>4. /\ ReleasedRow(row).status = "pending"
      /\ ReleasedRow(row).partition_key = row.partition_key
      /\ ReleasedRow(row).attempt_count = row.attempt_count
  BY DEF ReleasedRow, ClearLease, OutboxDelivery
<1> QED BY <1>1, <1>2, <1>3, <1>4

\* The fields of a row after a handler succeeded or failed.
LEMMA HandledRowFields ==
  ASSUME NEW row \in OutboxDelivery
  PROVE  /\ SucceededRow(row).status = "succeeded"
         /\ SucceededRow(row).partition_key = row.partition_key
         /\ FailedRow(row).status \in {"dead", "pending"}
         /\ FailedRow(row).partition_key = row.partition_key
<1>1. /\ SucceededRow(row).status = "succeeded"
      /\ SucceededRow(row).partition_key = row.partition_key
  BY DEF SucceededRow, ClearLease, OutboxDelivery
<1>2. /\ FailedRow(row).status \in {"dead", "pending"}
      /\ FailedRow(row).partition_key = row.partition_key
  BY DEF FailedRow, ClearLease, OutboxDelivery
<1> QED BY <1>1, <1>2

\* record_enqueue_outcomes only moves rows whose live lease it owns.
LEMMA OutcomesDispatch ==
  ASSUME TypeOK, NEW r \in Relays, OutcomesRecorded(r), NEW d \in DeliveryIds
  PROVE  DispatchStep(d)
<1>1. delivery[d] \in OutboxDelivery
  BY DEF TypeOK
<1> DEFINE mine == \E outcome \in relay[r].outcomes :
                     /\ outcome.reference[1] = d
                     /\ OwnsLiveLease(delivery[d], outcome.reference, r, relay[r].at)
<1>2. CASE mine
  <2> DEFINE chosen == CHOOSE outcome \in relay[r].outcomes : outcome.reference[1] = d
  <2>1. delivery'[d] = WithOutcome(delivery[d], chosen.ok, relay[r].at)
    BY <1>2 DEF OutcomesRecorded
  <2> HIDE DEF chosen
  <2>2. delivery[d].status = "running" /\ ~Locked(d)
    BY <1>2 DEF OutcomesRecorded, OwnsLiveLease
  <2>3. /\ delivery'[d].partition_key = delivery[d].partition_key
        /\ delivery'[d].status \in {"running", "pending"}
    BY <1>1, <2>1, <2>2, RowFields
  <2> QED BY <2>2, <2>3 DEF DispatchStep, Unfinished, Attempted, Visible
<1>3. CASE ~mine
  BY <1>3, Zenon DEF OutcomesRecorded, DispatchStep
<1> QED BY <1>2, <1>3

\* Every step of a relay dispatches rows and leaves transactions, workers and
\* effects alone.
LEMMA RelayDispatch ==
  ASSUME TypeOK, NEW r \in Relays, RelayStep(r)
  PROVE  /\ \A d \in DeliveryIds : DispatchStep(d)
         /\ UNCHANGED <<position, writer, worker, applied, checkpoint>>
<1>1. CASE Claim(r)
  <2>1. PICK dead \in Earliest(Exhausted(relay[r].at), BatchSize),
             leased \in Earliest(Due(relay[r].at), BatchSize) :
          delivery' = [d \in DeliveryIds |->
               IF d \in dead THEN DeadLettered(delivery[d])
               ELSE IF d \in leased THEN Leased(delivery[d], r, relay[r].at)
               ELSE delivery[d]]
    BY <1>1 DEF Claim
  <2>2. dead \subseteq Exhausted(relay[r].at) /\ leased \subseteq Due(relay[r].at)
    BY DEF Earliest
  <2>3. ASSUME NEW d \in DeliveryIds PROVE DispatchStep(d)
    <3>0. delivery[d] \in OutboxDelivery
      BY Zenon DEF TypeOK
    <3>1. CASE d \in dead
      <4>1. delivery'[d] = DeadLettered(delivery[d])
        BY <2>1, <3>1
      <4>2. delivery[d].status \in {"pending", "running"} /\ ~Locked(d)
        BY <2>2, <3>1, Zenon DEF Exhausted, Claimable
      <4>3. delivery[d].attempt_count > 0
        BY <2>2, <3>0, <3>1, OutboxAssumption DEF Exhausted, OutboxDelivery
      <4> QED BY <3>0, <4>1, <4>2, <4>3, RowFields DEF DispatchStep, Unfinished, Attempted, Visible
    <3>2. CASE d \notin dead /\ d \in leased
      <4>1. delivery'[d] = Leased(delivery[d], r, relay[r].at)
        BY <2>1, <3>2
      <4>2. /\ delivery[d].status \in {"pending", "running"}
            /\ ~Locked(d)
            /\ ~EarlierUnfinished(d)
        BY <2>2, <3>2 DEF Due, Claimable
      <4> QED BY <3>0, <4>1, <4>2, RowFields DEF DispatchStep, Unfinished, Attempted, Visible
    <3>3. CASE d \notin dead /\ d \notin leased
      BY <2>1, <3>3, Zenon DEF DispatchStep
    <3> QED BY <3>1, <3>2, <3>3
  <2> QED BY <1>1, <2>3 DEF Claim
<1>2. CASE Release(r)
  <2>1. ASSUME NEW d \in DeliveryIds PROVE DispatchStep(d)
    <3>0. delivery[d] \in OutboxDelivery
      BY DEF TypeOK
    <3>1. CASE \E ref \in relay[r].unattempted :
                 ref[1] = d /\ Releasable(delivery[d], ref, r)
      <4>1. delivery'[d] = ReleasedRow(delivery[d])
        BY <1>2, <3>1, Zenon DEF Release
      <4>2. PICK ref \in relay[r].unattempted :
                   ref[1] = d /\ Releasable(delivery[d], ref, r)
        BY <3>1
      <4>3. delivery[d].status = "running"
        BY <4>2 DEF Releasable
      <4>4. ~Locked(ref[1])
        BY <1>2 DEF Release
      <4> QED BY <3>0, <4>1, <4>2, <4>3, <4>4, RowFields DEF DispatchStep, Unfinished, Attempted, Visible
    <3>2. CASE ~ \E ref \in relay[r].unattempted :
                   ref[1] = d /\ Releasable(delivery[d], ref, r)
      BY <1>2, <3>2 DEF Release, DispatchStep
    <3> QED BY <3>1, <3>2, Zenon
  <2> QED BY <1>2, <2>1 DEF Release
<1>3. CASE RecordOutcomes(r)
  BY <1>3, OutcomesDispatch DEF RecordOutcomes
<1>4. CASE RecordCancelled(r)
  <2>1. ASSUME NEW d \in DeliveryIds PROVE DispatchStep(d)
    BY <1>4, OutcomesDispatch DEF RecordCancelled, DispatchStep
  <2> QED BY <1>4, <2>1 DEF RecordCancelled
<1>5. CASE ClaimBegin(r) \/ StartChunk(r) \/ RecordBegin(r) \/ Cancel(r) \/ AbandonBatch(r)
  BY <1>5, Zenon DEF ClaimBegin, StartChunk, Publish, RecordBegin, Cancel, AbandonBatch,
              DispatchStep
<1>6. CASE \E ref \in relay[r].chunk : Enqueue(r, ref) \/ EnqueueError(r, ref)
  BY <1>6, Zenon DEF Enqueue, EnqueueError, DispatchStep
<1> QED BY <1>1, <1>2, <1>3, <1>4, <1>5, <1>6 DEF RelayStep

-----------------------------------------------------------------------------
(* The order invariant *)

\* Rows that are dispatched or completed keep their lane and their visibility.
RowKept(d) ==
  /\ delivery'[d].partition_key = delivery[d].partition_key
  /\ delivery'[d].status = "absent" <=> delivery[d].status = "absent"
  /\ delivery[d].status = "succeeded" => delivery'[d].status = "succeeded"

\* A dispatch step keeps the lane and the visibility of a row and completes none.
LEMMA DispatchKeepsRows ==
  ASSUME NEW d \in DeliveryIds, DispatchStep(d)
  PROVE  RowKept(d) /\ (delivery'[d].status = "succeeded" => delivery[d].status = "succeeded")
  BY Zenon DEF DispatchStep, RowKept, Unfinished

\* The append invariant does not depend on what relays and workers do.
LEMMA AppendKept ==
  ASSUME TypeOK, AppendInv, UNCHANGED <<position, writer>>,
         \A d \in DeliveryIds : RowKept(d)
  PROVE  AppendInv'
<1>1. ASSUME NEW w \in Writers, NEW row \in writer[w].rows PROVE row.id \in DeliveryIds
  BY DEF TypeOK, WriterStates, NewRows
<1>2. \A d \in DeliveryIds : Visible(d)' <=> Visible(d)
  BY DEF RowKept, Visible
<1>3. \A d \in DeliveryIds : Lane(d)' = Lane(d)
  BY DEF RowKept, Lane
<1> QED BY <1>1, <1>2, <1>3 DEF AppendInv

\* Dispatch steps preserve the order of the lanes and the locks of the handlers.
LEMMA DispatchPreserves ==
  ASSUME TypeOK, OrderInv, UNCHANGED <<position, writer, applied>>,
         \A d \in DeliveryIds : DispatchStep(d), NoNewHandler
  PROVE  OrderInv'
<1>0. \A d \in DeliveryIds :
        RowKept(d) /\ (delivery'[d].status = "succeeded" => delivery[d].status = "succeeded")
  BY DispatchKeepsRows
<1>1. AppendInv'
  BY <1>0, AppendKept DEF OrderInv
<1>2. NoGap'
  <2> SUFFICES ASSUME NEW d \in DeliveryIds, NEW e \in DeliveryIds,
                      delivery'[d].status \in {"running", "succeeded"},
                      Visible(e)', Lane(e)' = Lane(d)', e[1] < d[1]
               PROVE  delivery'[e].status = "succeeded"
    BY DEF NoGap
  <2>1. Visible(e) /\ Lane(e) = Lane(d)
    BY <1>0 DEF RowKept, Visible, Lane
  <2>2. CASE delivery[d].status \in {"running", "succeeded"}
    BY <1>0, <2>1, <2>2 DEF OrderInv, NoGap, RowKept
  <2>3. CASE delivery[d].status \notin {"running", "succeeded"}
    <3>1. ~EarlierUnfinished(d)
      BY <2>3, Zenon DEF DispatchStep, Unfinished
    <3>2. delivery[e].status \in Statuses
      BY DEF TypeOK, OutboxDelivery
    <3>3. delivery[e].status = "succeeded"
      BY <2>1, <3>1, <3>2 DEF EarlierUnfinished, Visible, Statuses
    <3> QED BY <1>0, <3>3 DEF RowKept
  <2> QED BY <2>2, <2>3
<1>3. HandlerOwnsRow'
  <2> SUFFICES ASSUME NEW k \in Workers, worker'[k].pc = "handling"
               PROVE  /\ delivery'[worker'[k].reference[1]].status = "running"
                      /\ delivery'[worker'[k].reference[1]].delivery_token
                           = worker'[k].reference[2]
    BY DEF HandlerOwnsRow
  <2>1. worker'[k] = worker[k]
    BY DEF NoNewHandler
  <2>2. worker[k].reference[1] \in DeliveryIds
    BY <2>1 DEF TypeOK, References
  <2>3. Locked(worker[k].reference[1])
    BY <2>1 DEF Locked
  <2>4. delivery'[worker[k].reference[1]] = delivery[worker[k].reference[1]]
    BY <2>2, <2>3 DEF DispatchStep
  <2> QED BY <2>1, <2>4 DEF OrderInv, HandlerOwnsRow
<1>4. RowLockExclusive'
  BY DEF OrderInv, RowLockExclusive, NoNewHandler
<1>5. AppliedOnceInOrder'
  <2>1. ASSUME NEW lane \in Lanes, NEW pos \in Positions
        PROVE  <<pos, lane[1]>> \in DeliveryIds
    BY DEF Lanes, DeliveryIds
  <2> QED BY <1>0, <2>1 DEF OrderInv, AppliedOnceInOrder, RowKept
<1> QED BY <1>1, <1>2, <1>3, <1>4, <1>5 DEF OrderInv

\* A handler starts only on an unlocked, running row.
LEMMA StartPreserves ==
  ASSUME TypeOK, OrderInv, NEW k \in Workers, StartHandler(k)
  PROVE  OrderInv'
<1>1. /\ UNCHANGED <<position, writer, delivery, applied>>
      /\ worker' = [worker EXCEPT ![k].pc = "handling"]
      /\ ~Locked(worker[k].reference[1])
      /\ Executable(delivery[worker[k].reference[1]], worker[k].reference)
  BY DEF StartHandler, RunHandler
<1>2. \A j \in Workers : /\ worker'[j].reference = worker[j].reference
                         /\ j # k => worker'[j].pc = worker[j].pc
  BY <1>1 DEF TypeOK, WorkerStates
<1>3. AppendInv'
  BY <1>1, AppendKept DEF OrderInv, RowKept
<1>4. NoGap' /\ AppliedOnceInOrder'
  BY <1>1 DEF OrderInv, NoGap, AppliedOnceInOrder, Visible, Lane
<1>5. HandlerOwnsRow'
  BY <1>1, <1>2 DEF OrderInv, HandlerOwnsRow, Executable
<1>6. RowLockExclusive'
  BY <1>1, <1>2 DEF OrderInv, RowLockExclusive, Locked
<1> QED BY <1>3, <1>4, <1>5, <1>6 DEF OrderInv

\* Appending a position beyond all earlier ones keeps a sequence increasing and
\* adds that position.
LEMMA AppendIncreasing ==
  ASSUME NEW old \in Seq(Positions), NEW x \in Positions, NEW new,
         new = Append(old, x),
         \A i, j \in 1 .. Len(old) : i < j => old[i] < old[j],
         \A i \in 1 .. Len(old) : old[i] < x
  PROVE  /\ \A i, j \in 1 .. Len(new) : i < j => new[i] < new[j]
         /\ \A pos \in Positions :
              (\E i \in 1 .. Len(new) : new[i] = pos)
              <=> (\E i \in 1 .. Len(old) : old[i] = pos) \/ pos = x
<1>1. Len(old) \in Nat
  BY LogFacts
<1>2. /\ Len(new) = Len(old) + 1
      /\ \A i \in 1 .. Len(old) : new[i] = old[i]
      /\ new[Len(old) + 1] = x
  BY AppendFacts
<1>3. ASSUME NEW i \in 1 .. Len(new), NEW j \in 1 .. Len(new), i < j
      PROVE  new[i] < new[j]
  <2>1. i \in 1 .. Len(old)
    BY <1>1, <1>2, <1>3
  <2>2. CASE j \in 1 .. Len(old)
    BY <1>2, <1>3, <2>1, <2>2
  <2>3. CASE j = Len(old) + 1
    BY <1>2, <2>1, <2>3
  <2> QED BY <1>1, <1>2, <2>2, <2>3
<1>4. ASSUME NEW pos \in Positions
      PROVE  (\E i \in 1 .. Len(new) : new[i] = pos)
             <=> (\E i \in 1 .. Len(old) : old[i] = pos) \/ pos = x
  <2>1. ASSUME NEW i \in 1 .. Len(new), new[i] = pos, pos # x
        PROVE  \E m \in 1 .. Len(old) : old[m] = pos
    <3>1. i \in 1 .. Len(old)
      BY <1>1, <1>2, <2>1
    <3> QED BY <1>2, <2>1, <3>1
  <2>2. ASSUME NEW i \in 1 .. Len(old), old[i] = pos
        PROVE  \E m \in 1 .. Len(new) : new[m] = pos
    <3>1. i \in 1 .. Len(new)
      BY <1>1, <1>2
    <3> QED BY <1>2, <2>2, <3>1
  <2>3. Len(old) + 1 \in 1 .. Len(new)
    BY <1>1, <1>2
  <2> QED BY <1>2, <2>1, <2>2, <2>3
<1> QED BY <1>3, <1>4

\* The commit of a handler completes the front of its lane.
LEMMA HandlerCommitPreserves ==
  ASSUME TypeOK, OrderInv, NEW k \in Workers, HandlerCommitted(k),
         UNCHANGED <<position, writer>>, NoNewHandler, worker'[k].pc # "handling"
  PROVE  OrderInv'
<1> DEFINE d == worker[k].reference[1]
           lane == Lane(d)
<1>1. d \in DeliveryIds
  BY HandlerCommittedTypes
<1>2. /\ lane \in Lanes
      /\ d[1] \in Positions
      /\ d[2] \in Consumers
      /\ d = <<d[1], d[2]>>
      /\ lane = <<d[2], delivery[d].partition_key>>
  BY <1>1, LaneType, Zenon DEF Lane
<1>3. delivery[d].status = "running" /\ delivery[d] \in OutboxDelivery
  BY <1>1, Zenon DEF OrderInv, HandlerOwnsRow, HandlerCommitted, TypeOK
<1>4. /\ delivery'[d].status = "succeeded"
      /\ delivery'[d].partition_key = delivery[d].partition_key
      /\ \A e \in DeliveryIds : e # d => delivery'[e] = delivery[e]
  <2>1. delivery' = [delivery EXCEPT ![d] = SucceededRow(delivery[d])]
    BY DEF HandlerCommitted
  <2>2. delivery'[d] = SucceededRow(delivery[d])
    BY <1>1, <2>1 DEF TypeOK
  <2>3. SucceededRow(delivery[d]).status = "succeeded"
        /\ SucceededRow(delivery[d]).partition_key = delivery[d].partition_key
    BY <1>3, HandledRowFields
  <2> QED BY <2>1, <2>2, <2>3, Zenon DEF TypeOK
<1>5. \A e \in DeliveryIds : RowKept(e)
  BY <1>3, <1>4 DEF RowKept
<1>6. \A e \in DeliveryIds : (Visible(e)' <=> Visible(e)) /\ Lane(e)' = Lane(e)
  BY <1>5 DEF RowKept, Visible, Lane
<1>7. AppendInv'
  BY <1>5, AppendKept, Zenon DEF OrderInv
<1>8. NoGap'
  BY <1>3, <1>4, <1>6 DEF OrderInv, NoGap
<1>9. \A j \in Workers : worker'[j].pc = "handling" =>
        /\ worker'[j] = worker[j]
        /\ worker[j].reference[1] \in DeliveryIds
        /\ worker[j].reference[1] # d
  BY Zenon DEF NoNewHandler, OrderInv, RowLockExclusive, HandlerCommitted, TypeOK, References
<1>10. HandlerOwnsRow'
  BY <1>4, <1>9 DEF OrderInv, HandlerOwnsRow
<1>11. RowLockExclusive'
  BY Zenon DEF OrderInv, RowLockExclusive, NoNewHandler
<1>12. AppliedOnceInOrder'
  <2>1. /\ applied[lane] \in Seq(Positions)
        /\ applied'[lane] = Append(applied[lane], d[1])
        /\ \A other \in Lanes : other # lane => applied'[other] = applied[other]
    BY <1>2, Zenon DEF HandlerCommitted, TypeOK
  <2>2. ASSUME NEW pos \in Positions,
               \E i \in 1 .. Len(applied[lane]) : applied[lane][i] = pos
        PROVE  pos < d[1]
    <3> DEFINE e == <<pos, d[2]>>
    <3>1. e \in DeliveryIds /\ e[1] = pos /\ e[2] = d[2]
      BY <1>2, Zenon DEF DeliveryIds
    <3>2. delivery[e].status = "succeeded" /\ delivery[e].partition_key = lane[2]
      BY <1>2, <2>2 DEF OrderInv, AppliedOnceInOrder
    <3>3. Lane(e) = Lane(d)
      BY <1>2, <3>1, <3>2, Zenon DEF Lane
    <3>4. pos # d[1]
      BY <1>2, <1>3, <3>2, Zenon
    <3>5. ~(d[1] < e[1])
      BY <1>1, <1>3, <3>1, <3>2, <3>3, Zenon DEF OrderInv, NoGap, Visible
    <3>6. pos \in Nat /\ d[1] \in Nat
      BY <1>2, OutboxAssumption DEF Positions
    <3> QED BY <3>1, <3>4, <3>5, <3>6
  <2>3. \A i, j \in 1 .. Len(applied[lane]) : i < j => applied[lane][i] < applied[lane][j]
    BY <1>2 DEF OrderInv, AppliedOnceInOrder
  <2>4. \A i \in 1 .. Len(applied[lane]) : applied[lane][i] < d[1]
    BY <2>1, <2>2, LogFacts, Zenon
  <2>5. /\ \A i, j \in 1 .. Len(applied'[lane]) :
             i < j => applied'[lane][i] < applied'[lane][j]
        /\ \A pos \in Positions :
             (\E i \in 1 .. Len(applied'[lane]) : applied'[lane][i] = pos)
             <=> (\E i \in 1 .. Len(applied[lane]) : applied[lane][i] = pos) \/ pos = d[1]
    <3> DEFINE old == applied[lane]
               new == applied'[lane]
               x == d[1]
    <3>1. /\ old \in Seq(Positions)
          /\ x \in Positions
          /\ new = Append(old, x)
          /\ \A i, j \in 1 .. Len(old) : i < j => old[i] < old[j]
          /\ \A i \in 1 .. Len(old) : old[i] < x
      BY <1>2, <2>1, <2>3, <2>4, Zenon
    <3> HIDE DEF old, new, x
    <3>2. /\ \A i, j \in 1 .. Len(new) : i < j => new[i] < new[j]
          /\ \A pos \in Positions :
               (\E i \in 1 .. Len(new) : new[i] = pos)
               <=> (\E i \in 1 .. Len(old) : old[i] = pos) \/ pos = x
      BY <3>1, AppendIncreasing
    <3> QED BY <3>2, Zenon DEF old, new, x
  <2>6. ASSUME NEW other \in Lanes, NEW pos \in Positions
        PROVE  (\E i \in 1 .. Len(applied'[other]) : applied'[other][i] = pos)
               <=> /\ delivery'[<<pos, other[1]>>].status = "succeeded"
                   /\ delivery'[<<pos, other[1]>>].partition_key = other[2]
    <3> DEFINE e == <<pos, other[1]>>
    <3>1. e \in DeliveryIds /\ other = <<other[1], other[2]>>
      BY DEF Lanes, DeliveryIds
    <3>2. (\E i \in 1 .. Len(applied[other]) : applied[other][i] = pos)
          <=> delivery[e].status = "succeeded" /\ delivery[e].partition_key = other[2]
      BY Zenon DEF OrderInv, AppliedOnceInOrder
    <3>3. ASSUME other = lane, pos = d[1]
          PROVE  e = d /\ other[2] = delivery[d].partition_key
      BY <1>2, <3>3
    <3>4. ASSUME other = lane, pos # d[1] PROVE e # d
      BY <1>2, <3>4
    <3>5. ASSUME other # lane, e = d PROVE other[2] # delivery[d].partition_key
      BY <1>2, <3>1, <3>5
    <3> HIDE DEF d, lane, e
    <3>6. CASE other = lane /\ pos = d[1]
      <4>1. \E i \in 1 .. Len(applied'[other]) : applied'[other][i] = pos
        BY <2>5, <3>6
      <4>2. delivery'[e].status = "succeeded" /\ delivery'[e].partition_key = other[2]
        BY <1>4, <3>3, <3>6, Zenon
      <4> QED BY <4>1, <4>2 DEF e
    <3>7. CASE other = lane /\ pos # d[1]
      <4>1. (\E i \in 1 .. Len(applied'[other]) : applied'[other][i] = pos)
            <=> \E i \in 1 .. Len(applied[other]) : applied[other][i] = pos
        BY <2>5, <3>7
      <4>2. delivery'[e] = delivery[e]
        BY <1>4, <3>1, <3>4, <3>7, Zenon
      <4> QED BY <3>2, <4>1, <4>2, Zenon DEF e
    <3>8. CASE other # lane
      <4>1. applied'[other] = applied[other]
        BY <2>1, <3>8
      <4>2. CASE e # d
        BY <1>4, <3>1, <3>2, <4>1, <4>2, Zenon DEF e
      <4>3. CASE e = d
        <5>1. other[2] # delivery[d].partition_key
          BY <3>5, <3>8, <4>3
        <5>2. ~ \E i \in 1 .. Len(applied[other]) : applied[other][i] = pos
          BY <3>2, <4>3, <5>1
        <5> QED BY <1>4, <4>1, <4>3, <5>1, <5>2 DEF e
      <4> QED BY <4>2, <4>3
    <3> QED BY <3>6, <3>7, <3>8
  <2>7. ASSUME NEW other \in Lanes
        PROVE  \A i, j \in 1 .. Len(applied'[other]) :
                 i < j => applied'[other][i] < applied'[other][j]
    BY <2>1, <2>5, Zenon DEF OrderInv, AppliedOnceInOrder
  <2> QED BY <2>6, <2>7 DEF AppliedOnceInOrder
<1> QED BY <1>7, <1>8, <1>10, <1>11, <1>12 DEF OrderInv

\* A step of a worker that commits no handler and starts none dispatches rows.
LEMMA WorkerDispatch ==
  ASSUME TypeOK, NEW k \in Workers, WorkerStep(k),
         ~StartHandler(k), ~Succeed(k), ~SucceedUnconfirmed(k)
  PROVE  /\ \A d \in DeliveryIds : DispatchStep(d)
         /\ NoNewHandler
         /\ UNCHANGED <<position, writer, applied, checkpoint>>
<1>1. ASSUME Acknowledge(k) PROVE NoNewHandler
  BY <1>1 DEF Acknowledge, NoNewHandler, TypeOK, IdleWorker
<1>2. ASSUME delivery' = delivery PROVE \A d \in DeliveryIds : DispatchStep(d)
  BY <1>2, Zenon DEF DispatchStep
<1>3. ASSUME NEW ref \in stream, Receive(k, ref)
      PROVE  NoNewHandler
  BY <1>3 DEF Receive, NoNewHandler, TypeOK
<1>4. ASSUME Fail(k) PROVE NoNewHandler
  <2>1. worker'[k].pc = "failed" /\ \A j \in Workers \ {k} : worker'[j] = worker[j]
    BY <1>4 DEF Fail, TypeOK, WorkerStates
  <2> QED BY <2>1 DEF NoNewHandler
<1>5. ASSUME WorkerCrash(k) PROVE NoNewHandler
  BY <1>5 DEF WorkerCrash, NoNewHandler, TypeOK, IdleWorker
<1>6. ASSUME RecordFailure(k), NEW d \in DeliveryIds PROVE DispatchStep(d)
  <2> DEFINE ref == worker[k].reference
  <2>1. CASE ref[1] = d /\ delivery[d].status = "running" /\ delivery[d].delivery_token = ref[2]
    <3>1. delivery'[d] = FailedRow(delivery[d]) /\ ~Locked(d)
      BY <1>6, <2>1, Zenon DEF RecordFailure, TypeOK
    <3>2. delivery[d] \in OutboxDelivery
      BY DEF TypeOK
    <3>3. /\ delivery'[d].status \in {"dead", "pending"}
          /\ delivery'[d].partition_key = delivery[d].partition_key
      BY <3>1, <3>2, HandledRowFields
    <3>4. delivery'[d].status \in Unfinished /\ delivery'[d].status # "running"
      BY <3>3, Zenon DEF Unfinished
    <3> QED BY <2>1, <3>1, <3>3, <3>4 DEF DispatchStep
  <2>2. CASE ~(ref[1] = d /\ delivery[d].status = "running"
               /\ delivery[d].delivery_token = ref[2])
    <3>1. delivery'[d] = delivery[d]
      BY <1>6, <2>2, Zenon DEF RecordFailure, TypeOK
    <3> QED BY <3>1 DEF DispatchStep
  <2> QED BY <2>1, <2>2, Zenon
<1>7. CASE \E ref \in stream : Receive(k, ref)
  BY <1>2, <1>3, <1>7, Zenon DEF Receive
<1>8. CASE DiscardStale(k)
  BY <1>1, <1>2, <1>8 DEF DiscardStale
<1>9. CASE Fail(k)
  BY <1>2, <1>4, <1>9, Zenon DEF Fail
<1>10. CASE RecordFailure(k)
  BY <1>1, <1>6, <1>10 DEF RecordFailure
<1>11. CASE RecordFailureLost(k)
  BY <1>1, <1>2, <1>11, Zenon DEF RecordFailureLost
<1>12. CASE WorkerCrash(k)
  BY <1>2, <1>5, <1>12 DEF WorkerCrash
<1> QED BY <1>7, <1>8, <1>9, <1>10, <1>11, <1>12, Zenon DEF WorkerStep

\* The commit of a handler, confirmed or not, ends its row lock.
LEMMA HandlerCommitFrame ==
  ASSUME TypeOK, NEW k \in Workers, Succeed(k) \/ SucceedUnconfirmed(k)
  PROVE  /\ HandlerCommitted(k)
         /\ NoNewHandler
         /\ worker'[k].pc # "handling"
         /\ UNCHANGED <<position, writer>>
<1>1. CASE Succeed(k)
  <2>1. worker'[k].pc = "idle" /\ \A j \in Workers \ {k} : worker'[j] = worker[j]
    BY <1>1 DEF Succeed, Acknowledge, TypeOK, IdleWorker
  <2> QED BY <1>1, <2>1 DEF Succeed, NoNewHandler
<1>2. CASE SucceedUnconfirmed(k)
  <2>1. worker'[k].pc = "failed" /\ \A j \in Workers \ {k} : worker'[j] = worker[j]
    BY <1>2 DEF SucceedUnconfirmed, TypeOK, WorkerStates
  <2> QED BY <1>2, <2>1 DEF SucceedUnconfirmed, NoNewHandler
<1> QED BY <1>1, <1>2, Zenon


-----------------------------------------------------------------------------
(* Appends *)

\* The order of the lanes does not depend on uncommitted rows.
LEMMA RowsUnchanged ==
  ASSUME OrderInv, AppendInv', UNCHANGED <<delivery, worker, applied>>
  PROVE  OrderInv'
  BY DEF OrderInv, NoGap, HandlerOwnsRow, RowLockExclusive, AppliedOnceInOrder,
         Visible, Lane

\* A writer other than the one that steps keeps its state.
LEMMA OtherWriters ==
  ASSUME TypeOK, NEW w \in Writers, NEW state, writer' = [writer EXCEPT ![w] = state]
  PROVE  writer'[w] = state /\ \A v \in Writers \ {w} : writer'[v] = writer[v]
  BY DEF TypeOK

\* What the append invariant says of one uncommitted row.
LEMMA UncommittedRow ==
  ASSUME AppendInv, NEW v \in Writers, NEW row \in writer[v].rows
  PROVE  /\ row.id[1] < position
         /\ LockKey(row.id[2], row.partition_key) \in writer[v].held
         /\ ~Visible(row.id)
  BY DEF AppendInv

\* Calling append_outbox_event keeps the append invariant.
LEMMA BeginPreserves ==
  ASSUME TypeOK, AppendInv, NEW w \in Writers, NEW cs \in SUBSET Consumers,
         NEW p \in Partitions, BeginAppend(w, cs, p)
  PROVE  AppendInv'
<1> DEFINE keys == {LaneKey(lane) : lane \in cs \X {p}}
<1>0. writer[w] \in WriterStates
  BY DEF TypeOK
<1>1. writer' = [writer EXCEPT ![w] = [writer[w] EXCEPT !.pc = "locking",
                    !.lanes = cs \X {p}, !.wanted = keys \ writer[w].held]]
  BY DEF BeginAppend
<1>2. /\ writer'[w].pc = "locking"
      /\ writer'[w].lanes = cs \X {p}
      /\ writer'[w].wanted = keys \ writer[w].held
      /\ writer'[w].held = writer[w].held
      /\ writer'[w].rows = writer[w].rows
      /\ \A v \in Writers \ {w} : writer'[v] = writer[v]
  <2> DEFINE state == [writer[w] EXCEPT !.pc = "locking", !.lanes = cs \X {p},
                                        !.wanted = keys \ writer[w].held]
  <2>1. writer' = [writer EXCEPT ![w] = state]
    BY <1>1
  <2>2. /\ state.pc = "locking"
        /\ state.lanes = cs \X {p}
        /\ state.wanted = keys \ writer[w].held
        /\ state.held = writer[w].held
        /\ state.rows = writer[w].rows
    BY <1>0 DEF WriterStates
  <2> HIDE DEF state
  <2>3. writer'[w] = state /\ \A v \in Writers \ {w} : writer'[v] = writer[v]
    BY <2>1, OtherWriters, Zenon
  <2> QED BY <2>2, <2>3
<1>3. \A v \in Writers : writer'[v].held = writer[v].held /\ writer'[v].rows = writer[v].rows
  BY <1>2
<1>4. UNCHANGED <<position, delivery>>
  BY DEF BeginAppend
<1>5. \A v \in Writers : writer'[v].pc = "locking" => \A lane \in writer'[v].lanes :
        LaneKey(lane) \in writer'[v].held \cup writer'[v].wanted
  <2>1. \A v \in Writers \ {w} : writer[v].pc = "locking" => \A lane \in writer[v].lanes :
          LaneKey(lane) \in writer[v].held \cup writer[v].wanted
    BY Zenon DEF AppendInv
  <2>2. \A lane \in cs \X {p} : LaneKey(lane) \in keys
    OBVIOUS
  <2> HIDE DEF keys
  <2>3. \A lane \in writer'[w].lanes : LaneKey(lane) \in writer'[w].held \cup writer'[w].wanted
    BY <1>2, <2>2
  <2>4. \A v \in Writers \ {w} : writer'[v] = writer[v]
    BY <1>2
  <2> QED BY <2>1, <2>3, <2>4
<1>6. \A m, n \in cs \X {p} : m[1] = n[1] => m = n
  OBVIOUS
<1>7. \A v \in Writers : \A m, n \in writer'[v].lanes : m[1] = n[1] => m = n
  BY <1>2, <1>6, Zenon DEF AppendInv
<1>8. \A lane : LaneKey(lane)' = LaneKey(lane)
  BY DEF LaneKey
<1> QED BY <1>3, <1>4, <1>5, <1>7, <1>8 DEF AppendInv, Visible, Lane

\* Taking a free lock keeps the append invariant.
LEMMA LockPreserves ==
  ASSUME TypeOK, AppendInv, NEW w \in Writers, NEW key \in writer[w].wanted, Lock(w, key)
  PROVE  AppendInv'
<1>0. writer[w] \in WriterStates
  BY DEF TypeOK
<1>1. /\ writer'[w].pc = writer[w].pc
      /\ writer'[w].lanes = writer[w].lanes
      /\ writer'[w].wanted = writer[w].wanted \ {key}
      /\ writer'[w].held = writer[w].held \cup {key}
      /\ writer'[w].rows = writer[w].rows
      /\ \A v \in Writers \ {w} : writer'[v] = writer[v]
  <2> DEFINE state == [writer[w] EXCEPT !.wanted = writer[w].wanted \ {key},
                                        !.held = writer[w].held \cup {key}]
  <2>1. writer' = [writer EXCEPT ![w] = state]
    BY DEF Lock
  <2>2. /\ state.pc = writer[w].pc
        /\ state.lanes = writer[w].lanes
        /\ state.wanted = writer[w].wanted \ {key}
        /\ state.held = writer[w].held \cup {key}
        /\ state.rows = writer[w].rows
    BY <1>0 DEF WriterStates
  <2> HIDE DEF state
  <2>3. writer'[w] = state /\ \A v \in Writers \ {w} : writer'[v] = writer[v]
    BY <2>1, OtherWriters, Zenon
  <2> QED BY <2>2, <2>3
<1>2. \A v \in Writers \ {w} : key \notin writer[v].held
  BY DEF Lock, HeldByOther
<1>3. UNCHANGED <<position, delivery>>
  BY DEF Lock
<1>4. \A v \in Writers : /\ writer'[v].rows = writer[v].rows
                         /\ writer'[v].lanes = writer[v].lanes
                         /\ writer[v].held \subseteq writer'[v].held
  BY <1>1
<1>5. \A v \in Writers : writer'[v].pc = "locking" => \A lane \in writer'[v].lanes :
        LaneKey(lane) \in writer'[v].held \cup writer'[v].wanted
  BY <1>1 DEF AppendInv
<1>6. \A u, v \in Writers : u # v => writer'[u].held \cap writer'[v].held = {}
  BY <1>1, <1>2 DEF AppendInv
<1>7. \A lane : LaneKey(lane)' = LaneKey(lane)
  BY DEF LaneKey
<1> QED BY <1>3, <1>4, <1>5, <1>6, <1>7 DEF AppendInv, Visible, Lane

\* Flushing under the locks puts the new rows at the end of their lanes.
LEMMA FlushPreserves ==
  ASSUME TypeOK, AppendInv, NEW w \in Writers, Flush(w)
  PROVE  AppendInv'
<1> DEFINE new == {NewRow(lane) : lane \in writer[w].lanes}
<1>0. writer[w] \in WriterStates /\ position \in Nat
  BY DEF TypeOK
<1>1. /\ writer'[w].pc = "open"
      /\ writer'[w].lanes = {}
      /\ writer'[w].held = writer[w].held
      /\ writer'[w].rows = writer[w].rows \cup new
      /\ \A v \in Writers \ {w} : writer'[v] = writer[v]
  <2> DEFINE state == [writer[w] EXCEPT !.pc = "open", !.lanes = {},
                                        !.rows = writer[w].rows \cup new]
  <2>1. writer' = [writer EXCEPT ![w] = state]
    BY DEF Flush, Insert
  <2>2. /\ state.pc = "open"
        /\ state.lanes = {}
        /\ state.held = writer[w].held
        /\ state.rows = writer[w].rows \cup new
    BY <1>0 DEF WriterStates
  <2> HIDE DEF state
  <2>3. writer'[w] = state /\ \A v \in Writers \ {w} : writer'[v] = writer[v]
    BY <2>1, OtherWriters, Zenon
  <2> QED BY <2>2, <2>3
<1>2. position' = position + 1 /\ delivery' = delivery
  BY DEF Flush, Insert
<1>3. ASSUME NEW row \in new
      PROVE  /\ row.id[1] = position
             /\ row.id \in DeliveryIds
             /\ LockKey(row.id[2], row.partition_key) \in writer[w].held
             /\ \E lane \in writer[w].lanes : row = NewRow(lane) /\ row.id[2] = lane[1]
  <2>1. PICK lane \in writer[w].lanes : row = NewRow(lane)
    OBVIOUS
  <2>2. /\ row.id[1] = position
        /\ row.id[2] = lane[1]
        /\ row.partition_key = lane[2]
        /\ row.id = <<position, lane[1]>>
    BY <2>1 DEF NewRow
  <2>3. LaneKey(lane) \in writer[w].held
    BY Zenon DEF AppendInv, Flush
  <2>4. lane \in Lanes /\ position \in Positions
    BY <1>0 DEF WriterStates, Flush, Insert, TypeOK, Positions
  <2>5. row.id \in DeliveryIds
    BY <2>2, <2>4 DEF DeliveryIds, Lanes
  <2> QED BY <2>1, <2>2, <2>3, <2>5 DEF LaneKey
<1>4. ASSUME NEW m \in new, NEW n \in new, m.id = n.id PROVE m = n
  BY <1>3, <1>4 DEF AppendInv
<1>5. ASSUME NEW v \in Writers, NEW row \in writer[v].rows
      PROVE  row.id[1] < position /\ row.id[1] \in Nat /\ row.id \in DeliveryIds
  <2>1. row \in NewRows
    BY DEF TypeOK, WriterStates
  <2>2. row.id \in DeliveryIds /\ row.id[1] \in Nat
    BY <2>1, OutboxAssumption DEF NewRows, DeliveryIds, Positions
  <2> QED BY <2>2 DEF AppendInv
<1>6. \A d \in DeliveryIds : Visible(d) => d[1] < position
  BY DEF AppendInv
<1>7. \A d \in DeliveryIds : d[1] \in Nat
  BY OutboxAssumption DEF DeliveryIds, Positions
<1>8. \A row \in new : ~Visible(row.id)
  BY <1>0, <1>3, <1>6
<1>9. \A v \in Writers : \A row \in writer'[v].rows :
        row \in writer[v].rows \/ (v = w /\ row \in new)
  BY <1>1
<1>10. \A v \in Writers : writer'[v].held = writer[v].held
  BY <1>1
<1> HIDE DEF new
<1>11. \A v \in Writers : writer'[v].pc = "locking" => \A lane \in writer'[v].lanes :
         LaneKey(lane)' \in writer'[v].held \cup writer'[v].wanted
  BY <1>1, Zenon DEF AppendInv, LaneKey
<1>12. \A v \in Writers : \A m, n \in writer'[v].lanes : m[1] = n[1] => m = n
  BY <1>1 DEF AppendInv
<1>13. \A d : (Visible(d)' <=> Visible(d)) /\ Lane(d)' = Lane(d)
  BY <1>2 DEF Visible, Lane
<1>14. ASSUME NEW v \in Writers, NEW row \in writer'[v].rows
       PROVE  /\ row.id[1] < position'
              /\ LockKey(row.id[2], row.partition_key) \in writer'[v].held
              /\ ~Visible(row.id)'
  <2>1. CASE row \in writer[v].rows
    <3>1. /\ row.id[1] < position
          /\ LockKey(row.id[2], row.partition_key) \in writer[v].held
          /\ ~Visible(row.id)
      BY <2>1, UncommittedRow
    <3>2. row.id[1] \in Nat
      BY <1>5, <2>1
    <3> QED BY <1>0, <1>2, <1>10, <1>13, <3>1, <3>2
  <2>2. CASE v = w /\ row \in new
    BY <1>0, <1>2, <1>3, <1>8, <1>10, <1>13, <2>2
  <2> QED BY <1>9, <2>1, <2>2
<1>15. \A u, v \in Writers : u # v => writer'[u].held \cap writer'[v].held = {}
  BY <1>10 DEF AppendInv
<1>16. ASSUME NEW u \in Writers, NEW v \in Writers, NEW m \in writer'[u].rows,
              NEW n \in writer'[v].rows, m.id = n.id
       PROVE  u = v /\ m = n
  <2>1. m \in writer[u].rows \/ (u = w /\ m \in new)
    BY <1>9
  <2>2. n \in writer[v].rows \/ (v = w /\ n \in new)
    BY <1>9
  <2>3. CASE m \in writer[u].rows /\ n \in writer[v].rows
    BY <1>16, <2>3 DEF AppendInv
  <2>4. CASE m \in new /\ n \in new /\ u = w /\ v = w
    BY <1>4, <1>16, <2>4
  <2>5. CASE m \in new /\ n \in writer[v].rows
    BY <1>0, <1>3, <1>5, <1>16, <2>5
  <2>6. CASE m \in writer[u].rows /\ n \in new
    BY <1>0, <1>3, <1>5, <1>16, <2>6
  <2> QED BY <2>1, <2>2, <2>3, <2>4, <2>5, <2>6
<1>17. \A d \in DeliveryIds : Visible(d)' => d[1] < position'
  BY <1>0, <1>2, <1>6, <1>7, <1>13
<1>18. ASSUME NEW v \in Writers, NEW row \in writer'[v].rows, NEW d \in DeliveryIds,
              Visible(d)', Lane(d)' = <<row.id[2], row.partition_key>>
       PROVE  d[1] < row.id[1]
  <2>1. CASE row \in writer[v].rows
    BY <1>13, <1>18, <2>1 DEF AppendInv
  <2>2. CASE row \in new
    BY <1>3, <1>6, <1>13, <1>18, <2>2
  <2> QED BY <1>9, <2>1, <2>2
<1> QED BY <1>11, <1>12, <1>14, <1>15, <1>16, <1>17, <1>18, Zenon DEF AppendInv

\* Rolling back keeps the append invariant.
LEMMA RollbackPreserves ==
  ASSUME TypeOK, AppendInv, NEW w \in Writers, Rollback(w)
  PROVE  AppendInv'
<1>1. /\ writer'[w] = IdleWriter
      /\ \A v \in Writers \ {w} : writer'[v] = writer[v]
      /\ UNCHANGED <<position, delivery>>
  BY OtherWriters, Zenon DEF Rollback
<1>2. \A lane : LaneKey(lane)' = LaneKey(lane)
  BY DEF LaneKey
<1>3. /\ IdleWriter.pc = "idle"
      /\ IdleWriter.lanes = {}
      /\ IdleWriter.held = {}
      /\ IdleWriter.rows = {}
  BY DEF IdleWriter
<1>4. ASSUME NEW v \in Writers
      PROVE  /\ writer'[v].held \subseteq writer[v].held
             /\ writer'[v].rows \subseteq writer[v].rows
             /\ writer'[v].lanes \subseteq writer[v].lanes
             /\ writer'[v].rows # {} \/ writer'[v].pc = "locking" => writer'[v] = writer[v]
  BY <1>1, <1>3, Zenon
<1>5. \A d : (Visible(d)' <=> Visible(d)) /\ Lane(d)' = Lane(d)
  BY <1>1 DEF Visible, Lane
<1>6. ASSUME NEW v \in Writers
      PROVE  /\ writer'[v].pc = "locking" => \A lane \in writer'[v].lanes :
                  LaneKey(lane)' \in writer'[v].held \cup writer'[v].wanted
             /\ \A m, n \in writer'[v].lanes : m[1] = n[1] => m = n
  BY <1>2, <1>4 DEF AppendInv
<1>7. ASSUME NEW v \in Writers, NEW row \in writer'[v].rows
      PROVE  /\ row.id[1] < position'
             /\ LockKey(row.id[2], row.partition_key) \in writer'[v].held
             /\ ~Visible(row.id)'
  <2>1. writer'[v] = writer[v] /\ row \in writer[v].rows
    BY <1>4, Zenon
  <2> QED BY <1>1, <1>5, <2>1, UncommittedRow
<1>8. \A u, v \in Writers : u # v => writer'[u].held \cap writer'[v].held = {}
  <2>1. \A u, v \in Writers : u # v => writer[u].held \cap writer[v].held = {}
    BY DEF AppendInv
  <2> QED BY <1>4, <2>1
<1>9. \A u, v \in Writers : \A m \in writer'[u].rows, n \in writer'[v].rows :
        m.id = n.id => u = v /\ m = n
  <2>1. \A u, v \in Writers : \A m \in writer[u].rows, n \in writer[v].rows :
          m.id = n.id => u = v /\ m = n
    BY DEF AppendInv
  <2> QED BY <1>4, <2>1
<1>10. \A d \in DeliveryIds : Visible(d)' => d[1] < position'
  BY <1>1, <1>5, Zenon DEF AppendInv
<1>11. ASSUME NEW v \in Writers, NEW row \in writer'[v].rows, NEW d \in DeliveryIds,
              Visible(d)', Lane(d)' = <<row.id[2], row.partition_key>>
       PROVE  d[1] < row.id[1]
  <2>1. row \in writer[v].rows
    BY <1>4
  <2> QED BY <1>5, <1>11, <2>1 DEF AppendInv
<1> QED BY <1>6, <1>7, <1>8, <1>9, <1>10, <1>11, Zenon DEF AppendInv

\* Committing makes rows visible at the end of their lanes.
LEMMA CommitPreserves ==
  ASSUME TypeOK, OrderInv, NEW w \in Writers, Commit(w)
  PROVE  /\ OrderInv'
         /\ \A d, e \in DeliveryIds :
              Visible(e) /\ ~Visible(d) /\ Visible(d)' /\ Lane(d)' = Lane(e) => e[1] < d[1]
         /\ \A d \in DeliveryIds : Visible(d) => delivery'[d] = delivery[d]
         /\ \A d \in DeliveryIds : ~Visible(d) => delivery'[d].status \in {"absent", "pending"}
<1> DEFINE New(d) == \E row \in writer[w].rows : row.id = d
<1>0. AppendInv
  BY DEF OrderInv
<1>1. \A d \in DeliveryIds : ~New(d) => delivery'[d] = delivery[d]
  BY DEF Commit
<1>2. ASSUME NEW row \in writer[w].rows
      PROVE  /\ row.id \in DeliveryIds
             /\ delivery'[row.id].status = "pending"
             /\ Lane(row.id)' = <<row.id[2], row.partition_key>>
  <2> DEFINE chosen == CHOOSE r \in writer[w].rows : r.id = row.id
  <2>1. row.id \in DeliveryIds
    BY DEF TypeOK, WriterStates, NewRows
  <2>2. delivery'[row.id] = PendingRow(chosen.partition_key, chosen.available_at)
    BY <2>1 DEF Commit
  <2>3. \E r \in writer[w].rows : r.id = row.id
    OBVIOUS
  <2>4. chosen \in writer[w].rows /\ chosen.id = row.id
    BY <2>3
  <2> HIDE DEF chosen
  <2>5. chosen = row
    BY <1>0, <2>4 DEF AppendInv
  <2>6. /\ delivery'[row.id].status = "pending"
        /\ delivery'[row.id].partition_key = row.partition_key
    BY <2>2, <2>5 DEF PendingRow
  <2> QED BY <2>1, <2>6 DEF Lane
<1>3. \A row \in writer[w].rows : ~Visible(row.id)
  BY <1>0, Zenon DEF AppendInv
<1>4. /\ writer'[w] = IdleWriter
      /\ \A v \in Writers \ {w} : writer'[v] = writer[v]
      /\ UNCHANGED <<position, worker, applied>>
  BY OtherWriters, Zenon DEF Commit
<1>5. /\ IdleWriter.pc = "idle"
      /\ IdleWriter.lanes = {}
      /\ IdleWriter.held = {}
      /\ IdleWriter.rows = {}
  BY DEF IdleWriter
<1>6. \A d \in DeliveryIds : Visible(d) => ~New(d) /\ delivery'[d] = delivery[d]
  BY <1>1, <1>3
<1>7. \A d \in DeliveryIds : New(d) => delivery'[d].status = "pending"
  BY <1>2
<1>8. ASSUME NEW d \in DeliveryIds, NEW e \in DeliveryIds, New(d),
             Visible(e), Lane(d)' = Lane(e)
      PROVE  e[1] < d[1]
  BY <1>0, <1>2, <1>8 DEF AppendInv
<1>9. \A d \in DeliveryIds : ~New(d) => (Visible(d)' <=> Visible(d)) /\ Lane(d)' = Lane(d)
  BY <1>1 DEF Visible, Lane
<1>10. AppendInv'
  <2>1. ASSUME NEW v \in Writers
        PROVE  /\ writer'[v].pc = "locking" => \A lane \in writer'[v].lanes :
                    LaneKey(lane)' \in writer'[v].held \cup writer'[v].wanted
               /\ \A m, n \in writer'[v].lanes : m[1] = n[1] => m = n
    BY <1>0, <1>4, <1>5 DEF AppendInv, LaneKey
  <2>2. ASSUME NEW v \in Writers, NEW row \in writer'[v].rows
        PROVE  /\ v # w
               /\ row \in writer[v].rows
               /\ row.id \in DeliveryIds
               /\ ~New(row.id)
               /\ row.id[1] < position
               /\ LockKey(row.id[2], row.partition_key) \in writer[v].held
               /\ writer'[v].held = writer[v].held
               /\ ~Visible(row.id)'
    <3>1. v # w /\ row \in writer[v].rows /\ writer'[v] = writer[v]
      BY <1>4, <1>5
    <3>2. row.id \in DeliveryIds
      BY <3>1 DEF TypeOK, WriterStates, NewRows
    <3>3. ~New(row.id)
      BY <1>0, <3>1, Zenon DEF AppendInv
    <3>4. /\ row.id[1] < position
          /\ LockKey(row.id[2], row.partition_key) \in writer[v].held
          /\ ~Visible(row.id)
      BY <1>0, <3>1, UncommittedRow, Zenon
    <3>5. ~Visible(row.id)'
      BY <1>9, <3>2, <3>3, <3>4
    <3> QED BY <3>1, <3>2, <3>3, <3>4, <3>5
  <2>3. \A u, v \in Writers : u # v => writer'[u].held \cap writer'[v].held = {}
    BY <1>0, <1>4, <1>5 DEF AppendInv
  <2>4. \A u, v \in Writers : \A m \in writer'[u].rows, n \in writer'[v].rows :
          m.id = n.id => u = v /\ m = n
    <3>1. \A u, v \in Writers : \A m \in writer[u].rows, n \in writer[v].rows :
            m.id = n.id => u = v /\ m = n
      BY <1>0, Zenon DEF AppendInv
    <3>2. \A v \in Writers : \A row \in writer'[v].rows : row \in writer[v].rows
      BY <2>2
    <3> QED BY <3>1, <3>2
  <2>5. \A d \in DeliveryIds : Visible(d)' => d[1] < position'
    BY <1>0, <1>4, <1>9, Zenon DEF AppendInv
  <2>6. ASSUME NEW v \in Writers, NEW row \in writer'[v].rows, NEW d \in DeliveryIds,
               Visible(d)', Lane(d)' = <<row.id[2], row.partition_key>>
        PROVE  d[1] < row.id[1]
    <3>1. CASE New(d)
      <4>1. PICK mine \in writer[w].rows : mine.id = d
        BY <3>1
      <4>2. Lane(d)' = <<mine.id[2], mine.partition_key>>
        BY <1>2, <4>1
      <4>3. mine.id[2] = row.id[2] /\ mine.partition_key = row.partition_key
        BY <2>6, <4>2
      <4>4. LockKey(mine.id[2], mine.partition_key) \in writer[w].held
        BY <1>0, UncommittedRow
      <4>5. v # w /\ LockKey(row.id[2], row.partition_key) \in writer[v].held
        BY <2>2
      <4>6. \A u \in Writers : u # w => writer[u].held \cap writer[w].held = {}
        BY <1>0 DEF AppendInv
      <4> QED BY <4>3, <4>4, <4>5, <4>6
    <3>2. CASE ~New(d)
      <4>1. Visible(d) /\ Lane(d) = <<row.id[2], row.partition_key>>
        BY <1>9, <2>6, <3>2
      <4>2. row \in writer[v].rows
        BY <2>2
      <4> QED BY <1>0, <4>1, <4>2 DEF AppendInv
    <3> QED BY <3>1, <3>2
  <2> QED BY <1>4, <2>1, <2>2, <2>3, <2>4, <2>5, <2>6, Zenon DEF AppendInv
<1>11. NoGap'
  <2> SUFFICES ASSUME NEW d \in DeliveryIds, NEW e \in DeliveryIds,
                      delivery'[d].status \in {"running", "succeeded"},
                      Visible(e)', Lane(e)' = Lane(d)', e[1] < d[1]
               PROVE  delivery'[e].status = "succeeded"
    BY DEF NoGap
  <2>1. ~New(d)
    BY <1>7
  <2>2. delivery'[d] = delivery[d] /\ Visible(d) /\ Lane(d)' = Lane(d)
    BY <1>1, <1>9, <2>1 DEF Visible
  <2>3. ~New(e)
    <3>1. d[1] \in Nat /\ e[1] \in Nat
      BY OutboxAssumption DEF DeliveryIds, Positions
    <3> HIDE DEF New
    <3> QED BY <1>8, <2>2, <3>1
  <2>4. delivery'[e] = delivery[e] /\ Visible(e) /\ Lane(e) = Lane(d)
    BY <1>1, <1>9, <2>2, <2>3
  <2> QED BY <2>2, <2>4 DEF OrderInv, NoGap
<1>12. HandlerOwnsRow'
  <2> SUFFICES ASSUME NEW k \in Workers, worker[k].pc = "handling"
               PROVE  delivery'[worker[k].reference[1]] = delivery[worker[k].reference[1]]
    BY <1>4 DEF OrderInv, HandlerOwnsRow
  <2>1. worker[k].reference[1] \in DeliveryIds
    BY DEF TypeOK, References
  <2> QED BY <1>6, <2>1 DEF OrderInv, HandlerOwnsRow, Visible
<1>13. RowLockExclusive'
  BY <1>4 DEF OrderInv, RowLockExclusive
<1>14. AppliedOnceInOrder'
  <2>1. ASSUME NEW d \in DeliveryIds
        PROVE  /\ delivery[d].status = "succeeded" => delivery'[d] = delivery[d]
               /\ delivery'[d].status = "succeeded" => delivery'[d] = delivery[d]
    <3>1. delivery[d].status = "succeeded" => delivery'[d] = delivery[d]
      BY <1>6 DEF Visible
    <3>2. delivery'[d].status = "succeeded" => delivery'[d] = delivery[d]
      BY <1>1, <1>7
    <3> QED BY <3>1, <3>2
  <2>2. ASSUME NEW lane \in Lanes, NEW pos \in Positions
        PROVE  <<pos, lane[1]>> \in DeliveryIds
    BY DEF Lanes, DeliveryIds
  <2> QED BY <1>4, <2>1, <2>2 DEF OrderInv, AppliedOnceInOrder
<1>15. ASSUME NEW d \in DeliveryIds, NEW e \in DeliveryIds,
              Visible(e), ~Visible(d), Visible(d)', Lane(d)' = Lane(e)
       PROVE  e[1] < d[1]
  BY <1>8, <1>9, <1>15
<1>16. ASSUME NEW d \in DeliveryIds, ~Visible(d)
       PROVE  delivery'[d].status \in {"absent", "pending"}
  BY <1>1, <1>7, <1>16 DEF Visible
<1> QED BY <1>6, <1>10, <1>11, <1>12, <1>13, <1>14, <1>15, <1>16 DEF OrderInv

\* The initial state is ordered.
LEMMA OrderInit == Init => OrderInv
<1> SUFFICES ASSUME Init PROVE OrderInv
  OBVIOUS
<1>1. \A d \in DeliveryIds : delivery[d].status = "absent"
  BY DEF Init, AbsentRow, PendingRow
<1>2. \A w \in Writers : writer[w].pc = "idle" /\ writer[w].lanes = {}
                         /\ writer[w].held = {} /\ writer[w].rows = {}
  BY DEF Init, IdleWriter
<1>3. \A k \in Workers : worker[k].pc = "idle"
  BY DEF Init, IdleWorker
<1>4. \A lane \in Lanes : Len(applied[lane]) = 0
  BY DEF Init
<1>5. AppendInv
  BY <1>1, <1>2 DEF AppendInv, Visible
<1>6. NoGap
  BY <1>1 DEF NoGap
<1>7. HandlerOwnsRow /\ RowLockExclusive
  BY <1>3 DEF HandlerOwnsRow, RowLockExclusive
<1>8. AppliedOnceInOrder
  <2>1. ASSUME NEW lane \in Lanes, NEW pos \in Positions
        PROVE  delivery[<<pos, lane[1]>>].status # "succeeded"
    BY <1>1 DEF Lanes, DeliveryIds
  <2>2. \A lane \in Lanes : 1 .. Len(applied[lane]) = {}
    BY <1>4
  <2> QED BY <2>1, <2>2 DEF AppliedOnceInOrder
<1> QED BY <1>5, <1>6, <1>7, <1>8 DEF OrderInv

\* Every step preserves the order invariant.
LEMMA OrderNext == TypeOK /\ OrderInv /\ [Next]_vars => OrderInv'
<1> SUFFICES ASSUME TypeOK, OrderInv, [Next]_vars PROVE OrderInv'
  OBVIOUS
<1>0. AppendInv
  BY DEF OrderInv
<1>1. ASSUME NEW w \in Writers, WriterStep(w) PROVE OrderInv'
  <2>1. ASSUME NEW cs \in SUBSET Consumers, NEW p \in Partitions, BeginAppend(w, cs, p)
        PROVE  OrderInv'
    BY <1>0, <2>1, BeginPreserves, RowsUnchanged, Zenon DEF BeginAppend
  <2>2. CASE AcquireLock(w)
    <3>1. PICK key \in writer[w].wanted : Lock(w, key)
      BY <2>2 DEF AcquireLock
    <3> QED BY <1>0, <3>1, LockPreserves, RowsUnchanged, Zenon DEF Lock
  <2>3. CASE Flush(w)
    BY <1>0, <2>3, FlushPreserves, RowsUnchanged, Zenon DEF Flush, Insert
  <2>4. CASE Commit(w)
    BY <2>4, CommitPreserves
  <2>5. CASE Rollback(w)
    BY <1>0, <2>5, RollbackPreserves, RowsUnchanged, Zenon DEF Rollback
  <2> QED BY <1>1, <2>1, <2>2, <2>3, <2>4, <2>5 DEF WriterStep
<1>2. ASSUME NEW r \in Relays, RelayStep(r) PROVE OrderInv'
  <2>1. NoNewHandler
    BY <1>2, RelayDispatch DEF NoNewHandler
  <2> QED BY <1>2, <2>1, RelayDispatch, DispatchPreserves
<1>3. ASSUME NEW k \in Workers, WorkerStep(k) PROVE OrderInv'
  <2>1. CASE StartHandler(k)
    BY <2>1, StartPreserves
  <2>2. CASE Succeed(k) \/ SucceedUnconfirmed(k)
    BY <2>2, HandlerCommitFrame, HandlerCommitPreserves
  <2>3. CASE ~StartHandler(k) /\ ~Succeed(k) /\ ~SucceedUnconfirmed(k)
    BY <1>3, <2>3, WorkerDispatch, DispatchPreserves
  <2> QED BY <2>1, <2>2, <2>3
<1>4. ASSUME UNCHANGED <<position, writer, delivery, worker, applied>> PROVE OrderInv'
  <2>1. \A d \in DeliveryIds : DispatchStep(d)
    BY <1>4 DEF DispatchStep
  <2>2. NoNewHandler
    BY <1>4 DEF NoNewHandler
  <2> QED BY <1>4, <2>1, <2>2, DispatchPreserves
<1>5. CASE (\E ref \in stream : Trim(ref)) \/ Tick \/ UNCHANGED vars
  BY <1>4, <1>5 DEF Trim, Tick, vars
<1> QED BY <1>1, <1>2, <1>3, <1>5 DEF Next

\* Handlers of one lane exclude each other because the later of two running
\* deliveries would have required the earlier one to have succeeded.
LEMMA OrderImpliesExclusion == TypeOK /\ OrderInv => OneHandlerPerLane
<1> SUFFICES ASSUME TypeOK, OrderInv, NEW j \in Workers, NEW k \in Workers,
                    worker[j].pc = "handling", worker[k].pc = "handling",
                    Lane(worker[j].reference[1]) = Lane(worker[k].reference[1])
             PROVE  j = k
  BY DEF OneHandlerPerLane
<1> DEFINE d == worker[j].reference[1]
           e == worker[k].reference[1]
<1>1. d \in DeliveryIds /\ e \in DeliveryIds
  BY DEF TypeOK, References
<1>2. delivery[d].status = "running" /\ delivery[e].status = "running"
  BY DEF OrderInv, HandlerOwnsRow
<1>3. ~(d[1] < e[1]) /\ ~(e[1] < d[1])
  BY <1>1, <1>2 DEF OrderInv, NoGap, Visible
<1>4. d = e
  <2>1. d[1] \in Nat /\ e[1] \in Nat
    BY <1>1, OutboxAssumption DEF DeliveryIds, Positions
  <2>2. d[2] = e[2]
    BY DEF Lane
  <2>3. d = <<d[1], d[2]>> /\ e = <<e[1], e[2]>>
    BY <1>1, LaneType
  <2> QED BY <1>3, <2>1, <2>2, <2>3
<1> QED BY <1>4 DEF OrderInv, RowLockExclusive

\* In every behaviour, handlers own their row and exclude each other within a
\* (consumer, partition), no delivery runs before its predecessors succeeded,
\* and effects are committed once and in order.
THEOREM OrderedEffects ==
  Spec => [](HandlerOwnsRow /\ OneHandlerPerLane /\ NoGap /\ AppliedOnceInOrder)
<1>1. Init => TypeOK /\ OrderInv
  BY TypeInit, OrderInit
<1>2. TypeOK /\ OrderInv /\ [Next]_vars => TypeOK' /\ OrderInv'
  BY TypeNext, OrderNext
<1>3. TypeOK /\ OrderInv =>
        HandlerOwnsRow /\ OneHandlerPerLane /\ NoGap /\ AppliedOnceInOrder
  BY OrderImpliesExclusion DEF OrderInv
<1> QED BY <1>1, <1>2, <1>3, PTL DEF Spec

\* A row operation changes only an unfinished visible row, and a commit shows
\* rows at the end of their lanes only.
LEMMA RowHistory ==
  ASSUME TypeOK, OrderInv, [Next]_vars
  PROVE  /\ \A d \in DeliveryIds :
              delivery[d].status \in {"succeeded", "dead"} => delivery'[d] = delivery[d]
         /\ \A d, e \in DeliveryIds :
              Visible(e) /\ ~Visible(d) /\ Visible(d)' /\ Lane(d)' = Lane(e) => e[1] < d[1]
<1> DEFINE Kept == /\ \A d \in DeliveryIds :
                        delivery[d].status \in {"succeeded", "dead"} =>
                          delivery'[d] = delivery[d]
                   /\ \A d \in DeliveryIds : ~Visible(d) => delivery'[d] = delivery[d]
<1>1. ASSUME Kept
      PROVE  /\ \A d \in DeliveryIds :
                  delivery[d].status \in {"succeeded", "dead"} => delivery'[d] = delivery[d]
             /\ \A d, e \in DeliveryIds :
                  Visible(e) /\ ~Visible(d) /\ Visible(d)' /\ Lane(d)' = Lane(e) => e[1] < d[1]
  BY <1>1 DEF Visible
<1>2. ASSUME delivery' = delivery PROVE Kept
  BY <1>2
<1>3. ASSUME \A d \in DeliveryIds : DispatchStep(d) PROVE Kept
  BY <1>3 DEF DispatchStep, Visible
<1>4. ASSUME NEW w \in Writers, WriterStep(w), ~Commit(w) PROVE delivery' = delivery
  BY <1>4, Zenon DEF WriterStep, BeginAppend, AcquireLock, Lock, Flush, Insert, Rollback
<1>5. ASSUME NEW k \in Workers, Succeed(k) \/ SucceedUnconfirmed(k) PROVE Kept
  <2> DEFINE ran == worker[k].reference[1]
  <2>1. HandlerCommitted(k)
    BY <1>5, HandlerCommitFrame
  <2>2. \A d \in DeliveryIds : d # ran => delivery'[d] = delivery[d]
    BY <2>1, Zenon DEF HandlerCommitted, TypeOK
  <2>3. delivery[ran].status = "running"
    BY <2>1, Zenon DEF OrderInv, HandlerOwnsRow, HandlerCommitted
  <2> QED BY <2>2, <2>3 DEF Visible
<1>6. CASE \E w \in Writers : WriterStep(w)
  <2>1. PICK w \in Writers : WriterStep(w)
    BY <1>6
  <2>2. CASE Commit(w)
    BY <2>2, CommitPreserves, Zenon DEF Visible
  <2>3. CASE ~Commit(w)
    BY <1>1, <1>2, <1>4, <2>1, <2>3
  <2> QED BY <2>2, <2>3, Zenon
<1>7. CASE \E r \in Relays : RelayStep(r)
  BY <1>1, <1>3, <1>7, RelayDispatch, Zenon
<1>8. CASE \E k \in Workers : WorkerStep(k)
  <2>1. PICK k \in Workers : WorkerStep(k)
    BY <1>8
  <2>2. CASE StartHandler(k)
    BY <1>1, <1>2, <2>2 DEF StartHandler, RunHandler
  <2>3. CASE Succeed(k) \/ SucceedUnconfirmed(k)
    BY <1>1, <1>5, <2>3
  <2>4. CASE ~StartHandler(k) /\ ~Succeed(k) /\ ~SucceedUnconfirmed(k)
    BY <1>1, <1>3, <2>1, <2>4, WorkerDispatch, Zenon
  <2> QED BY <2>2, <2>3, <2>4
<1>9. CASE (\E ref \in stream : Trim(ref)) \/ Tick \/ UNCHANGED vars
  BY <1>1, <1>2, <1>9, Zenon DEF Trim, Tick, vars
<1> QED BY <1>6, <1>7, <1>8, <1>9 DEF Next

\* The advisory locks of append_outbox_event make the deliveries of a
\* (consumer, partition) visible in position order, whatever the interleaving.
THEOREM CommitsInOrder == Spec => CommitOrder
<1>1. Init => TypeOK /\ OrderInv
  BY TypeInit, OrderInit
<1>2. TypeOK /\ OrderInv /\ [Next]_vars => TypeOK' /\ OrderInv'
  BY TypeNext, OrderNext
<1>3. TypeOK /\ OrderInv /\ [Next]_vars =>
        [CommitStep]_vars
  BY RowHistory DEF CommitStep
<1> QED BY <1>1, <1>2, <1>3, PTL DEF Spec, CommitOrder

\* Neither a stale relay nor a stale worker changes a finished delivery.
THEOREM FinishedRowsStay == Spec => FinishedForever
<1>1. Init => TypeOK /\ OrderInv
  BY TypeInit, OrderInit
<1>2. TypeOK /\ OrderInv /\ [Next]_vars => TypeOK' /\ OrderInv'
  BY TypeNext, OrderNext
<1>3. TypeOK /\ OrderInv /\ [Next]_vars =>
        [FinishedStep]_vars
  BY RowHistory DEF FinishedStep
<1> QED BY <1>1, <1>2, <1>3, PTL DEF Spec, FinishedForever

-----------------------------------------------------------------------------
(* The refinement *)

\* What the refinement mapping says of one position of one lane.
LEMMA LogMember ==
  \A lane \in Lanes, pos \in Positions :
    /\ <<pos, lane[1]>> \in DeliveryIds
    /\ pos \in PublishedLog[lane]
       <=> /\ Visible(<<pos, lane[1]>>)
           /\ delivery[<<pos, lane[1]>>].partition_key = lane[2]
  BY DEF PublishedLog, Lanes, DeliveryIds

\* A position has taken effect exactly when its row has succeeded.
LEMMA AppliedMember ==
  ASSUME TypeOK, OrderInv, NEW lane \in Lanes, NEW pos \in Positions
  PROVE  pos \in Ordered!AppliedSet(lane)
         <=> /\ delivery[<<pos, lane[1]>>].status = "succeeded"
             /\ delivery[<<pos, lane[1]>>].partition_key = lane[2]
  BY Zenon DEF OrderInv, AppliedOnceInOrder, Ordered!AppliedSet

\* The initial states correspond.
LEMMA RefineInit == Init => Ordered!Init
<1> SUFFICES ASSUME Init PROVE Ordered!Init
  OBVIOUS
<1>1. \A d \in DeliveryIds : delivery[d].status = "absent"
  BY DEF Init, AbsentRow, PendingRow
<1>2. \A lane \in Lanes : PublishedLog[lane] = {}
  BY <1>1, LogMember DEF PublishedLog, Visible
<1>3. PublishedLog = [lane \in Lanes |-> {}]
  BY <1>2 DEF PublishedLog
<1>4. BlockedLanes = {}
  BY <1>1 DEF BlockedLanes
<1> QED BY <1>3, <1>4 DEF Init, Ordered!Init

\* Row operations publish nothing and may only block lanes that have an event
\* left to apply.
LEMMA RefineDispatch ==
  ASSUME TypeOK, OrderInv, \A d \in DeliveryIds : DispatchStep(d), UNCHANGED applied
  PROVE  Ordered!DeadLetter
<1>1. \A d \in DeliveryIds : /\ Visible(d)' = Visible(d)
                             /\ delivery'[d].partition_key = delivery[d].partition_key
                             /\ Lane(d)' = Lane(d)
                             /\ delivery[d].status = "dead" => delivery'[d].status = "dead"
                             /\ delivery'[d].status = "dead" => delivery[d].status # "succeeded"
                             /\ delivery'[d].status = "dead" => Visible(d)
  BY Zenon DEF DispatchStep, Visible, Lane, Unfinished
<1>2. PublishedLog' = PublishedLog
  <2>1. \A lane \in Lanes, pos \in Positions : <<pos, lane[1]>> \in DeliveryIds
    BY LogMember, Zenon
  <2>2. \A lane \in Lanes : PublishedLog'[lane] = PublishedLog[lane]
    BY <1>1, <2>1 DEF PublishedLog, Visible
  <2> QED BY <2>2 DEF PublishedLog
<1>3. BlockedLanes' \in SUBSET Lanes
  BY <1>1, LaneType DEF BlockedLanes
<1>4. BlockedLanes \subseteq BlockedLanes'
  BY <1>1 DEF BlockedLanes
<1>5. ASSUME NEW lane \in BlockedLanes' \ BlockedLanes
      PROVE  PublishedLog[lane] \ Ordered!AppliedSet(lane) # {}
  <2>1. PICK d \in DeliveryIds : delivery'[d].status = "dead" /\ lane = Lane(d)
    BY <1>1, <1>5 DEF BlockedLanes
  <2>2. /\ lane \in Lanes
        /\ d[1] \in Positions
        /\ d = <<d[1], lane[1]>>
        /\ delivery[d].partition_key = lane[2]
    BY <2>1, LaneType DEF Lane
  <2>3. d[1] \in PublishedLog[lane]
    BY <1>1, <2>1, <2>2, LogMember
  <2>4. d[1] \notin Ordered!AppliedSet(lane)
    BY <1>1, <2>1, <2>2, AppliedMember
  <2> QED BY <2>3, <2>4
<1> QED BY <1>2, <1>3, <1>4, <1>5 DEF Ordered!DeadLetter

-----------------------------------------------------------------------------
(* No attempt without its predecessors *)

\* A delivery is attempted, and so dead-lettered, only after every earlier
\* delivery of its lane succeeded: a lane is blocked at its first unapplied
\* event and nowhere behind it.
AttemptsInOrder ==
  \A d, e \in DeliveryIds :
    /\ Attempted(d)
    /\ Visible(e)
    /\ Lane(e) = Lane(d)
    /\ e[1] < d[1]
    => delivery[e].status = "succeeded"

RefineInv == TypeOK /\ OrderInv /\ AttemptsInOrder

\* Nothing has been attempted initially.
LEMMA AttemptsInit == Init => AttemptsInOrder
<1> SUFFICES ASSUME Init PROVE AttemptsInOrder
  OBVIOUS
<1>1. \A d \in DeliveryIds : delivery[d].status = "absent"
  BY DEF Init, AbsentRow, PendingRow
<1> QED BY <1>1 DEF AttemptsInOrder, Visible

\* A row operation attempts only a row that was running, whose predecessors
\* had succeeded.
LEMMA AttemptsDispatch ==
  ASSUME RefineInv, \A d \in DeliveryIds : DispatchStep(d)
  PROVE  AttemptsInOrder'
<1> SUFFICES ASSUME NEW d \in DeliveryIds, NEW e \in DeliveryIds,
                    Attempted(d)', Visible(e)', Lane(e)' = Lane(d)', e[1] < d[1]
             PROVE  delivery'[e].status = "succeeded"
  BY DEF AttemptsInOrder
<1>1. Visible(e) /\ Lane(e) = Lane(d)
  BY Zenon DEF DispatchStep, Visible, Lane
<1>2. Attempted(d) \/ delivery[d].status = "running"
  BY DEF DispatchStep, Attempted, Visible
<1>3. delivery[e].status = "succeeded"
  BY <1>1, <1>2, Zenon DEF RefineInv, AttemptsInOrder, OrderInv, NoGap
<1> QED BY <1>3 DEF DispatchStep

\* The row a handler commits was running.
LEMMA AttemptsHandler ==
  ASSUME RefineInv, NEW k \in Workers, HandlerCommitted(k)
  PROVE  AttemptsInOrder'
<1> DEFINE ran == worker[k].reference[1]
<1>1. ran \in DeliveryIds
  BY HandlerCommittedTypes DEF RefineInv
<1>2. delivery[ran].status = "running"
  BY Zenon DEF RefineInv, OrderInv, HandlerOwnsRow, HandlerCommitted
<1>3. \A d \in DeliveryIds : d # ran => delivery'[d] = delivery[d]
  BY Zenon DEF HandlerCommitted, RefineInv, TypeOK
<1>4. /\ delivery'[ran].status = "succeeded"
      /\ delivery'[ran].partition_key = delivery[ran].partition_key
  <2>1. delivery[ran] \in OutboxDelivery
    BY <1>1 DEF RefineInv, TypeOK
  <2>2. delivery'[ran] = SucceededRow(delivery[ran])
    BY <1>1, Zenon DEF HandlerCommitted, RefineInv, TypeOK
  <2> QED BY <2>1, <2>2, HandledRowFields, Zenon
<1> SUFFICES ASSUME NEW d \in DeliveryIds, NEW e \in DeliveryIds,
                    Attempted(d)', Visible(e)', Lane(e)' = Lane(d)', e[1] < d[1]
             PROVE  delivery'[e].status = "succeeded"
  BY DEF AttemptsInOrder
<1> HIDE DEF ran
<1>5. Visible(e) /\ Lane(e) = Lane(d)
  BY <1>2, <1>3, <1>4 DEF Visible, Lane
<1>6. Attempted(d) \/ delivery[d].status = "running"
  BY <1>2, <1>3 DEF Attempted, Visible
<1>7. delivery[e].status = "succeeded"
  BY <1>5, <1>6 DEF RefineInv, AttemptsInOrder, OrderInv, NoGap
<1> QED BY <1>3, <1>4, <1>7

\* New rows come after the attempted rows of their lanes.
LEMMA AttemptsCommit ==
  ASSUME RefineInv, NEW w \in Writers, Commit(w)
  PROVE  AttemptsInOrder'
<1>1. /\ \A d, e \in DeliveryIds :
           Visible(e) /\ ~Visible(d) /\ Visible(d)' /\ Lane(d)' = Lane(e) => e[1] < d[1]
      /\ \A d \in DeliveryIds : Visible(d) => delivery'[d] = delivery[d]
  BY CommitPreserves DEF RefineInv
<1>2. ASSUME NEW d \in DeliveryIds, delivery'[d] # delivery[d]
      PROVE  delivery'[d].attempt_count = 0 /\ delivery'[d].status = "pending"
  BY <1>2 DEF Commit, PendingRow
<1> SUFFICES ASSUME NEW d \in DeliveryIds, NEW e \in DeliveryIds,
                    Attempted(d)', Visible(e)', Lane(e)' = Lane(d)', e[1] < d[1]
             PROVE  delivery'[e].status = "succeeded"
  BY DEF AttemptsInOrder
<1>3. delivery'[d] = delivery[d] /\ Attempted(d)
  BY <1>2 DEF Attempted, Visible
<1>4. Lane(d)' = Lane(d)
  BY <1>3 DEF Lane
<1>5. CASE Visible(e)
  BY <1>1, <1>3, <1>4, <1>5 DEF RefineInv, AttemptsInOrder, Lane
<1>6. CASE ~Visible(e)
  <2>1. d[1] \in Nat /\ e[1] \in Nat
    BY OutboxAssumption, LaneType DEF RefineInv, Positions
  <2>2. Visible(d)
    BY <1>3 DEF Attempted
  <2> QED BY <1>1, <1>4, <1>6, <2>1, <2>2
<1> QED BY <1>5, <1>6

-----------------------------------------------------------------------------
(* Every step is a step of the abstract specification or a stutter *)

\* The commit of a handler applies the first unapplied event of an unblocked
\* lane.
LEMMA RefineApply ==
  ASSUME RefineInv, NEW k \in Workers, HandlerCommitted(k)
  PROVE  \E lane \in Lanes : Ordered!Apply(lane)
<1> DEFINE ran == worker[k].reference[1]
           lane == Lane(ran)
           pos == ran[1]
<1>1. ran \in DeliveryIds
  BY HandlerCommittedTypes DEF RefineInv
<1>2. /\ lane \in Lanes
      /\ pos \in Positions
      /\ ran = <<pos, lane[1]>>
      /\ delivery[ran].partition_key = lane[2]
  BY <1>1, LaneType DEF RefineInv, Lane
<1>3. delivery[ran].status = "running"
  BY DEF RefineInv, OrderInv, HandlerOwnsRow, HandlerCommitted
<1>4. \A d \in DeliveryIds : d # ran => delivery'[d] = delivery[d]
  BY Zenon DEF HandlerCommitted, RefineInv, TypeOK
<1>5. /\ delivery'[ran].status = "succeeded"
      /\ delivery'[ran].partition_key = delivery[ran].partition_key
  <2>1. delivery[ran] \in OutboxDelivery
    BY <1>1 DEF RefineInv, TypeOK
  <2>2. delivery'[ran] = SucceededRow(delivery[ran])
    BY <1>1, Zenon DEF HandlerCommitted, RefineInv, TypeOK
  <2> QED BY <2>1, <2>2, HandledRowFields
<1>6. applied' = [applied EXCEPT ![lane] = Append(@, pos)]
  BY DEF HandlerCommitted
<1> HIDE DEF ran, lane, pos
<1>7. \A d \in DeliveryIds : d[1] \in Nat /\ d = <<d[1], d[2]>>
  BY LaneType, OutboxAssumption DEF RefineInv, Positions
<1>8. lane \notin BlockedLanes
  <2> SUFFICES ASSUME NEW e \in DeliveryIds, delivery[e].status = "dead", Lane(e) = Lane(ran)
               PROVE  FALSE
    BY DEF BlockedLanes, lane
  <2>1. e # ran /\ e[2] = ran[2]
    BY <1>3 DEF Lane
  <2>2. e[1] # ran[1]
    BY <1>1, <1>7, <2>1
  <2>3. CASE e[1] < ran[1]
    BY <1>1, <1>3, <2>3 DEF RefineInv, OrderInv, NoGap, Visible
  <2>4. CASE ran[1] < e[1]
    BY <1>1, <1>3, <2>4 DEF RefineInv, AttemptsInOrder, Attempted, Visible
  <2> QED BY <1>1, <1>7, <2>2, <2>3, <2>4
<1>9. Ordered!IsNext(lane, pos)
  <2>1. pos \in PublishedLog[lane] /\ pos \notin Ordered!AppliedSet(lane)
    BY <1>2, <1>3, LogMember, AppliedMember DEF RefineInv, Visible
  <2>2. ASSUME NEW other \in PublishedLog[lane] \ Ordered!AppliedSet(lane)
        PROVE  pos <= other
    <3> DEFINE e == <<other, lane[1]>>
    <3>1. other \in Positions
      BY <1>2 DEF PublishedLog
    <3>2. e \in DeliveryIds /\ Visible(e) /\ delivery[e].partition_key = lane[2]
      BY <1>2, <3>1, LogMember
    <3>3. delivery[e].status # "succeeded"
      BY <1>2, <3>1, <3>2, AppliedMember DEF RefineInv
    <3>4. Lane(e) = Lane(ran)
      BY <1>2, <3>2 DEF Lane
    <3>5. ~(other < pos)
      BY <1>1, <1>2, <1>3, <3>2, <3>3, <3>4 DEF RefineInv, OrderInv, NoGap
    <3> QED BY <1>2, <3>1, <3>5, OutboxAssumption DEF Positions
  <2> QED BY <2>1, <2>2 DEF Ordered!IsNext
<1>10. PublishedLog' = PublishedLog
  <2>1. \A d \in DeliveryIds : /\ Visible(d)' = Visible(d)
                               /\ delivery'[d].partition_key = delivery[d].partition_key
    BY <1>3, <1>4, <1>5 DEF Visible
  <2>2. \A l \in Lanes : PublishedLog'[l] = PublishedLog[l]
    BY <2>1, LogMember DEF PublishedLog, Visible
  <2> QED BY <2>2 DEF PublishedLog
<1>11. BlockedLanes' = BlockedLanes
  <2>1. \A d \in DeliveryIds : /\ Lane(d)' = Lane(d)
                               /\ delivery'[d].status = "dead" <=> delivery[d].status = "dead"
    BY <1>3, <1>4, <1>5 DEF Lane
  <2> QED BY <2>1 DEF BlockedLanes
<1>12. Ordered!Apply(lane)
  <2>1. pos \in PublishedLog[lane]
    BY <1>9 DEF Ordered!IsNext
  <2> QED BY <1>6, <1>8, <1>9, <1>10, <1>11, <2>1, Zenon DEF Ordered!Apply
<1> QED BY <1>2, <1>12

\* The commit of a transaction publishes its events at the end of their lanes.
LEMMA RefinePublish ==
  ASSUME RefineInv, NEW w \in Writers, Commit(w)
  PROVE  Ordered!Publish
<1>1. /\ \A d, e \in DeliveryIds :
           Visible(e) /\ ~Visible(d) /\ Visible(d)' /\ Lane(d)' = Lane(e) => e[1] < d[1]
      /\ \A d \in DeliveryIds : Visible(d) => delivery'[d] = delivery[d]
      /\ \A d \in DeliveryIds : ~Visible(d) => delivery'[d].status \in {"absent", "pending"}
  BY CommitPreserves, Zenon DEF RefineInv
<1>2. applied' = applied
  BY DEF Commit
<1>3. BlockedLanes' = BlockedLanes
  <2>1. \A d \in DeliveryIds : /\ delivery'[d].status = "dead" <=> delivery[d].status = "dead"
                               /\ delivery[d].status = "dead" => Lane(d)' = Lane(d)
    BY <1>1 DEF Visible, Lane
  <2> QED BY <2>1 DEF BlockedLanes
<1>4. PublishedLog' \in [Lanes -> SUBSET Positions]
  BY DEF PublishedLog
<1>5. ASSUME NEW lane \in Lanes PROVE PublishedLog[lane] \subseteq PublishedLog'[lane]
  BY <1>1, LogMember DEF PublishedLog, Visible
<1>6. ASSUME NEW lane \in Lanes, NEW new \in PublishedLog'[lane] \ PublishedLog[lane],
             NEW old \in PublishedLog[lane]
      PROVE  old < new
  <2> DEFINE d == <<new, lane[1]>>
             e == <<old, lane[1]>>
  <2>1. new \in Positions /\ old \in Positions
    BY <1>4, Zenon DEF PublishedLog
  <2>2. /\ d \in DeliveryIds /\ e \in DeliveryIds
        /\ Visible(e) /\ delivery[e].partition_key = lane[2]
    BY <2>1, LogMember
  <2>3. Visible(d)' /\ delivery'[d].partition_key = lane[2]
    BY <2>1 DEF PublishedLog, Visible
  <2>4. ~Visible(d)
    BY <1>1, <2>1, <2>2, <2>3, LogMember, Zenon
  <2>5. Lane(d)' = Lane(e)
    BY <2>2, <2>3, Zenon DEF Lane
  <2> QED BY <1>1, <2>2, <2>3, <2>4, <2>5, Zenon
<1> QED BY <1>2, <1>3, <1>4, <1>5, <1>6 DEF Ordered!Publish

\* Steps that change neither rows nor effects are stutters.
LEMMA RefineStutter ==
  ASSUME UNCHANGED <<delivery, applied>>
  PROVE  UNCHANGED Ordered!vars /\ (AttemptsInOrder => AttemptsInOrder')
<1>1. PublishedLog' = PublishedLog
  BY DEF PublishedLog, Visible
<1>2. BlockedLanes' = BlockedLanes
  BY DEF BlockedLanes, Lane
<1>3. AttemptsInOrder => AttemptsInOrder'
  BY DEF AttemptsInOrder, Attempted, Visible, Lane
<1> QED BY <1>1, <1>2, <1>3 DEF Ordered!vars

\* Every step refines the abstract next-state relation.
LEMMA RefineNext ==
  RefineInv /\ [Next]_vars => AttemptsInOrder' /\ [Ordered!Next]_(Ordered!vars)
<1> SUFFICES ASSUME RefineInv, [Next]_vars
             PROVE  AttemptsInOrder' /\ [Ordered!Next]_(Ordered!vars)
  OBVIOUS
<1>0. TypeOK /\ OrderInv /\ AttemptsInOrder
  BY DEF RefineInv
<1>1. ASSUME UNCHANGED <<delivery, applied>>
      PROVE  AttemptsInOrder' /\ [Ordered!Next]_(Ordered!vars)
  BY <1>0, <1>1, RefineStutter
<1>2. ASSUME \A d \in DeliveryIds : DispatchStep(d), UNCHANGED applied
      PROVE  AttemptsInOrder' /\ [Ordered!Next]_(Ordered!vars)
  BY <1>0, <1>2, RefineDispatch, AttemptsDispatch DEF Ordered!Next
<1>3. CASE \E w \in Writers : WriterStep(w)
  <2>1. PICK w \in Writers : WriterStep(w)
    BY <1>3
  <2>2. CASE Commit(w)
    BY <2>2, AttemptsCommit, RefinePublish DEF Ordered!Next
  <2>3. CASE ~Commit(w)
    <3>1. UNCHANGED <<delivery, applied>>
      BY <2>1, <2>3, Zenon DEF WriterStep, BeginAppend, AcquireLock, Lock, Flush, Insert, Rollback
    <3> QED BY <1>1, <3>1
  <2> QED BY <2>2, <2>3
<1>4. CASE \E r \in Relays : RelayStep(r)
  BY <1>0, <1>2, <1>4, RelayDispatch
<1>5. CASE \E k \in Workers : WorkerStep(k)
  <2>1. PICK k \in Workers : WorkerStep(k)
    BY <1>5
  <2>2. CASE StartHandler(k)
    BY <1>1, <2>2 DEF StartHandler, RunHandler
  <2>3. CASE Succeed(k) \/ SucceedUnconfirmed(k)
    BY <1>0, <2>3, HandlerCommitFrame, AttemptsHandler, RefineApply DEF Ordered!Next
  <2>4. CASE ~StartHandler(k) /\ ~Succeed(k) /\ ~SucceedUnconfirmed(k)
    BY <1>0, <1>2, <2>1, <2>4, WorkerDispatch
  <2> QED BY <2>2, <2>3, <2>4
<1>6. CASE (\E ref \in stream : Trim(ref)) \/ Tick \/ UNCHANGED vars
  BY <1>1, <1>6 DEF Trim, Tick, vars
<1> QED BY <1>3, <1>4, <1>5, <1>6 DEF Next

\* The outbox, its relays and its workers implement one log per (consumer,
\* partition) that grows at its end and takes effect once and in order.
THEOREM Refines == Spec => OrderedSpec
<1>1. Init => RefineInv /\ Ordered!Init
  BY TypeInit, OrderInit, AttemptsInit, RefineInit DEF RefineInv
<1>2. RefineInv /\ [Next]_vars => RefineInv' /\ [Ordered!Next]_(Ordered!vars)
  BY TypeNext, OrderNext, RefineNext DEF RefineInv
<1> QED BY <1>1, <1>2, PTL DEF Spec, OrderedSpec, Ordered!Spec

=============================================================================

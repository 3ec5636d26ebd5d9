------------------------------- MODULE Outbox -------------------------------
(***************************************************************************)
(* The transactional outbox: application transactions append events with   *)
(* one delivery row per consumer, relays lease due rows and publish        *)
(* references to the Taskiq stream, workers execute a reference if it      *)
(* still carries the row's fencing token.                                  *)
(*                                                                         *)
(* Postgres is modelled at READ COMMITTED: a transaction's writes appear   *)
(* at its commit, advisory locks are held until it ends, and a row locked  *)
(* by SELECT ... FOR UPDATE is skipped by the relay's claim and waited for *)
(* by everyone else.                                                       *)
(***************************************************************************)
EXTENDS Naturals, FiniteSets, Sequences

CONSTANTS
  Writers,              \* application transactions running concurrently
  Relays,               \* relay processes
  Workers,              \* Taskiq worker tasks
  Consumers,            \* consumer names of the catalog
  Partitions,           \* partition keys
  LockKey(_, _),        \* blake2b of consumer and partition key; may collide
  BatchSize,            \* outbox_delivery_batch_size
  EnqueueConcurrency,   \* durable_relay_enqueue_concurrency
  LeaseDuration,        \* outbox_delivery_lease_seconds
  MaxRetryDelay,        \* outbox_delivery_max_retry_seconds
  RelayMaxAttempts,     \* outbox_delivery_max_attempts as the relay reads it
  WorkerMaxAttempts,    \* outbox_delivery_max_attempts as the worker reads it
  MaxPosition,          \* bound: events appended, rolled back ones included
  MaxTime,              \* bound: database clock
  MaxFaults             \* bound: crashes, losses and failed calls

ASSUME OutboxAssumption ==
  /\ IsFiniteSet(Writers)
  /\ Consumers # {}
  /\ Partitions # {}
  /\ \A c \in Consumers, p \in Partitions : LockKey(c, p) \in Nat
  /\ BatchSize \in Nat \ {0}
  /\ EnqueueConcurrency \in Nat \ {0}
  /\ LeaseDuration \in Nat \ {0}
  /\ MaxRetryDelay \in Nat \ {0}
  /\ RelayMaxAttempts \in Nat \ {0}
  /\ WorkerMaxAttempts \in Nat \ {0}
  /\ MaxPosition \in Nat
  /\ MaxTime \in Nat
  /\ MaxFaults \in Nat

VARIABLES
  now,         \* clock_timestamp() of the database
  position,    \* next value of the OutboxEvent.position identity column
  writer,      \* open application transactions
  delivery,    \* committed OutboxDelivery rows
  relay,       \* in-memory batch of each relay
  stream,      \* unacknowledged references in the Taskiq Redis stream
  worker,      \* reference each worker task is executing
  applied,     \* positions whose handler committed, in commit order
  checkpoint,  \* ConsumerCheckpoint.source_position
  faults       \* failures injected so far

vars == <<now, position, writer, delivery, relay, stream, worker, applied,
          checkpoint, faults>>

-----------------------------------------------------------------------------
(* Rows, references and process states *)

Positions == 1 .. MaxPosition
DeliveryIds == Positions \X Consumers
Lanes == Consumers \X Partitions

Unfinished == {"pending", "running", "dead"}
Statuses == {"absent", "succeeded"} \cup Unfinished

\* A token is the number of the claim that issued it: unique per row, as the
\* uuid4 of the code is; 0 is SQL NULL.
Tokens == Nat
References == DeliveryIds \X Tokens

OutboxDelivery ==
  [partition_key    : Partitions,
   status           : Statuses,
   available_at     : Nat,
   attempt_count    : Nat,
   enqueue_count    : Nat,
   delivery_token   : Tokens,
   lease_owner      : SUBSET Relays,
   lease_expires_at : Nat,
   enqueued         : BOOLEAN]

Lane(d) == <<d[2], delivery[d].partition_key>>

PendingRow(p, at) ==
  [partition_key |-> p, status |-> "pending", available_at |-> at,
   attempt_count |-> 0, enqueue_count |-> 0, delivery_token |-> 0,
   lease_owner |-> {}, lease_expires_at |-> 0, enqueued |-> FALSE]

AbsentRow(p) == [PendingRow(p, 0) EXCEPT !.status = "absent"]

\* Rows of a transaction that has flushed but not committed.
NewRows == [id : DeliveryIds, partition_key : Partitions, available_at : Nat]

IdleWriter ==
  [pc |-> "idle", lanes |-> {}, wanted |-> {}, held |-> {}, rows |-> {}]

IdleRelay ==
  [pc |-> "idle", at |-> 0, unattempted |-> {}, chunk |-> {}, outcomes |-> {}]

NoReference == <<<<0, CHOOSE c \in Consumers : TRUE>>, 0>>
IdleWorker == [pc |-> "idle", reference |-> NoReference]

\* The first n members of S in source_position order. Ties (one event, several
\* consumers) are broken by consumer name in the code, arbitrarily here.
Earliest(S, n) ==
  {T \in SUBSET S :
     /\ Cardinality(T) <= n
     /\ T # S => Cardinality(T) = n
     /\ \A x \in T, y \in S \ T : x[1] <= y[1]}

RetryDelay(n) ==
  LET backoff == 2 ^ (IF n < 1 THEN 1 ELSE n)
  IN  IF backoff \in 0 .. MaxRetryDelay THEN backoff ELSE MaxRetryDelay

ClearLease(row) ==
  [row EXCEPT !.lease_owner = {}, !.delivery_token = 0, !.lease_expires_at = 0]

Fault ==
  /\ faults < MaxFaults
  /\ faults' = faults + 1

-----------------------------------------------------------------------------
(* append_outbox_event inside an application transaction *)

LaneKey(lane) == LockKey(lane[1], lane[2])

HeldByOther(w, key) == \E v \in Writers \ {w} : key \in writer[v].held

\* append_outbox_event is called; the transaction may already have appended
\* other events. A key the transaction holds is granted again at once.
BeginAppend(w, cs, p) ==
  /\ writer[w].pc \in {"idle", "open"}
  /\ position <= MaxPosition
  /\ writer' = [writer EXCEPT ![w] = [@ EXCEPT
       !.pc = "locking",
       !.lanes = cs \X {p},
       !.wanted = {LaneKey(lane) : lane \in cs \X {p}} \ writer[w].held]]
  /\ UNCHANGED <<now, position, delivery, relay, stream, worker, applied,
                 checkpoint, faults>>

Lock(w, key) ==
  /\ ~HeldByOther(w, key)
  /\ writer' = [writer EXCEPT ![w] = [@ EXCEPT
       !.wanted = writer[w].wanted \ {key},
       !.held = writer[w].held \cup {key}]]
  /\ UNCHANGED <<now, position, delivery, relay, stream, worker, applied,
                 checkpoint, faults>>

\* Mutant: the keys are locked in the order of the consumers, unsorted.
AcquireAnyLock(w) ==
  /\ writer[w].pc = "locking"
  /\ \E key \in writer[w].wanted : Lock(w, key)

\* pg_advisory_xact_lock on the smallest key still wanted; blocks while
\* another transaction holds it.
AcquireLock(w) ==
  /\ writer[w].pc = "locking"
  /\ \E key \in writer[w].wanted :
       /\ \A other \in writer[w].wanted : key <= other
       /\ Lock(w, key)

NewRow(lane) ==
  [id |-> <<position, lane[1]>>, partition_key |-> lane[2], available_at |-> now]

Insert(w) ==
  /\ position <= MaxPosition
  /\ position' = position + 1
  /\ writer' = [writer EXCEPT ![w] = [@ EXCEPT
       !.pc = "open",
       !.lanes = {},
       !.rows = writer[w].rows \cup {NewRow(lane) : lane \in writer[w].lanes}]]
  /\ UNCHANGED <<now, delivery, relay, stream, worker, applied, checkpoint, faults>>

\* Mutant: the event draws its position before the locks are granted.
FlushBeforeLocks(w) ==
  /\ writer[w].pc = "locking"
  /\ Insert(w)

\* All locks held: the event row is flushed, which draws its position, and one
\* delivery per consumer is added to the transaction.
Flush(w) ==
  /\ writer[w].pc = "locking"
  /\ writer[w].wanted = {}
  /\ Insert(w)

Commit(w) ==
  /\ writer[w].pc = "open"
  /\ delivery' = [d \in DeliveryIds |->
       IF \E row \in writer[w].rows : row.id = d
       THEN LET row == CHOOSE row \in writer[w].rows : row.id = d
            IN  PendingRow(row.partition_key, row.available_at)
       ELSE delivery[d]]
  /\ writer' = [writer EXCEPT ![w] = IdleWriter]
  /\ UNCHANGED <<now, position, relay, stream, worker, applied, checkpoint, faults>>

\* Any error, a deadlock victim included: the rows vanish, the locks are
\* released, the drawn position is lost.
Rollback(w) ==
  /\ writer[w].pc # "idle"
  /\ writer' = [writer EXCEPT ![w] = IdleWriter]
  /\ UNCHANGED <<now, position, delivery, relay, stream, worker, applied,
                 checkpoint, faults>>

-----------------------------------------------------------------------------
(* The relay: claim, publish, record *)

\* A worker transaction that runs a handler holds the row lock.
Locked(d) == \E k \in Workers : worker[k].pc = "handling" /\ worker[k].reference[1] = d

\* Mutant: an expired lease is never taken over.
ClaimablePendingOnly(d, at) == delivery[d].status = "pending"

Claimable(d, at) ==
  \/ delivery[d].status = "pending"
  \/ delivery[d].status = "running" /\ delivery[d].lease_expires_at <= at

\* Mutant: a dead delivery no longer blocks its partition.
EarlierLive(d) ==
  \E prior \in DeliveryIds :
    /\ delivery[prior].status \in {"pending", "running"}
    /\ Lane(prior) = Lane(d)
    /\ prior[1] < d[1]

\* Mutant: only a running delivery blocks its partition.
EarlierRunning(d) ==
  \E prior \in DeliveryIds :
    /\ delivery[prior].status = "running"
    /\ Lane(prior) = Lane(d)
    /\ prior[1] < d[1]

EarlierUnfinished(d) ==
  \E prior \in DeliveryIds :
    /\ delivery[prior].status \in Unfinished
    /\ Lane(prior) = Lane(d)
    /\ prior[1] < d[1]

Exhausted(at) ==
  {d \in DeliveryIds : /\ Claimable(d, at)
                       /\ delivery[d].attempt_count >= RelayMaxAttempts
                       /\ ~Locked(d)}

\* Mutant: the claim does not respect the worker's row lock.
DueIgnoringLocks(at) ==
  {d \in DeliveryIds : /\ Claimable(d, at)
                       /\ delivery[d].attempt_count < RelayMaxAttempts
                       /\ delivery[d].available_at <= at
                       /\ ~EarlierUnfinished(d)}

Due(at) ==
  {d \in DeliveryIds : /\ Claimable(d, at)
                       /\ delivery[d].attempt_count < RelayMaxAttempts
                       /\ delivery[d].available_at <= at
                       /\ ~EarlierUnfinished(d)
                       /\ ~Locked(d)}

DeadLettered(row) == [ClearLease(row) EXCEPT !.status = "dead"]

Leased(row, r, at) ==
  [row EXCEPT !.status = "running",
              !.lease_owner = {r},
              !.delivery_token = row.enqueue_count + 1,
              !.lease_expires_at = at + LeaseDuration,
              !.enqueued = FALSE,
              !.enqueue_count = row.enqueue_count + 1]

\* claim opens its transaction and reads the clock.
ClaimBegin(r) ==
  /\ relay[r].pc = "idle"
  /\ relay' = [relay EXCEPT ![r] = [@ EXCEPT !.pc = "claiming", !.at = now]]
  /\ UNCHANGED <<now, position, writer, delivery, stream, worker, applied,
                 checkpoint, faults>>

\* The two selects and the updates of claim, decided with the clock read before.
Claim(r) ==
  /\ relay[r].pc = "claiming"
  /\ \E dead \in Earliest(Exhausted(relay[r].at), BatchSize),
        leased \in Earliest(Due(relay[r].at), BatchSize) :
       /\ delivery' = [d \in DeliveryIds |->
            IF d \in dead THEN DeadLettered(delivery[d])
            ELSE IF d \in leased THEN Leased(delivery[d], r, relay[r].at)
            ELSE delivery[d]]
       /\ relay' = [relay EXCEPT ![r] =
            IF leased = {} THEN IdleRelay
            ELSE [IdleRelay EXCEPT
                    !.pc = "publishing",
                    !.unattempted =
                      {<<d, delivery[d].enqueue_count + 1>> : d \in leased}]]
  /\ UNCHANGED <<now, position, writer, stream, worker, applied, checkpoint, faults>>

\* A batch holds one reference per delivery.
Chunks(r) ==
  {{ref \in relay[r].unattempted : ref[1] \in ids} :
     ids \in Earliest({ref[1] : ref \in relay[r].unattempted}, EnqueueConcurrency)}

Publish(r, chunk, tail) ==
  /\ relay[r].pc = "publishing"
  /\ relay[r].chunk = {}
  /\ relay[r].unattempted # {}
  /\ relay' = [relay EXCEPT ![r] = [@ EXCEPT !.chunk = chunk, !.unattempted = tail]]
  /\ UNCHANGED <<now, position, writer, delivery, stream, worker, applied,
                 checkpoint, faults>>

\* The next enqueue_concurrency references are handed to kiq together.
StartChunk(r) ==
  \E chunk \in Chunks(r) : Publish(r, chunk, relay[r].unattempted \ chunk)

Settle(r, ref, ok) ==
  relay' = [relay EXCEPT ![r] = [@ EXCEPT
    !.chunk = relay[r].chunk \ {ref},
    !.outcomes = relay[r].outcomes \cup {[reference |-> ref, ok |-> ok]}]]

Enqueue(r, ref) ==
  /\ relay[r].pc = "publishing"
  /\ ref \in relay[r].chunk
  /\ stream' = stream \cup {ref}
  /\ Settle(r, ref, TRUE)
  /\ UNCHANGED <<now, position, writer, delivery, worker, applied, checkpoint, faults>>

\* kiq raises; a timeout leaves open whether Redis appended the message.
EnqueueError(r, ref) ==
  /\ relay[r].pc = "publishing"
  /\ ref \in relay[r].chunk
  /\ Fault
  /\ stream' \in {stream, stream \cup {ref}}
  /\ Settle(r, ref, FALSE)
  /\ UNCHANGED <<now, position, writer, delivery, worker, applied, checkpoint>>

\* All chunks settled: record_enqueue_outcomes reads the clock, then waits for
\* the row locks.
RecordBegin(r) ==
  /\ relay[r].pc = "publishing"
  /\ relay[r].chunk = {}
  /\ relay[r].unattempted = {}
  /\ relay' = [relay EXCEPT ![r] = [@ EXCEPT !.pc = "recording", !.at = now]]
  /\ UNCHANGED <<now, position, writer, delivery, stream, worker, applied,
                 checkpoint, faults>>

OwnsLiveLease(row, ref, r, at) ==
  /\ row.status = "running"
  /\ row.lease_owner = {r}
  /\ row.delivery_token = ref[2]
  /\ row.lease_expires_at > at

WithOutcome(row, ok, at) ==
  IF ok
  THEN [row EXCEPT !.enqueued = TRUE]
  ELSE [ClearLease(row) EXCEPT !.status = "pending",
                               !.available_at = at + RetryDelay(row.enqueue_count),
                               !.enqueued = FALSE]

OutcomesRecorded(r) ==
  /\ \A outcome \in relay[r].outcomes : ~Locked(outcome.reference[1])
  /\ delivery' = [d \in DeliveryIds |->
       IF \E outcome \in relay[r].outcomes :
            /\ outcome.reference[1] = d
            /\ OwnsLiveLease(delivery[d], outcome.reference, r, relay[r].at)
       THEN LET outcome == CHOOSE outcome \in relay[r].outcomes :
                             outcome.reference[1] = d
            IN  WithOutcome(delivery[d], outcome.ok, relay[r].at)
       ELSE delivery[d]]

RecordOutcomes(r) ==
  /\ relay[r].pc = "recording"
  /\ OutcomesRecorded(r)
  /\ relay' = [relay EXCEPT ![r] = IdleRelay]
  /\ UNCHANGED <<now, position, writer, stream, worker, applied, checkpoint, faults>>

\* Graceful cancellation reaches the relay while it gathers a chunk. Calls that
\* have not settled are cancelled: whether Redis appended them is unknown and
\* their lease is left to expire.
Cancel(r) ==
  /\ relay[r].pc = "publishing"
  /\ relay[r].chunk # {} \/ relay[r].outcomes # {}
  /\ Fault
  /\ \E sent \in SUBSET relay[r].chunk : stream' = stream \cup sent
  /\ relay' = [relay EXCEPT ![r] = [@ EXCEPT !.pc = "cancelled", !.chunk = {}, !.at = now]]
  /\ UNCHANGED <<now, position, writer, delivery, worker, applied, checkpoint>>

\* preserve_cancelled_tail, first half: an error is logged and the release
\* still follows.
RecordCancelled(r) ==
  /\ relay[r].pc = "cancelled"
  /\ \/ OutcomesRecorded(r)
     \/ UNCHANGED delivery
  /\ relay' = [relay EXCEPT ![r] = [@ EXCEPT !.pc = "releasing", !.outcomes = {}]]
  /\ UNCHANGED <<now, position, writer, stream, worker, applied, checkpoint, faults>>

Releasable(row, ref, r) ==
  /\ row.status = "running"
  /\ row.lease_owner = {r}
  /\ row.delivery_token = ref[2]
  /\ ~row.enqueued

ReleasedRow(row) == [ClearLease(row) EXCEPT !.status = "pending"]

\* preserve_cancelled_tail, second half; the process then exits and its
\* successor starts idle.
Release(r) ==
  /\ relay[r].pc = "releasing"
  /\ \A ref \in relay[r].unattempted : ~Locked(ref[1])
  /\ delivery' = [d \in DeliveryIds |->
       IF \E ref \in relay[r].unattempted :
            ref[1] = d /\ Releasable(delivery[d], ref, r)
       THEN ReleasedRow(delivery[d])
       ELSE delivery[d]]
  /\ relay' = [relay EXCEPT ![r] = IdleRelay]
  /\ UNCHANGED <<now, position, writer, stream, worker, applied, checkpoint, faults>>

\* The process crashes, or the claiming, recording or releasing transaction
\* fails: the batch in memory is forgotten.
AbandonBatch(r) ==
  /\ relay[r].pc # "idle"
  /\ Fault
  /\ relay' = [relay EXCEPT ![r] = IdleRelay]
  /\ UNCHANGED <<now, position, writer, delivery, stream, worker, applied, checkpoint>>

-----------------------------------------------------------------------------
(* The Taskiq stream and the worker *)

\* taskiq_stream_max_length trims a message that nobody acknowledged.
Trim(ref) ==
  /\ ref \in stream
  /\ Fault
  /\ stream' = stream \ {ref}
  /\ UNCHANGED <<now, position, writer, delivery, relay, worker, applied, checkpoint>>

\* A message stays in the stream until it is acknowledged: a second worker may
\* receive it after the idle timeout while the first still runs.
Receive(k, ref) ==
  /\ worker[k].pc = "idle"
  /\ ref \in stream
  /\ worker' = [worker EXCEPT ![k] = [pc |-> "received", reference |-> ref]]
  /\ UNCHANGED <<now, position, writer, delivery, relay, stream, applied,
                 checkpoint, faults>>

\* Acknowledged when executed, failed executions included.
Acknowledge(k) ==
  /\ stream' = stream \ {worker[k].reference}
  /\ worker' = [worker EXCEPT ![k] = IdleWorker]

Executable(row, ref) ==
  /\ row.status = "running"
  /\ row.delivery_token = ref[2]
  /\ row.lease_expires_at > now

RunHandler(k) ==
  /\ worker[k].pc = "received"
  /\ LET ref == worker[k].reference
     IN  Executable(delivery[ref[1]], ref)
  /\ worker' = [worker EXCEPT ![k].pc = "handling"]
  /\ UNCHANGED <<now, position, writer, delivery, relay, stream, applied,
                 checkpoint, faults>>

\* execute: the row lock is granted and the lease is current.
StartHandler(k) ==
  /\ ~Locked(worker[k].reference[1])
  /\ RunHandler(k)

\* execute: the row is finished, leased anew or its lease has expired.
DiscardStale(k) ==
  /\ worker[k].pc = "received"
  /\ LET ref == worker[k].reference
     IN  /\ ~Locked(ref[1])
         /\ ~Executable(delivery[ref[1]], ref)
  /\ Acknowledge(k)
  /\ UNCHANGED <<now, position, writer, delivery, relay, applied, checkpoint, faults>>

AdvanceCheckpoint(lane, pos) ==
  checkpoint' = [checkpoint EXCEPT ![lane] = IF pos > @ THEN pos ELSE @]

SucceededRow(row) ==
  [ClearLease(row) EXCEPT !.status = "succeeded",
                          !.attempt_count = row.attempt_count + 1]

\* The handler's writes and the row's completion commit together.
HandlerCommitted(k) ==
  LET d == worker[k].reference[1]
  IN  /\ worker[k].pc = "handling"
      /\ delivery' = [delivery EXCEPT ![d] = SucceededRow(delivery[d])]
      /\ applied' = [applied EXCEPT ![Lane(d)] = Append(@, d[1])]
      /\ AdvanceCheckpoint(Lane(d), d[1])

Succeed(k) ==
  /\ HandlerCommitted(k)
  /\ Acknowledge(k)
  /\ UNCHANGED <<now, position, writer, relay, faults>>

\* The commit takes effect but the connection drops before it is confirmed.
SucceedUnconfirmed(k) ==
  /\ HandlerCommitted(k)
  /\ Fault
  /\ worker' = [worker EXCEPT ![k].pc = "failed"]
  /\ UNCHANGED <<now, position, writer, relay, stream>>

\* Mutant: a failure is reported although nothing was received.
FailAnytime(k) ==
  /\ worker[k].pc # "failed"
  /\ worker' = [worker EXCEPT ![k].pc = "failed"]
  /\ UNCHANGED <<now, position, writer, delivery, relay, stream, applied,
                 checkpoint, faults>>

\* execute raises before or inside the handler: its transaction is rolled back
\* and the row lock released before the failure is recorded.
Fail(k) ==
  /\ worker[k].pc \in {"received", "handling"}
  /\ worker' = [worker EXCEPT ![k].pc = "failed"]
  /\ UNCHANGED <<now, position, writer, delivery, relay, stream, applied,
                 checkpoint, faults>>

FailedRow(row) ==
  LET attempts == row.attempt_count + 1
      cleared == [ClearLease(row) EXCEPT !.attempt_count = attempts,
                                         !.enqueued = FALSE]
  IN  IF attempts >= WorkerMaxAttempts
      THEN [cleared EXCEPT !.status = "dead"]
      ELSE [cleared EXCEPT !.status = "pending",
                           !.available_at = now + RetryDelay(attempts)]

\* Mutant: the failure is recorded without checking status and token.
RecordFailureUnfenced(k) ==
  LET ref == worker[k].reference
  IN  /\ worker[k].pc = "failed"
      /\ ~Locked(ref[1])
      /\ delivery' = [delivery EXCEPT ![ref[1]] = FailedRow(@)]
      /\ Acknowledge(k)
      /\ UNCHANGED <<now, position, writer, relay, applied, checkpoint, faults>>

\* _record_failure, in a transaction of its own.
RecordFailure(k) ==
  LET ref == worker[k].reference
      row == delivery[ref[1]]
  IN  /\ worker[k].pc = "failed"
      /\ ~Locked(ref[1])
      /\ delivery' =
           IF row.status = "running" /\ row.delivery_token = ref[2]
           THEN [delivery EXCEPT ![ref[1]] = FailedRow(row)]
           ELSE delivery
      /\ Acknowledge(k)
      /\ UNCHANGED <<now, position, writer, relay, applied, checkpoint, faults>>

\* _record_failure itself raises: nothing is recorded, the message is
\* acknowledged and the lease is left to expire.
RecordFailureLost(k) ==
  /\ worker[k].pc = "failed"
  /\ Fault
  /\ Acknowledge(k)
  /\ UNCHANGED <<now, position, writer, delivery, relay, applied, checkpoint>>

\* The worker dies: its transaction is rolled back and its message stays
\* unacknowledged.
WorkerCrash(k) ==
  /\ worker[k].pc # "idle"
  /\ Fault
  /\ worker' = [worker EXCEPT ![k] = IdleWorker]
  /\ UNCHANGED <<now, position, writer, delivery, relay, stream, applied, checkpoint>>

-----------------------------------------------------------------------------
(* The system *)

Tick ==
  /\ now < MaxTime
  /\ now' = now + 1
  /\ UNCHANGED <<position, writer, delivery, relay, stream, worker, applied,
                 checkpoint, faults>>

Init ==
  /\ now = 0
  /\ position = 1
  /\ writer = [w \in Writers |-> IdleWriter]
  /\ delivery = [d \in DeliveryIds |-> AbsentRow(CHOOSE p \in Partitions : TRUE)]
  /\ relay = [r \in Relays |-> IdleRelay]
  /\ stream = {}
  /\ worker = [k \in Workers |-> IdleWorker]
  /\ applied = [lane \in Lanes |-> <<>>]
  /\ checkpoint = [lane \in Lanes |-> 0]
  /\ faults = 0

WriterStep(w) ==
  \/ \E cs \in (SUBSET Consumers) \ {{}}, p \in Partitions : BeginAppend(w, cs, p)
  \/ AcquireLock(w)
  \/ Flush(w)
  \/ Commit(w)
  \/ Rollback(w)

RelayStep(r) ==
  \/ ClaimBegin(r)
  \/ Claim(r)
  \/ StartChunk(r)
  \/ \E ref \in relay[r].chunk : Enqueue(r, ref)
  \/ \E ref \in relay[r].chunk : EnqueueError(r, ref)
  \/ RecordBegin(r)
  \/ RecordOutcomes(r)
  \/ Cancel(r)
  \/ RecordCancelled(r)
  \/ Release(r)
  \/ AbandonBatch(r)

WorkerStep(k) ==
  \/ \E ref \in stream : Receive(k, ref)
  \/ StartHandler(k)
  \/ DiscardStale(k)
  \/ Succeed(k)
  \/ SucceedUnconfirmed(k)
  \/ Fail(k)
  \/ RecordFailure(k)
  \/ RecordFailureLost(k)
  \/ WorkerCrash(k)

Next ==
  \/ \E w \in Writers : WriterStep(w)
  \/ \E r \in Relays : RelayStep(r)
  \/ \E k \in Workers : WorkerStep(k)
  \/ \E ref \in stream : Trim(ref)
  \/ Tick

Spec == Init /\ [][Next]_vars

-----------------------------------------------------------------------------
(* Properties *)

WriterStates ==
  [pc     : {"idle", "locking", "open"},
   lanes  : SUBSET Lanes,
   wanted : SUBSET Nat,
   held   : SUBSET Nat,
   rows   : SUBSET NewRows]

RelayStates ==
  [pc          : {"idle", "claiming", "publishing", "recording", "cancelled",
                  "releasing"},
   at          : Nat,
   unattempted : SUBSET References,
   chunk       : SUBSET References,
   outcomes    : SUBSET [reference : References, ok : BOOLEAN]]

WorkerStates ==
  [pc        : {"idle", "received", "handling", "failed"},
   reference : References \cup {NoReference}]

\* Every variable has its type; an executing worker has a reference.
TypeOK ==
  /\ now \in Nat
  /\ position \in Nat \ {0}
  /\ writer \in [Writers -> WriterStates]
  /\ delivery \in [DeliveryIds -> OutboxDelivery]
  /\ relay \in [Relays -> RelayStates]
  /\ stream \in SUBSET References
  /\ worker \in [Workers -> WorkerStates]
  /\ \A k \in Workers : worker[k].pc # "idle" => worker[k].reference \in References
  /\ applied \in [Lanes -> Seq(Positions)]
  /\ checkpoint \in [Lanes -> Nat]
  /\ faults \in Nat

Visible(d) == delivery[d].status # "absent"

\* The lease columns are set exactly while a row is running: the CHECK
\* constraints of outbox_delivery never reject an update of claim, record,
\* release, execute or _record_failure.
LeaseShape ==
  \A d \in DeliveryIds :
    LET row == delivery[d]
        leased == row.status = "running"
    IN  /\ (row.lease_owner # {}) = leased
        /\ (row.delivery_token # 0) = leased
        /\ (row.lease_expires_at # 0) = leased

\* While execute runs a handler its row stays running under its own token, even
\* after the lease has expired: no relay re-leases, releases or retries it.
HandlerOwnsRow ==
  \A k \in Workers : worker[k].pc = "handling" =>
    LET ref == worker[k].reference
    IN  /\ delivery[ref[1]].status = "running"
        /\ delivery[ref[1]].delivery_token = ref[2]

\* Two workers never run handlers of one (consumer, partition) at once, whatever
\* was redelivered, re-leased or published twice.
OneHandlerPerLane ==
  \A j, k \in Workers :
    /\ worker[j].pc = "handling"
    /\ worker[k].pc = "handling"
    /\ Lane(worker[j].reference[1]) = Lane(worker[k].reference[1])
    => j = k

\* A delivery that runs or has succeeded has every earlier committed delivery of
\* its (consumer, partition) succeeded before it: claim's earlier_unfinished is
\* never invalidated by a transaction that commits late, and nothing runs past a
\* dead letter.
NoGap ==
  \A d, e \in DeliveryIds :
    /\ delivery[d].status \in {"running", "succeeded"}
    /\ Visible(e)
    /\ Lane(e) = Lane(d)
    /\ e[1] < d[1]
    => delivery[e].status = "succeeded"

\* The handler effects of a (consumer, partition) are committed once per
\* succeeded delivery, in source_position order.
AppliedOnceInOrder ==
  \A lane \in Lanes :
    /\ \A i, j \in 1 .. Len(applied[lane]) :
         i < j => applied[lane][i] < applied[lane][j]
    /\ \A pos \in Positions :
         (\E i \in 1 .. Len(applied[lane]) : applied[lane][i] = pos)
         <=> /\ delivery[<<pos, lane[1]>>].status = "succeeded"
             /\ delivery[<<pos, lane[1]>>].partition_key = lane[2]

\* advance_checkpoint leaves the watermark at the last event applied.
CheckpointIsLastApplied ==
  \A lane \in Lanes :
    checkpoint[lane] = IF applied[lane] = <<>> THEN 0
                       ELSE applied[lane][Len(applied[lane])]

\* A delivery is dead only once the configured number of handler executions
\* failed: enqueue errors, lost messages and crashes consume no attempt.
DeadAfterAttempts ==
  \A d \in DeliveryIds :
    /\ delivery[d].attempt_count <= WorkerMaxAttempts
    /\ delivery[d].status = "dead" =>
         \/ delivery[d].attempt_count >= RelayMaxAttempts
         \/ delivery[d].attempt_count >= WorkerMaxAttempts

\* preserve_cancelled_tail releases only references nobody can execute: an
\* unattempted reference is in no stream and with no worker.
UnattemptedIsUnpublished ==
  \A r \in Relays : \A ref \in relay[r].unattempted :
    /\ ref \notin stream
    /\ \A k \in Workers : worker[k].pc # "idle" => worker[k].reference # ref

\* Expired leases, redelivered messages and cancelled batches leave the rows
\* sound: a row stays running under the token of its handler and handlers of a
\* lane exclude each other, the checkpoint is at the last event applied, the
\* lease columns of a row are set exactly while it runs, it is dead only after
\* the configured number of failed executions, and a reference not yet attempted
\* is in no stream, so that preserve_cancelled_tail may release its row.
DeliveriesSound ==
  /\ HandlerOwnsRow /\ OneHandlerPerLane /\ CheckpointIsLastApplied
  /\ LeaseShape /\ DeadAfterAttempts /\ UnattemptedIsUnpublished

CommitStep ==
  \A d, e \in DeliveryIds :
    /\ Visible(e)
    /\ ~Visible(d)
    /\ Visible(d)'
    /\ Lane(d)' = Lane(e)
    => e[1] < d[1]

\* append_outbox_event holds the advisory locks to the end of its transaction:
\* deliveries of one (consumer, partition) become visible in position order.
CommitOrder == [][CommitStep]_vars

FinishedStep ==
  \A d \in DeliveryIds :
    delivery[d].status \in {"succeeded", "dead"} => delivery'[d] = delivery[d]

\* A succeeded or dead delivery is never touched again by a relay or a worker.
FinishedForever == [][FinishedStep]_vars

WaitsFor(w, v) ==
  /\ w # v
  /\ writer[w].pc = "locking"
  /\ \E key \in writer[w].wanted :
       /\ \A other \in writer[w].wanted : key <= other
       /\ key \in writer[v].held

\* The keys of one append are taken in sorted order, so transactions that append
\* one event never wait for each other in a circle.
NoLockCycle ==
  \A S \in SUBSET {w \in Writers : writer[w].rows = {}} :
    S # {} => \E w \in S : \A v \in S : ~WaitsFor(w, v)

-----------------------------------------------------------------------------
(* The inductive invariant behind the properties *)

\* A transaction holds the lock of every lane it has written to, positions are
\* drawn in increasing order, and nothing visible in such a lane lies ahead of
\* the transaction's rows.
AppendInv ==
  /\ \A w \in Writers : writer[w].pc = "locking" =>
       \A lane \in writer[w].lanes : LaneKey(lane) \in writer[w].held \cup writer[w].wanted
  /\ \A w \in Writers : \A m, n \in writer[w].lanes : m[1] = n[1] => m = n
  /\ \A w \in Writers : \A row \in writer[w].rows :
       /\ row.id[1] < position
       /\ LockKey(row.id[2], row.partition_key) \in writer[w].held
       /\ ~Visible(row.id)
  /\ \A v, w \in Writers : v # w => writer[v].held \cap writer[w].held = {}
  /\ \A v, w \in Writers : \A m \in writer[v].rows, n \in writer[w].rows :
       m.id = n.id => v = w /\ m = n
  /\ \A d \in DeliveryIds : Visible(d) => d[1] < position
  /\ \A w \in Writers : \A row \in writer[w].rows, d \in DeliveryIds :
       Visible(d) /\ Lane(d) = <<row.id[2], row.partition_key>> => d[1] < row.id[1]

\* The row lock of execute is exclusive.
RowLockExclusive ==
  \A j, k \in Workers :
    /\ worker[j].pc = "handling"
    /\ worker[k].pc = "handling"
    /\ worker[j].reference[1] = worker[k].reference[1]
    => j = k

OrderInv == AppendInv /\ NoGap /\ HandlerOwnsRow /\ RowLockExclusive /\ AppliedOnceInOrder

-----------------------------------------------------------------------------
(* Refinement *)

PublishedLog ==
  [lane \in Lanes |->
     {pos \in Positions : /\ Visible(<<pos, lane[1]>>)
                          /\ delivery[<<pos, lane[1]>>].partition_key = lane[2]}]

BlockedLanes == {Lane(d) : d \in {e \in DeliveryIds : delivery[e].status = "dead"}}

Ordered == INSTANCE OrderedDelivery
  WITH log <- PublishedLog, dead <- BlockedLanes

\* Leases, tokens, retries, duplicates and crashes implement one ordered,
\* effectively-once log per (consumer, partition).
OrderedSpec == Ordered!Spec
=============================================================================

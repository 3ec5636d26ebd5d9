----------------------------- MODULE LockProofs -----------------------------
(***************************************************************************)
(* What leases, locks and their order ensure. Leases, attempts, references *)
(* and checkpoints of the outbox stay sound, and appends never wait for    *)
(* each other in a circle, for every number of writers, relays, workers,   *)
(* lanes and events. Concurrent registrations (Registration, as G) never   *)
(* share a name or an email and never wait for each other in a circle.     *)
(***************************************************************************)
EXTENDS OutboxProofs

-----------------------------------------------------------------------------
(* The inductive invariant *)

\* A row's lease columns and attempts. A row that may still be executed has an
\* attempt left, so that its next failure makes it dead at the limit.
RowSound(row) ==
  /\ (row.lease_owner # {}) = (row.status = "running")
  /\ (row.delivery_token # 0) = (row.status = "running")
  /\ (row.lease_expires_at # 0) = (row.status = "running")
  /\ row.attempt_count <= WorkerMaxAttempts
  /\ row.status \in {"pending", "running"} => row.attempt_count < WorkerMaxAttempts
  /\ row.status = "dead" => \/ row.attempt_count >= RelayMaxAttempts
                            \/ row.attempt_count >= WorkerMaxAttempts

RowsInv == \A d \in DeliveryIds : RowSound(delivery[d])

\* A reference carries a token that some claim of its row has drawn.
Drawn(ref) ==
  /\ ref[1] \in DeliveryIds
  /\ Visible(ref[1])
  /\ ref[2] <= delivery[ref[1]].enqueue_count

InHand(r) == relay[r].unattempted \cup relay[r].chunk

\* Only drawn tokens are about, and a reference is in the hand of one relay, as
\* unattempted or in the chunk, so that handing a chunk to kiq publishes no
\* reference that is still unattempted.
ReferencesInv ==
  /\ \A ref \in stream : Drawn(ref)
  /\ \A k \in Workers : worker[k].pc # "idle" => Drawn(worker[k].reference)
  /\ \A r \in Relays : \A ref \in InHand(r) : Drawn(ref)
  /\ \A r \in Relays : relay[r].unattempted \cap relay[r].chunk = {}
  /\ \A r, s \in Relays : r # s => InHand(r) \cap InHand(s) = {}
  /\ UnattemptedIsUnpublished

\* A transaction that has flushed nothing holds smaller keys than it wants.
LocksInv ==
  \A w \in Writers :
    /\ writer[w].pc = "locking" => writer[w].lanes # {}
    /\ writer[w].rows = {} =>
         /\ writer[w].pc # "open"
         /\ writer[w].pc = "idle" => writer[w].held = {}
         /\ \A h \in writer[w].held, key \in writer[w].wanted : h < key

LeaseInv == RowsInv /\ ReferencesInv /\ CheckpointIsLastApplied /\ LocksInv

-----------------------------------------------------------------------------
(* What a step does to a row *)

\* The row operations, with what the code has checked of the row before.
RowOperation(d) ==
  \/ delivery'[d] = delivery[d]
  \/ /\ delivery[d].attempt_count >= RelayMaxAttempts
     /\ delivery[d].status \in {"pending", "running"}
     /\ delivery'[d] = DeadLettered(delivery[d])
  \/ /\ delivery[d].status \in {"pending", "running"}
     /\ \E r \in Relays, at \in Nat : delivery'[d] = Leased(delivery[d], r, at)
  \/ /\ delivery[d].status = "running"
     /\ \E ok \in BOOLEAN, at \in Nat : delivery'[d] = WithOutcome(delivery[d], ok, at)
  \/ delivery[d].status = "running" /\ delivery'[d] = ReleasedRow(delivery[d])
  \/ delivery[d].status = "running" /\ delivery'[d] = SucceededRow(delivery[d])
  \/ delivery[d].status = "running" /\ delivery'[d] = FailedRow(delivery[d])
  \/ /\ delivery[d].status = "absent"
     /\ \E p \in Partitions, at \in Nat : delivery'[d] = PendingRow(p, at)

\* The lease columns, the attempts and the claims of a row after its enqueue
\* outcome is recorded.
LEMMA OutcomeRow ==
  ASSUME NEW row \in OutboxDelivery, NEW at \in Nat, NEW ok \in BOOLEAN
  PROVE  LET new == WithOutcome(row, ok, at)
         IN  /\ new.lease_owner = (IF ok THEN row.lease_owner ELSE {})
             /\ new.delivery_token = (IF ok THEN row.delivery_token ELSE 0)
             /\ new.lease_expires_at = (IF ok THEN row.lease_expires_at ELSE 0)
             /\ new.attempt_count = row.attempt_count
             /\ new.enqueue_count = row.enqueue_count
             /\ new.status = (IF ok THEN row.status ELSE "pending")
<1>1. CASE ok
  BY <1>1 DEF WithOutcome, OutboxDelivery
<1>2. CASE ~ok
  BY <1>2 DEF WithOutcome, ClearLease, OutboxDelivery
<1> QED BY <1>1, <1>2

\* The same after the end of a handler.
LEMMA HandledRow ==
  ASSUME NEW row \in OutboxDelivery
  PROVE  /\ \A new \in {SucceededRow(row), FailedRow(row)} :
              /\ new.lease_owner = {} /\ new.delivery_token = 0 /\ new.lease_expires_at = 0
              /\ new.attempt_count = row.attempt_count + 1
              /\ new.enqueue_count = row.enqueue_count
         /\ SucceededRow(row).status = "succeeded"
         /\ FailedRow(row).status =
              IF row.attempt_count + 1 >= WorkerMaxAttempts THEN "dead" ELSE "pending"
<1>1. LET new == SucceededRow(row)
      IN  /\ new.lease_owner = {} /\ new.delivery_token = 0 /\ new.lease_expires_at = 0
          /\ new.attempt_count = row.attempt_count + 1
          /\ new.enqueue_count = row.enqueue_count
          /\ new.status = "succeeded"
  BY DEF SucceededRow, ClearLease, OutboxDelivery
<1>2. LET new == FailedRow(row)
      IN  /\ new.lease_owner = {} /\ new.delivery_token = 0 /\ new.lease_expires_at = 0
          /\ new.attempt_count = row.attempt_count + 1
          /\ new.enqueue_count = row.enqueue_count
          /\ new.status = IF row.attempt_count + 1 >= WorkerMaxAttempts THEN "dead" ELSE "pending"
  <2> DEFINE later == now + RetryDelay(row.attempt_count + 1)
  <2>1. FailedRow(row) =
          LET cleared == [ClearLease(row) EXCEPT !.attempt_count = row.attempt_count + 1,
                                                 !.enqueued = FALSE]
          IN  IF row.attempt_count + 1 >= WorkerMaxAttempts
              THEN [cleared EXCEPT !.status = "dead"]
              ELSE [cleared EXCEPT !.status = "pending", !.available_at = later]
    BY DEF FailedRow
  <2> HIDE DEF later
  <2>2. CASE row.attempt_count + 1 >= WorkerMaxAttempts
    BY <2>1, <2>2 DEF ClearLease, OutboxDelivery
  <2>3. CASE ~(row.attempt_count + 1 >= WorkerMaxAttempts)
    BY <2>1, <2>3 DEF ClearLease, OutboxDelivery
  <2> QED BY <2>2, <2>3
<1> QED BY <1>1, <1>2

\* Every row operation keeps a row sound, shows it for good and draws tokens in
\* increasing order.
LEMMA OperationSound ==
  ASSUME TypeOK, NEW d \in DeliveryIds, RowSound(delivery[d]), RowOperation(d)
  PROVE  /\ RowSound(delivery'[d])
         /\ Visible(d) => /\ delivery'[d].status # "absent"
                          /\ delivery[d].enqueue_count <= delivery'[d].enqueue_count
<1> DEFINE row == delivery[d]
           new == delivery'[d]
           Goal == /\ RowSound(new)
                   /\ row.status # "absent" => /\ new.status # "absent"
                                               /\ row.enqueue_count <= new.enqueue_count
<1>0. /\ row \in OutboxDelivery
      /\ row.attempt_count \in Nat /\ row.enqueue_count \in Nat
      /\ RowSound(row)
  BY DEF TypeOK, OutboxDelivery
<1>00. /\ WorkerMaxAttempts \in Nat \ {0} /\ RelayMaxAttempts \in Nat \ {0}
       /\ LeaseDuration \in Nat \ {0}
  BY OutboxAssumption
<1> SUFFICES Goal
  BY DEF Visible
<1>1. CASE new = row
  BY <1>0, <1>1
<1>2. CASE /\ row.attempt_count >= RelayMaxAttempts
           /\ row.status \in {"pending", "running"}
           /\ new = DeadLettered(row)
  <2>1. /\ new.lease_owner = {} /\ new.delivery_token = 0 /\ new.lease_expires_at = 0
        /\ new.attempt_count = row.attempt_count /\ new.enqueue_count = row.enqueue_count
        /\ new.status = "dead"
    BY <1>0, <1>2 DEF DeadLettered, ClearLease, OutboxDelivery
  <2> HIDE DEF row, new
  <2> QED BY <1>0, <1>00, <1>2, <2>1 DEF RowSound
<1>3. ASSUME row.status \in {"pending", "running"}, NEW r \in Relays, NEW at \in Nat,
             new = Leased(row, r, at)
      PROVE  Goal
  <2>1. /\ new.lease_owner = {r} /\ new.delivery_token = row.enqueue_count + 1
        /\ new.lease_expires_at = at + LeaseDuration
        /\ new.attempt_count = row.attempt_count /\ new.enqueue_count = row.enqueue_count + 1
        /\ new.status = "running"
    BY <1>0, <1>3 DEF Leased, OutboxDelivery
  <2>2. at + LeaseDuration # 0 /\ row.enqueue_count + 1 # 0
    BY <1>0, <1>00
  <2> HIDE DEF row, new
  <2> QED BY <1>0, <1>00, <1>3, <2>1, <2>2 DEF RowSound
<1>4. ASSUME row.status = "running", NEW ok \in BOOLEAN, NEW at \in Nat,
             new = WithOutcome(row, ok, at)
      PROVE  Goal
  <2>1. /\ new.lease_owner = (IF ok THEN row.lease_owner ELSE {})
        /\ new.delivery_token = (IF ok THEN row.delivery_token ELSE 0)
        /\ new.lease_expires_at = (IF ok THEN row.lease_expires_at ELSE 0)
        /\ new.attempt_count = row.attempt_count
        /\ new.enqueue_count = row.enqueue_count
        /\ new.status = (IF ok THEN row.status ELSE "pending")
    BY <1>0, <1>4, OutcomeRow
  <2> HIDE DEF row, new
  <2> QED BY <1>0, <1>00, <1>4, <2>1 DEF RowSound
<1>5. CASE row.status = "running" /\ new = ReleasedRow(row)
  <2>1. /\ new.lease_owner = {} /\ new.delivery_token = 0 /\ new.lease_expires_at = 0
        /\ new.attempt_count = row.attempt_count /\ new.enqueue_count = row.enqueue_count
        /\ new.status = "pending"
    BY <1>0, <1>5 DEF ReleasedRow, ClearLease, OutboxDelivery
  <2> HIDE DEF row, new
  <2> QED BY <1>0, <1>00, <1>5, <2>1 DEF RowSound
<1>6. CASE row.status = "running" /\ new \in {SucceededRow(row), FailedRow(row)}
  <2>1. /\ new.lease_owner = {} /\ new.delivery_token = 0 /\ new.lease_expires_at = 0
        /\ new.attempt_count = row.attempt_count + 1 /\ new.enqueue_count = row.enqueue_count
        /\ \/ new.status = "succeeded"
           \/ new.status = IF row.attempt_count + 1 >= WorkerMaxAttempts THEN "dead" ELSE "pending"
    BY <1>0, <1>6, HandledRow
  <2> HIDE DEF row, new
  <2> QED BY <1>0, <1>00, <1>6, <2>1 DEF RowSound
<1>7. ASSUME row.status = "absent", NEW p \in Partitions, NEW at \in Nat,
             new = PendingRow(p, at)
      PROVE  Goal
  <2>1. /\ new.lease_owner = {} /\ new.delivery_token = 0 /\ new.lease_expires_at = 0
        /\ new.attempt_count = 0 /\ new.status = "pending"
    BY <1>7 DEF PendingRow
  <2> HIDE DEF row, new
  <2> QED BY <1>00, <1>7, <2>1 DEF RowSound
<1> QED BY <1>1, <1>2, <1>3, <1>4, <1>5, <1>6, <1>7 DEF RowOperation

\* Every step of the system applies row operations.
LEMMA StepOperations ==
  ASSUME TypeOK, OrderInv, [Next]_vars, NEW d \in DeliveryIds
  PROVE  RowOperation(d)
<1>0. delivery[d] \in OutboxDelivery
  BY DEF TypeOK
<1>1. ASSUME delivery' = delivery PROVE RowOperation(d)
  BY <1>1 DEF RowOperation
<1>2. ASSUME NEW w \in Writers, Commit(w) PROVE RowOperation(d)
  <2>1. CASE \E row \in writer[w].rows : row.id = d
    <3> DEFINE chosen == CHOOSE row \in writer[w].rows : row.id = d
    <3>1. chosen \in writer[w].rows /\ chosen.id = d
      BY <2>1
    <3>2. delivery'[d] = PendingRow(chosen.partition_key, chosen.available_at)
      BY <1>2, <2>1 DEF Commit
    <3> HIDE DEF chosen
    <3>3. chosen.partition_key \in Partitions /\ chosen.available_at \in Nat
      BY <3>1 DEF TypeOK, WriterStates, NewRows
    <3>4. delivery[d].status = "absent"
      BY <3>1, UncommittedRow DEF OrderInv, Visible
    <3> QED BY <3>2, <3>3, <3>4 DEF RowOperation
  <2>2. CASE ~ \E row \in writer[w].rows : row.id = d
    BY <1>2, <2>2 DEF Commit, RowOperation
  <2> QED BY <2>1, <2>2
<1>3. ASSUME NEW r \in Relays, Claim(r) PROVE RowOperation(d)
  <2>1. PICK dead \in Earliest(Exhausted(relay[r].at), BatchSize),
             leased \in Earliest(Due(relay[r].at), BatchSize) :
          delivery' = [e \in DeliveryIds |->
               IF e \in dead THEN DeadLettered(delivery[e])
               ELSE IF e \in leased THEN Leased(delivery[e], r, relay[r].at)
               ELSE delivery[e]]
    BY <1>3 DEF Claim
  <2>2. dead \subseteq Exhausted(relay[r].at) /\ leased \subseteq Due(relay[r].at)
    BY DEF Earliest
  <2>3. relay[r].at \in Nat
    BY DEF TypeOK, RelayStates
  <2>4. CASE d \in dead
    BY <2>1, <2>2, <2>4 DEF Exhausted, Claimable, RowOperation
  <2>5. CASE d \notin dead /\ d \in leased
    <3>1. delivery'[d] = Leased(delivery[d], r, relay[r].at)
      BY <2>1, <2>5
    <3>2. delivery[d].status \in {"pending", "running"}
      BY <2>2, <2>5 DEF Due, Claimable
    <3> QED BY <2>3, <3>1, <3>2 DEF RowOperation
  <2>6. CASE d \notin dead /\ d \notin leased
    BY <2>1, <2>6 DEF RowOperation
  <2> QED BY <2>4, <2>5, <2>6
<1>4. ASSUME NEW r \in Relays, OutcomesRecorded(r) PROVE RowOperation(d)
  <2> DEFINE mine == \E outcome \in relay[r].outcomes :
                       /\ outcome.reference[1] = d
                       /\ OwnsLiveLease(delivery[d], outcome.reference, r, relay[r].at)
  <2>1. CASE mine
    <3> DEFINE chosen == CHOOSE outcome \in relay[r].outcomes : outcome.reference[1] = d
    <3>1. delivery'[d] = WithOutcome(delivery[d], chosen.ok, relay[r].at)
      BY <1>4, <2>1 DEF OutcomesRecorded
    <3>2. chosen \in relay[r].outcomes
      BY <2>1
    <3> HIDE DEF chosen
    <3>3. chosen.ok \in BOOLEAN /\ relay[r].at \in Nat
      BY <3>2 DEF TypeOK, RelayStates
    <3>4. delivery[d].status = "running"
      BY <2>1 DEF OwnsLiveLease
    <3> QED BY <3>1, <3>3, <3>4 DEF RowOperation
  <2>2. CASE ~mine
    BY <1>4, <2>2 DEF OutcomesRecorded, RowOperation
  <2> QED BY <2>1, <2>2
<1>5. ASSUME NEW r \in Relays, Release(r) PROVE RowOperation(d)
  <2>1. CASE \E ref \in relay[r].unattempted : ref[1] = d /\ Releasable(delivery[d], ref, r)
    <3>1. delivery'[d] = ReleasedRow(delivery[d])
      BY <1>5, <2>1 DEF Release
    <3>2. delivery[d].status = "running"
      BY <2>1 DEF Releasable
    <3> QED BY <3>1, <3>2 DEF RowOperation
  <2>2. CASE ~ \E ref \in relay[r].unattempted : ref[1] = d /\ Releasable(delivery[d], ref, r)
    BY <1>5, <2>2 DEF Release, RowOperation
  <2> QED BY <2>1, <2>2
<1>6. ASSUME NEW k \in Workers, HandlerCommitted(k) PROVE RowOperation(d)
  <2> DEFINE ran == worker[k].reference[1]
  <2>1. delivery' = [delivery EXCEPT ![ran] = SucceededRow(delivery[ran])]
    BY <1>6, Zenon DEF HandlerCommitted
  <2>2. delivery[ran].status = "running"
    BY <1>6, Zenon DEF OrderInv, HandlerOwnsRow, HandlerCommitted
  <2>3. CASE d = ran
    <3>1. delivery'[d] = SucceededRow(delivery[d])
      BY <2>1, <2>3 DEF TypeOK
    <3> QED BY <2>2, <2>3, <3>1 DEF RowOperation
  <2>4. CASE d # ran
    <3>1. delivery'[d] = delivery[d]
      BY <2>1, <2>4 DEF TypeOK
    <3> QED BY <3>1 DEF RowOperation
  <2> QED BY <2>3, <2>4
<1>7. ASSUME NEW k \in Workers, RecordFailure(k) PROVE RowOperation(d)
  <2> DEFINE ref == worker[k].reference
  <2>1. CASE ref[1] = d /\ delivery[d].status = "running" /\ delivery[d].delivery_token = ref[2]
    <3>1. delivery'[d] = FailedRow(delivery[d])
      BY <1>7, <2>1 DEF RecordFailure, TypeOK
    <3> QED BY <2>1, <3>1 DEF RowOperation
  <2>2. CASE ~(ref[1] = d /\ delivery[d].status = "running"
               /\ delivery[d].delivery_token = ref[2])
    <3>1. delivery'[d] = delivery[d]
      BY <1>7, <2>2 DEF RecordFailure, TypeOK
    <3> QED BY <3>1 DEF RowOperation
  <2> QED BY <2>1, <2>2
<1>8. CASE \E w \in Writers : WriterStep(w)
  BY <1>1, <1>2, <1>8, Zenon DEF WriterStep, BeginAppend, AcquireLock, Lock, Flush, Insert, Rollback
<1>9. CASE \E r \in Relays : RelayStep(r)
  BY <1>1, <1>3, <1>4, <1>5, <1>9, Zenon DEF RelayStep, ClaimBegin, StartChunk, Publish, Enqueue,
     EnqueueError, RecordBegin, RecordOutcomes, Cancel, RecordCancelled, AbandonBatch
<1>10. CASE \E k \in Workers : WorkerStep(k)
  BY <1>1, <1>6, <1>7, <1>10 DEF WorkerStep, Receive, StartHandler, RunHandler, DiscardStale,
     Succeed, SucceedUnconfirmed, Fail, RecordFailureLost, WorkerCrash
<1>11. CASE (\E ref \in stream : Trim(ref)) \/ Tick \/ UNCHANGED vars
  BY <1>1, <1>11 DEF Trim, Tick, vars
<1> QED BY <1>8, <1>9, <1>10, <1>11 DEF Next

\* Leases and attempts stay sound, and drawn tokens stay drawn.
LEMMA RowsNext ==
  ASSUME TypeOK, OrderInv, RowsInv, [Next]_vars
  PROVE  /\ RowsInv'
         /\ \A ref : Drawn(ref) => /\ ref[1] \in DeliveryIds
                                   /\ Visible(ref[1])'
                                   /\ delivery[ref[1]].enqueue_count
                                        <= delivery'[ref[1]].enqueue_count
<1>1. ASSUME NEW d \in DeliveryIds
      PROVE  /\ RowSound(delivery'[d])
             /\ Visible(d) => /\ delivery'[d].status # "absent"
                              /\ delivery[d].enqueue_count <= delivery'[d].enqueue_count
  BY StepOperations, OperationSound DEF RowsInv
<1>2. RowsInv'
  BY <1>1 DEF RowsInv, RowSound
<1> QED BY <1>1, <1>2 DEF Drawn, Visible

-----------------------------------------------------------------------------
(* References *)

\* A relay other than the one that steps keeps its batch.
LEMMA OtherRelays ==
  ASSUME TypeOK, NEW r \in Relays, NEW state, relay' = [relay EXCEPT ![r] = state]
  PROVE  relay'[r] = state /\ \A s \in Relays \ {r} : relay'[s] = relay[s]
  BY DEF TypeOK

\* What the batch of a relay may become: references move from the tail to the
\* chunk, leave it, or are drawn anew; what enters the stream was in the chunk.
BatchStep(r, drawn) ==
  /\ relay'[r].unattempted \subseteq relay[r].unattempted \cup drawn
  /\ relay'[r].chunk \subseteq InHand(r)
  /\ relay'[r].unattempted \cap relay'[r].chunk = {}
  /\ stream' \subseteq stream \cup (relay[r].chunk \ relay'[r].chunk)
  /\ \A s \in Relays \ {r} : relay'[s] = relay[s]
  /\ worker' = worker
  /\ \A ref \in drawn :
       /\ ref[1] \in DeliveryIds
       /\ delivery'[ref[1]].status # "absent"
       /\ ref[2] = delivery[ref[1]].enqueue_count + 1
       /\ ref[2] = delivery'[ref[1]].enqueue_count
  /\ drawn # {} => stream' = stream /\ relay'[r].chunk = {}

\* What is drawn stays drawn.
LEMMA DrawnStays ==
  ASSUME TypeOK, TypeOK',
         \A ref : Drawn(ref) => /\ ref[1] \in DeliveryIds
                                /\ Visible(ref[1])'
                                /\ delivery[ref[1]].enqueue_count
                                     <= delivery'[ref[1]].enqueue_count,
         NEW ref \in References, Drawn(ref)
  PROVE  Drawn(ref)'
<1>1. ref[1] \in DeliveryIds /\ ref[2] \in Nat
  BY DEF References, Tokens
<1>2. delivery[ref[1]].enqueue_count \in Nat /\ delivery'[ref[1]].enqueue_count \in Nat
  BY <1>1 DEF TypeOK, OutboxDelivery
<1> QED BY <1>1, <1>2 DEF Drawn

\* A relay that moves its batch keeps references in one hand and unpublished
\* until their chunk is handed over.
LEMMA BatchPreserves ==
  ASSUME TypeOK, TypeOK', ReferencesInv, NEW r \in Relays, NEW drawn, BatchStep(r, drawn),
         \A ref : Drawn(ref) => /\ ref[1] \in DeliveryIds
                                /\ Visible(ref[1])'
                                /\ delivery[ref[1]].enqueue_count
                                     <= delivery'[ref[1]].enqueue_count
  PROVE  ReferencesInv'
<1>1. ASSUME NEW ref \in drawn
      PROVE  ~Drawn(ref) /\ Drawn(ref)'
  <2>1. /\ ref[1] \in DeliveryIds
        /\ delivery'[ref[1]].status # "absent"
        /\ ref[2] = delivery[ref[1]].enqueue_count + 1
        /\ ref[2] = delivery'[ref[1]].enqueue_count
    BY DEF BatchStep
  <2>2. delivery[ref[1]].enqueue_count \in Nat
    BY <2>1 DEF TypeOK, OutboxDelivery
  <2> QED BY <2>1, <2>2 DEF Drawn, Visible
<1>2. \A ref \in References : Drawn(ref) => Drawn(ref)'
  BY DrawnStays
<1>3. /\ stream \subseteq References
      /\ \A s \in Relays : InHand(s) \subseteq References
      /\ \A k \in Workers : worker[k].pc # "idle" => worker[k].reference \in References
  BY DEF TypeOK, RelayStates, InHand
<1>4. /\ \A s \in Relays \ {r} : relay'[s] = relay[s] /\ InHand(s)' = InHand(s)
      /\ InHand(r)' \subseteq InHand(r) \cup drawn
      /\ stream' \subseteq stream \cup relay[r].chunk
      /\ stream' \subseteq stream \cup (relay[r].chunk \ relay'[r].chunk)
      /\ worker' = worker
      /\ relay'[r].unattempted \subseteq relay[r].unattempted \cup drawn
      /\ relay'[r].unattempted \cap relay'[r].chunk = {}
  BY DEF BatchStep, InHand
<1>5. /\ \A ref \in stream : Drawn(ref)
      /\ \A k \in Workers : worker[k].pc # "idle" => Drawn(worker[k].reference)
      /\ \A s \in Relays : \A ref \in InHand(s) : Drawn(ref)
      /\ \A s \in Relays : relay[s].unattempted \cap relay[s].chunk = {}
      /\ \A s, t \in Relays : s # t => InHand(s) \cap InHand(t) = {}
      /\ \A s \in Relays : relay[s].chunk \subseteq InHand(s)
      /\ \A s \in Relays : relay[s].unattempted \subseteq InHand(s)
      /\ \A s \in Relays : \A ref \in relay[s].unattempted :
           /\ ref \notin stream
           /\ \A k \in Workers : worker[k].pc # "idle" => worker[k].reference # ref
  BY DEF ReferencesInv, InHand, UnattemptedIsUnpublished
<1>6. \A ref \in stream' : Drawn(ref)'
  BY <1>2, <1>3, <1>4, <1>5
<1>7. \A k \in Workers : worker'[k].pc # "idle" => Drawn(worker[k].reference)'
  BY <1>2, <1>3, <1>4, <1>5
<1>8. \A s \in Relays : \A ref \in InHand(s)' : Drawn(ref)'
  <2>1. \A ref \in InHand(r)' : Drawn(ref)'
    BY <1>1, <1>2, <1>3, <1>4, <1>5, Zenon
  <2>2. \A s \in Relays \ {r} : \A ref \in InHand(s)' : Drawn(ref)'
    BY <1>2, <1>3, <1>4, <1>5
  <2> QED BY <2>1, <2>2
<1>9. \A s \in Relays : relay'[s].unattempted \cap relay'[s].chunk = {}
  BY <1>4, <1>5
<1>10. \A s, t \in Relays : s # t => InHand(s)' \cap InHand(t)' = {}
  <2>1. \A s \in Relays \ {r} : InHand(r)' \cap InHand(s)' = {}
    BY <1>1, <1>4, <1>5
  <2>2. \A s, t \in Relays \ {r} : s # t => InHand(s)' \cap InHand(t)' = {}
    BY <1>4, <1>5
  <2> QED BY <2>1, <2>2
<1>11. \A s \in Relays : \A ref \in relay'[s].unattempted :
         /\ ref \notin stream'
         /\ \A k \in Workers : worker'[k].pc # "idle" => worker'[k].reference # ref
  <2>1. ASSUME NEW ref \in relay'[r].unattempted
        PROVE  /\ ref \notin stream'
               /\ \A k \in Workers : worker'[k].pc # "idle" => worker'[k].reference # ref
    <3>1. CASE ref \in drawn
      <4>1. ~Drawn(ref) /\ stream' = stream
        BY <1>1, <3>1, Zenon DEF BatchStep
      <4> QED BY <1>4, <1>5, <4>1
    <3>2. CASE ref \in relay[r].unattempted
      <4>1. ref \notin relay[r].chunk /\ ref \notin stream
        BY <1>5, <3>2
      <4> QED BY <1>4, <1>5, <3>2, <4>1
    <3> QED BY <1>4, <3>1, <3>2
  <2>2. ASSUME NEW s \in Relays \ {r}, NEW ref \in relay'[s].unattempted
        PROVE  /\ ref \notin stream'
               /\ \A k \in Workers : worker'[k].pc # "idle" => worker'[k].reference # ref
    <3>1. ref \in relay[s].unattempted /\ ref \in InHand(s)
      BY <1>4, <1>5
    <3>2. ref \notin relay[r].chunk
      BY <1>5, <3>1, Zenon
    <3> QED BY <1>4, <1>5, <3>1, <3>2, Zenon
  <2> QED BY <2>1, <2>2
<1> QED BY <1>4, <1>6, <1>7, <1>8, <1>9, <1>10, <1>11 DEF ReferencesInv, UnattemptedIsUnpublished

\* Each step of a relay moves its batch so; only a claim draws tokens.
LEMMA RelayBatch ==
  ASSUME TypeOK, TypeOK', ReferencesInv, NEW r \in Relays, RelayStep(r)
  PROVE  \E drawn : BatchStep(r, drawn)
<1>0. /\ relay[r] \in RelayStates
      /\ relay[r].unattempted \cap relay[r].chunk = {}
  BY DEF TypeOK, ReferencesInv
<1>1. /\ IdleRelay.unattempted = {} /\ IdleRelay.chunk = {}
  BY DEF IdleRelay
<1> DEFINE Moved(tail, chunk) ==
      /\ relay'[r].unattempted = tail
      /\ relay'[r].chunk = chunk
      /\ \A s \in Relays \ {r} : relay'[s] = relay[s]
      /\ UNCHANGED worker
<1>2. ASSUME NEW state, relay' = [relay EXCEPT ![r] = state], UNCHANGED worker
      PROVE  Moved(state.unattempted, state.chunk)
  BY <1>2, OtherRelays, Zenon
<1>3. ASSUME NEW tail \in SUBSET relay[r].unattempted, NEW chunk \in SUBSET InHand(r),
             Moved(tail, chunk), tail \cap chunk = {},
             stream' \subseteq stream \cup (relay[r].chunk \ chunk)
      PROVE  BatchStep(r, {})
  BY <1>3 DEF BatchStep
<1>4. ASSUME relay' = [relay EXCEPT ![r] = IdleRelay], UNCHANGED <<worker, stream>>
      PROVE  BatchStep(r, {})
  <2>1. Moved({}, {})
    BY <1>1, <1>2, <1>4, Zenon
  <2> QED BY <1>3, <1>4, <2>1
<1>5. ASSUME NEW state, relay' = [relay EXCEPT ![r] = state], UNCHANGED <<worker, stream>>,
             state.unattempted = relay[r].unattempted, state.chunk = relay[r].chunk
      PROVE  BatchStep(r, {})
  <2>1. Moved(relay[r].unattempted, relay[r].chunk)
    BY <1>2, <1>5
  <2> QED BY <1>0, <1>3, <1>5, <2>1 DEF InHand
<1>6. CASE ClaimBegin(r)
  <2> DEFINE state == [relay[r] EXCEPT !.pc = "claiming", !.at = now]
  <2>1. relay' = [relay EXCEPT ![r] = state] /\ UNCHANGED <<worker, stream>>
    BY <1>6 DEF ClaimBegin
  <2>2. state.unattempted = relay[r].unattempted /\ state.chunk = relay[r].chunk
    BY <1>0 DEF RelayStates
  <2> QED BY <1>5, <2>1, <2>2, Zenon
<1>7. CASE Claim(r)
  <2>1. PICK dead \in Earliest(Exhausted(relay[r].at), BatchSize),
             leased \in Earliest(Due(relay[r].at), BatchSize) :
          /\ delivery' = [d \in DeliveryIds |->
               IF d \in dead THEN DeadLettered(delivery[d])
               ELSE IF d \in leased THEN Leased(delivery[d], r, relay[r].at)
               ELSE delivery[d]]
          /\ relay' = [relay EXCEPT ![r] =
               IF leased = {} THEN IdleRelay
               ELSE [IdleRelay EXCEPT
                       !.pc = "publishing",
                       !.unattempted =
                         {<<d, delivery[d].enqueue_count + 1>> : d \in leased}]]
    BY <1>7, Zenon DEF Claim
  <2>2. UNCHANGED <<worker, stream>>
    BY <1>7 DEF Claim
  <2>3. CASE leased = {}
    BY <1>4, <2>1, <2>2, <2>3
  <2>4. CASE leased # {}
    <3> DEFINE drawn == {<<d, delivery[d].enqueue_count + 1>> : d \in leased}
               state == [IdleRelay EXCEPT !.pc = "publishing", !.unattempted = drawn]
    <3>1. relay' = [relay EXCEPT ![r] = state]
      BY <2>1, <2>4, Zenon
    <3>2. state.unattempted = drawn /\ state.chunk = {}
      BY DEF IdleRelay
    <3>3. Moved(drawn, {})
      BY <1>2, <2>2, <3>1, <3>2, Zenon
    <3>4. ASSUME NEW ref \in drawn
          PROVE  /\ ref[1] \in DeliveryIds
                 /\ delivery'[ref[1]].status # "absent"
                 /\ ref[2] = delivery[ref[1]].enqueue_count + 1
                 /\ ref[2] = delivery'[ref[1]].enqueue_count
      <4>1. PICK d \in leased : ref = <<d, delivery[d].enqueue_count + 1>>
        OBVIOUS
      <4>2. d \in Due(relay[r].at) /\ d \in DeliveryIds
        BY DEF Earliest, Due
      <4>3. d \notin dead
        <5>1. delivery[d].attempt_count < RelayMaxAttempts
          BY <4>2 DEF Due
        <5>2. d \in dead => delivery[d].attempt_count >= RelayMaxAttempts
          BY Zenon DEF Earliest, Exhausted
        <5>3. delivery[d].attempt_count \in Nat /\ RelayMaxAttempts \in Nat
          BY <4>2, OutboxAssumption DEF TypeOK, OutboxDelivery
        <5> QED BY <5>1, <5>2, <5>3
      <4>4. delivery'[d] = Leased(delivery[d], r, relay[r].at) /\ delivery[d] \in OutboxDelivery
        BY <2>1, <4>2, <4>3 DEF TypeOK
      <4>5. /\ delivery'[d].status = "running"
            /\ delivery'[d].enqueue_count = delivery[d].enqueue_count + 1
        BY <4>4 DEF Leased, OutboxDelivery
      <4> QED BY <4>1, <4>2, <4>5
    <3> HIDE DEF drawn
    <3>5. BatchStep(r, drawn)
      BY <2>2, <3>3, <3>4 DEF BatchStep
    <3> QED BY <3>5
  <2> QED BY <2>3, <2>4
<1>8. CASE StartChunk(r)
  <2>1. PICK chunk \in Chunks(r) : Publish(r, chunk, relay[r].unattempted \ chunk)
    BY <1>8, Zenon DEF StartChunk
  <2>2. chunk \subseteq relay[r].unattempted
    BY Zenon DEF Chunks
  <2> DEFINE state == [relay[r] EXCEPT !.chunk = chunk, !.unattempted = relay[r].unattempted \ chunk]
  <2>3. relay' = [relay EXCEPT ![r] = state] /\ UNCHANGED <<worker, stream>>
    BY <2>1 DEF Publish
  <2>4. state.unattempted = relay[r].unattempted \ chunk /\ state.chunk = chunk
    BY <1>0 DEF RelayStates
  <2>5. Moved(relay[r].unattempted \ chunk, chunk)
    BY <1>2, <2>3, <2>4, Zenon
  <2>6. BatchStep(r, {})
    BY <1>3, <2>2, <2>3, <2>5, Zenon DEF InHand
  <2> QED BY <2>6
<1>9. ASSUME NEW ref \in relay[r].chunk, Enqueue(r, ref) \/ EnqueueError(r, ref)
      PROVE  BatchStep(r, {})
  <2>1. PICK ok : Settle(r, ref, ok)
    BY <1>9, Zenon DEF Enqueue, EnqueueError
  <2> DEFINE state == [relay[r] EXCEPT !.chunk = relay[r].chunk \ {ref},
                 !.outcomes = relay[r].outcomes \cup {[reference |-> ref, ok |-> ok]}]
  <2>2. relay' = [relay EXCEPT ![r] = state]
    BY <2>1 DEF Settle
  <2>3. state.unattempted = relay[r].unattempted /\ state.chunk = relay[r].chunk \ {ref}
    BY <1>0 DEF RelayStates
  <2>4. UNCHANGED worker /\ stream' \subseteq stream \cup {ref}
    BY <1>9, Zenon DEF Enqueue, EnqueueError
  <2>5. Moved(relay[r].unattempted, relay[r].chunk \ {ref})
    BY <1>2, <2>2, <2>3, <2>4, Zenon
  <2>6. /\ relay[r].chunk \ {ref} \in SUBSET InHand(r)
        /\ relay[r].unattempted \cap (relay[r].chunk \ {ref}) = {}
        /\ stream' \subseteq stream \cup (relay[r].chunk \ (relay[r].chunk \ {ref}))
    BY <1>0, <2>4 DEF InHand
  <2> HIDE DEF Moved
  <2> QED BY <1>3, <2>5, <2>6
<1>10. CASE RecordBegin(r)
  <2> DEFINE state == [relay[r] EXCEPT !.pc = "recording", !.at = now]
  <2>1. relay' = [relay EXCEPT ![r] = state] /\ UNCHANGED <<worker, stream>>
    BY <1>10 DEF RecordBegin
  <2>2. state.unattempted = relay[r].unattempted /\ state.chunk = relay[r].chunk
    BY <1>0 DEF RelayStates
  <2> QED BY <1>5, <2>1, <2>2, Zenon
<1>11. CASE RecordOutcomes(r) \/ Release(r) \/ AbandonBatch(r)
  BY <1>4, <1>11 DEF RecordOutcomes, Release, AbandonBatch
<1>12. CASE Cancel(r)
  <2> DEFINE state == [relay[r] EXCEPT !.pc = "cancelled", !.chunk = {}, !.at = now]
  <2>1. relay' = [relay EXCEPT ![r] = state] /\ UNCHANGED worker
    BY <1>12 DEF Cancel
  <2>2. state.unattempted = relay[r].unattempted /\ state.chunk = {}
    BY <1>0 DEF RelayStates
  <2>3. stream' \subseteq stream \cup relay[r].chunk
    BY <1>12 DEF Cancel
  <2>4. Moved(relay[r].unattempted, {})
    BY <1>2, <2>1, <2>2, Zenon
  <2>5. BatchStep(r, {})
    BY <1>3, <2>3, <2>4
  <2> QED BY <2>5
<1>13. CASE RecordCancelled(r)
  <2> DEFINE state == [relay[r] EXCEPT !.pc = "releasing", !.outcomes = {}]
  <2>1. relay' = [relay EXCEPT ![r] = state] /\ UNCHANGED <<worker, stream>>
    BY <1>13 DEF RecordCancelled
  <2>2. state.unattempted = relay[r].unattempted /\ state.chunk = relay[r].chunk
    BY <1>0 DEF RelayStates
  <2> QED BY <1>5, <2>1, <2>2, Zenon
<1> HIDE DEF Moved
<1> QED BY <1>6, <1>7, <1>8, <1>9, <1>10, <1>11, <1>12, <1>13, Zenon DEF RelayStep

\* A step that only takes references out of the stream, or hands one to a worker,
\* publishes nothing.
LEMMA ReceptionPreserves ==
  ASSUME TypeOK, TypeOK', ReferencesInv, relay' = relay, stream' \subseteq stream,
         \A k \in Workers : worker'[k].pc # "idle" =>
           \/ worker[k].pc # "idle" /\ worker'[k].reference = worker[k].reference
           \/ worker'[k].reference \in stream,
         \A ref : Drawn(ref) => /\ ref[1] \in DeliveryIds
                                /\ Visible(ref[1])'
                                /\ delivery[ref[1]].enqueue_count
                                     <= delivery'[ref[1]].enqueue_count
  PROVE  ReferencesInv'
<1>1. \A ref \in References : Drawn(ref) => Drawn(ref)'
  BY DrawnStays
<1>2. /\ stream \subseteq References
      /\ \A s \in Relays : InHand(s) \subseteq References
      /\ \A k \in Workers : worker'[k].pc # "idle" => worker'[k].reference \in References
  BY Zenon DEF TypeOK, RelayStates, InHand
<1>3. /\ \A ref \in stream : Drawn(ref)
      /\ \A k \in Workers : worker[k].pc # "idle" => Drawn(worker[k].reference)
      /\ \A s \in Relays : \A ref \in InHand(s) : Drawn(ref)
      /\ \A s \in Relays : \A ref \in relay[s].unattempted :
           /\ ref \notin stream
           /\ \A k \in Workers : worker[k].pc # "idle" => worker[k].reference # ref
  BY DEF ReferencesInv, UnattemptedIsUnpublished
<1>4. \A s \in Relays : InHand(s)' = InHand(s)
  BY DEF InHand
<1>5. \A ref \in stream' : Drawn(ref)'
  BY <1>1, <1>2, <1>3
<1>6. ASSUME NEW k \in Workers, worker'[k].pc # "idle"
      PROVE  Drawn(worker'[k].reference) /\ worker'[k].reference \in References
  BY <1>2, <1>3, <1>6
<1>7. ASSUME NEW k \in Workers, worker'[k].pc # "idle", NEW ref, ref = worker'[k].reference
      PROVE  Drawn(ref)'
  BY <1>1, <1>6, <1>7
<1>8. \A k \in Workers : (worker[k].pc # "idle" => Drawn(worker[k].reference))'
  BY <1>7
<1>9. \A s \in Relays : \A ref \in InHand(s)' : Drawn(ref)'
  BY <1>1, <1>2, <1>3, <1>4, Zenon
<1>10. UnattemptedIsUnpublished'
  BY <1>3 DEF UnattemptedIsUnpublished
<1> QED BY <1>4, <1>5, <1>8, <1>9, <1>10 DEF ReferencesInv

\* References stay drawn, in one hand and unpublished until handed to kiq.
LEMMA ReferencesNext ==
  ASSUME TypeOK, OrderInv, RowsInv, ReferencesInv, [Next]_vars
  PROVE  ReferencesInv'
<1>1. TypeOK'
  BY TypeNext
<1>2. \A ref : Drawn(ref) => /\ ref[1] \in DeliveryIds
                             /\ Visible(ref[1])'
                             /\ delivery[ref[1]].enqueue_count
                                  <= delivery'[ref[1]].enqueue_count
  BY RowsNext
<1>3. ASSUME UNCHANGED <<relay, worker>>, stream' \subseteq stream PROVE ReferencesInv'
  BY <1>1, <1>2, <1>3, ReceptionPreserves
<1>4. CASE \E r \in Relays : RelayStep(r)
  BY <1>1, <1>2, <1>4, RelayBatch, BatchPreserves
<1>5. ASSUME NEW w \in Writers, WriterStep(w) PROVE ReferencesInv'
  BY <1>3, <1>5, Zenon DEF WriterStep, BeginAppend, AcquireLock, Lock, Flush, Insert, Commit, Rollback
<1>6. ASSUME NEW k \in Workers, WorkerStep(k) PROVE ReferencesInv'
  <2>1. relay' = relay
    BY <1>6, Zenon DEF WorkerStep, Receive, StartHandler, RunHandler, DiscardStale, Succeed,
       SucceedUnconfirmed, Fail, RecordFailure, RecordFailureLost, WorkerCrash
  <2>2. stream' \subseteq stream
    BY <1>6 DEF WorkerStep, Receive, StartHandler, RunHandler, DiscardStale, Succeed,
       SucceedUnconfirmed, Fail, RecordFailure, RecordFailureLost, WorkerCrash, Acknowledge
  <2>3. \A j \in Workers \ {k} : worker'[j] = worker[j]
    BY <1>6, Zenon DEF WorkerStep, Receive, StartHandler, RunHandler, DiscardStale, Succeed,
       SucceedUnconfirmed, Fail, RecordFailure, RecordFailureLost, WorkerCrash, Acknowledge,
       TypeOK
  <2>4. worker'[k].pc # "idle" =>
          \/ worker[k].pc # "idle" /\ worker'[k].reference = worker[k].reference
          \/ worker'[k].reference \in stream
    <3>0. worker[k] \in WorkerStates /\ worker \in [Workers -> WorkerStates]
      BY DEF TypeOK
    <3>1. ASSUME worker' = [worker EXCEPT ![k] = IdleWorker] PROVE worker'[k].pc = "idle"
      BY <3>0, <3>1 DEF IdleWorker
    <3>2. ASSUME NEW pc, worker' = [worker EXCEPT ![k].pc = pc]
          PROVE  worker'[k].reference = worker[k].reference
      BY <3>0, <3>2 DEF WorkerStates
    <3>3. ASSUME NEW ref \in stream, Receive(k, ref) PROVE worker'[k].reference \in stream
      BY <3>0, <3>3 DEF Receive
    <3>4. CASE StartHandler(k) \/ SucceedUnconfirmed(k) \/ Fail(k)
      <4>1. worker[k].pc # "idle"
        BY <3>4 DEF StartHandler, RunHandler, SucceedUnconfirmed, HandlerCommitted, Fail
      <4>2. \E pc : worker' = [worker EXCEPT ![k].pc = pc]
        BY <3>4 DEF StartHandler, RunHandler, SucceedUnconfirmed, Fail
      <4> QED BY <3>2, <4>1, <4>2, Zenon
    <3>5. CASE DiscardStale(k) \/ Succeed(k) \/ RecordFailure(k) \/ RecordFailureLost(k)
               \/ WorkerCrash(k)
      <4>1. worker' = [worker EXCEPT ![k] = IdleWorker]
        BY <3>5 DEF DiscardStale, Succeed, RecordFailure, RecordFailureLost, WorkerCrash,
           Acknowledge
      <4> QED BY <3>1, <4>1, Zenon
    <3> QED BY <1>6, <3>3, <3>4, <3>5 DEF WorkerStep
  <2> QED BY <1>1, <1>2, <2>1, <2>2, <2>3, <2>4, ReceptionPreserves, Zenon
<1>7. CASE (\E ref \in stream : Trim(ref)) \/ Tick \/ UNCHANGED vars
  BY <1>3, <1>7 DEF Trim, Tick, vars
<1> QED BY <1>4, <1>5, <1>6, <1>7 DEF Next

-----------------------------------------------------------------------------
(* Checkpoints *)

\* Effects and checkpoints change only with the commit of a handler.
LEMMA EffectsFrame ==
  ASSUME TypeOK, [Next]_vars, ~ \E k \in Workers : Succeed(k) \/ SucceedUnconfirmed(k)
  PROVE  UNCHANGED <<applied, checkpoint>>
<1>1. ASSUME NEW w \in Writers, WriterStep(w) PROVE UNCHANGED <<applied, checkpoint>>
  BY <1>1, Zenon DEF WriterStep, BeginAppend, AcquireLock, Lock, Flush, Insert, Commit, Rollback
<1>2. ASSUME NEW r \in Relays, RelayStep(r) PROVE UNCHANGED <<applied, checkpoint>>
  BY <1>2, RelayDispatch
<1>3. ASSUME NEW k \in Workers, WorkerStep(k) PROVE UNCHANGED <<applied, checkpoint>>
  <2>1. CASE StartHandler(k)
    BY <2>1 DEF StartHandler, RunHandler
  <2>2. CASE ~StartHandler(k)
    BY <1>3, <2>2, WorkerDispatch
  <2> QED BY <2>1, <2>2
<1>4. CASE (\E ref \in stream : Trim(ref)) \/ Tick \/ UNCHANGED vars
  BY <1>4 DEF Trim, Tick, vars
<1> QED BY <1>1, <1>2, <1>3, <1>4 DEF Next

\* The commit of a handler advances the checkpoint, because effects come in
\* increasing order: advance_checkpoint never keeps the old watermark.
LEMMA CheckpointNext ==
  ASSUME TypeOK, OrderInv, CheckpointIsLastApplied, [Next]_vars
  PROVE  CheckpointIsLastApplied'
<1>1. CASE ~ \E k \in Workers : Succeed(k) \/ SucceedUnconfirmed(k)
  BY <1>1, EffectsFrame DEF CheckpointIsLastApplied
<1>2. ASSUME NEW k \in Workers, Succeed(k) \/ SucceedUnconfirmed(k)
      PROVE  CheckpointIsLastApplied'
  <2> DEFINE d == worker[k].reference[1]
             lane == Lane(d)
             x == d[1]
             old == applied[lane]
             new == applied'[lane]
  <2>1. HandlerCommitted(k)
    BY <1>2, HandlerCommitFrame
  <2>2. d \in DeliveryIds
    BY <2>1, HandlerCommittedTypes
  <2>3. lane \in Lanes /\ x \in Positions /\ x \in Nat /\ x > 0
    BY <2>2, LaneType, OutboxAssumption DEF Positions
  <2>4. /\ applied' = [applied EXCEPT ![lane] = Append(applied[lane], x)]
        /\ checkpoint' = [checkpoint EXCEPT ![lane] =
             IF x > checkpoint[lane] THEN x ELSE checkpoint[lane]]
    BY <2>1 DEF HandlerCommitted, AdvanceCheckpoint
  <2>5. /\ applied \in [Lanes -> Seq(Positions)]
        /\ checkpoint \in [Lanes -> Nat]
    BY DEF TypeOK
  <2>6. OrderInv'
    BY OrderNext, Zenon
  <2>7. \A i, j \in 1 .. Len(new) : i < j => new[i] < new[j]
    BY <2>3, <2>6, Zenon DEF OrderInv, AppliedOnceInOrder
  <2>8. checkpoint[lane] = IF old = <<>> THEN 0 ELSE old[Len(old)]
    BY <2>3, Zenon DEF CheckpointIsLastApplied
  <2>9. /\ old \in Seq(Positions) /\ new = Append(old, x)
        /\ checkpoint'[lane] = IF x > checkpoint[lane] THEN x ELSE checkpoint[lane]
        /\ \A other \in Lanes \ {lane} :
             applied'[other] = applied[other] /\ checkpoint'[other] = checkpoint[other]
    BY <2>3, <2>4, <2>5
  <2> HIDE DEF d, lane, x, old, new
  <2>10. /\ Len(old) \in Nat
         /\ Len(new) = Len(old) + 1
         /\ new[Len(old) + 1] = x
         /\ \A i \in 1 .. Len(old) : new[i] = old[i]
         /\ new # <<>>
    BY <2>3, <2>9, AppendFacts
  <2>11. x > checkpoint[lane]
    <3>1. CASE old = <<>>
      BY <2>3, <2>8, <3>1
    <3>2. CASE old # <<>>
      <4>1. Len(old) \in 1 .. Len(old)
        BY <2>9, <2>10, <3>2, LogFacts
      <4>2. /\ Len(old) \in 1 .. Len(new)
            /\ Len(old) + 1 \in 1 .. Len(new)
            /\ Len(old) < Len(old) + 1
        BY <2>10, <4>1
      <4>3. new[Len(old)] < new[Len(old) + 1]
        BY <2>7, <4>2
      <4>4. new[Len(old)] = old[Len(old)]
        BY <2>10, <4>1
      <4>5. old[Len(old)] < x
        BY <2>10, <4>3, <4>4
      <4>6. checkpoint[lane] = old[Len(old)] /\ checkpoint[lane] \in Nat
        BY <2>3, <2>5, <2>8, <3>2
      <4> QED BY <2>3, <4>5, <4>6
    <3> QED BY <3>1, <3>2
  <2>12. checkpoint'[lane] = new[Len(new)] /\ new # <<>>
    BY <2>9, <2>10, <2>11, Zenon
  <2>13. ASSUME NEW other \in Lanes
         PROVE  checkpoint'[other] = IF applied'[other] = <<>> THEN 0
                                     ELSE applied'[other][Len(applied'[other])]
    <3>1. CASE other = lane
      BY <2>12, <3>1 DEF new
    <3>2. CASE other # lane
      BY <2>9, <3>2 DEF CheckpointIsLastApplied
    <3> QED BY <3>1, <3>2
  <2> QED BY <2>13 DEF CheckpointIsLastApplied
<1> QED BY <1>1, <1>2

-----------------------------------------------------------------------------
(* Advisory locks *)

\* The keys of an append are taken from the smallest up.
LEMMA LocksNext ==
  ASSUME TypeOK, LocksInv, [Next]_vars
  PROVE  LocksInv'
<1> DEFINE Ascending(state) ==
      /\ state.pc = "locking" => state.lanes # {}
      /\ state.rows = {} =>
           /\ state.pc # "open"
           /\ state.pc = "idle" => state.held = {}
           /\ \A h \in state.held, key \in state.wanted : h < key
<1>0. \A w \in Writers : Ascending(writer[w])
  BY DEF LocksInv
<1>1. ASSUME NEW w \in Writers, NEW state, Ascending(state),
             writer' = [writer EXCEPT ![w] = state]
      PROVE  LocksInv'
  <2>1. \A v \in Writers : Ascending(writer'[v])
    BY <1>0, <1>1, OtherWriters
  <2> QED BY <2>1 DEF LocksInv
<1>2. ASSUME UNCHANGED writer PROVE LocksInv'
  BY <1>2 DEF LocksInv
<1>3. Ascending(IdleWriter)
  BY DEF IdleWriter
<1>4. ASSUME NEW w \in Writers, WriterStep(w) PROVE LocksInv'
  <2>0. writer[w] \in WriterStates
    BY DEF TypeOK
  <2>1. ASSUME NEW cs \in (SUBSET Consumers) \ {{}}, NEW p \in Partitions, BeginAppend(w, cs, p)
        PROVE  LocksInv'
    <3> DEFINE lanes == cs \X {p}
               keys == {LaneKey(lane) : lane \in cs \X {p}} \ writer[w].held
               state == [writer[w] EXCEPT !.pc = "locking", !.lanes = lanes, !.wanted = keys]
    <3>1. writer' = [writer EXCEPT ![w] = state]
      BY <2>1 DEF BeginAppend
    <3>2. lanes # {}
      <4>0. cs \in SUBSET Consumers /\ cs # {}
        OBVIOUS
      <4>1. PICK c \in Consumers : c \in cs
        BY <4>0, Zenon
      <4>2. <<c, p>> \in lanes
        BY <4>1
      <4> QED BY <4>2
    <3> HIDE DEF lanes, keys
    <3>3. /\ state.pc = "locking" /\ state.lanes = lanes /\ state.wanted = keys
          /\ state.held = writer[w].held /\ state.rows = writer[w].rows
      BY <2>0 DEF WriterStates
    <3>4. writer[w].pc \in {"idle", "open"}
      BY <2>1 DEF BeginAppend
    <3> HIDE DEF state
    <3>5. Ascending(state)
      BY <1>0, <3>2, <3>3, <3>4
    <3> QED BY <1>1, <3>1, <3>5, Zenon
  <2>2. CASE AcquireLock(w)
    <3>1. PICK key \in writer[w].wanted :
            /\ \A other \in writer[w].wanted : key <= other
            /\ Lock(w, key)
      BY <2>2 DEF AcquireLock
    <3> DEFINE state == [writer[w] EXCEPT !.wanted = writer[w].wanted \ {key},
                                          !.held = writer[w].held \cup {key}]
    <3>2. writer' = [writer EXCEPT ![w] = state]
      BY <3>1 DEF Lock
    <3>3. /\ state.pc = writer[w].pc /\ state.lanes = writer[w].lanes
          /\ state.wanted = writer[w].wanted \ {key}
          /\ state.held = writer[w].held \cup {key} /\ state.rows = writer[w].rows
      BY <2>0 DEF WriterStates
    <3>4. writer[w].pc = "locking"
      BY <2>2 DEF AcquireLock
    <3>5. writer[w].wanted \subseteq Nat
      BY <2>0 DEF WriterStates
    <3>6. \A other \in writer[w].wanted \ {key} : key < other
      BY <3>1, <3>5
    <3> HIDE DEF state
    <3>7. Ascending(state)
      BY <1>0, <3>3, <3>4, <3>6
    <3> QED BY <1>1, <3>2, <3>7, Zenon
  <2>3. CASE Flush(w)
    <3> DEFINE new == {NewRow(lane) : lane \in writer[w].lanes}
               state == [writer[w] EXCEPT !.pc = "open", !.lanes = {},
                                          !.rows = writer[w].rows \cup new]
    <3>1. writer' = [writer EXCEPT ![w] = state]
      BY <2>3 DEF Flush, Insert
    <3>2. writer[w].lanes # {}
      BY <1>0, <2>3 DEF Flush
    <3>3. new # {}
      BY <3>2
    <3> HIDE DEF new
    <3>4. state.pc = "open" /\ state.rows = writer[w].rows \cup new
      BY <2>0 DEF WriterStates
    <3> HIDE DEF state
    <3>5. Ascending(state)
      BY <3>3, <3>4
    <3> QED BY <1>1, <3>1, <3>5, Zenon
  <2>4. CASE Commit(w) \/ Rollback(w)
    BY <1>1, <1>3, <2>4 DEF Commit, Rollback
  <2> QED BY <1>4, <2>1, <2>2, <2>3, <2>4 DEF WriterStep
<1>5. CASE \E r \in Relays : RelayStep(r)
  BY <1>2, <1>5, RelayDispatch
<1>6. ASSUME NEW k \in Workers, WorkerStep(k) PROVE LocksInv'
  <2>1. CASE StartHandler(k)
    BY <1>2, <2>1 DEF StartHandler, RunHandler
  <2>2. CASE Succeed(k) \/ SucceedUnconfirmed(k)
    BY <1>2, <2>2, HandlerCommitFrame
  <2>3. CASE ~StartHandler(k) /\ ~Succeed(k) /\ ~SucceedUnconfirmed(k)
    BY <1>2, <1>6, <2>3, WorkerDispatch
  <2> QED BY <2>1, <2>2, <2>3
<1>7. CASE (\E ref \in stream : Trim(ref)) \/ Tick \/ UNCHANGED vars
  BY <1>2, <1>7 DEF Trim, Tick, vars
<1> HIDE DEF Ascending
<1> QED BY <1>4, <1>5, <1>6, <1>7 DEF Next

-----------------------------------------------------------------------------
(* The rows stay sound *)

\* Initially nothing is leased, drawn, applied or locked.
LEMMA LeaseInit == Init => LeaseInv
<1> SUFFICES ASSUME Init PROVE LeaseInv
  BY Zenon
<1>1. RowsInv
  <2>1. ASSUME NEW d \in DeliveryIds
        PROVE  /\ delivery[d].status = "absent" /\ delivery[d].attempt_count = 0
               /\ delivery[d].lease_owner = {} /\ delivery[d].delivery_token = 0
               /\ delivery[d].lease_expires_at = 0
    BY Zenon DEF Init, AbsentRow, PendingRow
  <2> QED BY <2>1, OutboxAssumption DEF RowsInv, RowSound
<1>2. ReferencesInv
  BY DEF Init, ReferencesInv, InHand, UnattemptedIsUnpublished, IdleRelay, IdleWorker
<1>3. CheckpointIsLastApplied
  BY DEF Init, CheckpointIsLastApplied
<1>4. LocksInv
  BY DEF Init, LocksInv, IdleWriter
<1> QED BY <1>1, <1>2, <1>3, <1>4 DEF LeaseInv

\* Every step preserves the invariant.
LEMMA LeaseNext == TypeOK /\ OrderInv /\ LeaseInv /\ [Next]_vars => LeaseInv'
  BY RowsNext, ReferencesNext, CheckpointNext, LocksNext DEF LeaseInv

\* Whatever expires, crashes, is cancelled or delivered twice, the rows of the
\* outbox stay sound: exclusive handlers that own their row, a checkpoint at the
\* last event applied, lease columns set exactly while a row runs, dead letters
\* only after the configured attempts, and no release of a published reference.
THEOREM DeliveriesStaySound == Spec => []DeliveriesSound
<1>1. Init => TypeOK /\ OrderInv /\ LeaseInv
  BY TypeInit, OrderInit, LeaseInit
<1>2. TypeOK /\ OrderInv /\ LeaseInv /\ [Next]_vars => TypeOK' /\ OrderInv' /\ LeaseInv'
  BY TypeNext, OrderNext, LeaseNext
<1>3. TypeOK /\ OrderInv /\ LeaseInv => DeliveriesSound
  <2> SUFFICES ASSUME TypeOK, OrderInv, LeaseInv PROVE DeliveriesSound
    OBVIOUS
  <2>1. HandlerOwnsRow /\ OneHandlerPerLane
    BY OrderImpliesExclusion DEF OrderInv
  <2>2. CheckpointIsLastApplied /\ UnattemptedIsUnpublished
    BY Zenon DEF LeaseInv, ReferencesInv
  <2>3. LeaseShape /\ DeadAfterAttempts
    BY DEF LeaseInv, RowsInv, RowSound, LeaseShape, DeadAfterAttempts
  <2> QED BY <2>1, <2>2, <2>3 DEF DeliveriesSound
<1> QED BY <1>1, <1>2, <1>3, PTL DEF Spec

-----------------------------------------------------------------------------
(* Appends do not wait in a circle *)

INSTANCE FiniteSetTheorems

\* A nonempty set of naturals has a smallest member.
LEMMA SmallestMember ==
  ASSUME NEW S \in SUBSET Nat, S # {}
  PROVE  \E m \in S : \A n \in S : m <= n
<1>1. PICK R : IsWellFoundedOn(R, Nat) /\ \A m, n \in Nat : m < n => <<m, n>> \in R
  <2>1. \A m, n \in Nat : m < n => <<m, n>> \in OpToRel(<, Nat)
    BY DEF OpToRel
  <2>2. \E R : IsWellFoundedOn(R, Nat) /\ \A m, n \in Nat : m < n => <<m, n>> \in R
    BY <2>1, NatLessThanWellFounded, Zenon
  <2> QED BY <2>2
<1>2. S \subseteq Nat /\ S # {}
  OBVIOUS
<1>3. PICK m \in S : \A n \in S : ~(<<n, m>> \in R)
  <2>1. IsWellFoundedOn(R, Nat)
    BY <1>1
  <2> QED BY <1>2, <2>1, WFMin, Zenon
<1>4. \A n \in S : m \in Nat /\ n \in Nat /\ ~(n < m)
  BY <1>1, <1>2, <1>3, Zenon
<1> QED BY <1>4

\* In a finite set of transactions with ascending locks somebody waits for none
\* of the others: somebody with the fewest wanted keys above their own.
LEMMA LocksImplyNoCycle == TypeOK /\ LocksInv => NoLockCycle
<1> SUFFICES ASSUME TypeOK, LocksInv,
                    NEW S \in SUBSET {w \in Writers : writer[w].rows = {}}, S # {},
                    \A w \in S : \E v \in S : WaitsFor(w, v)
             PROVE  FALSE
  BY DEF NoLockCycle
<1> DEFINE Next1(w) == CHOOSE key \in writer[w].wanted :
                         \A other \in writer[w].wanted : key <= other
           Above(w) == {v \in S : Next1(w) < Next1(v)}
<1>1. ASSUME NEW w \in S
      PROVE  /\ Next1(w) \in writer[w].wanted /\ Next1(w) \in Nat
             /\ \E v \in S : Next1(w) \in writer[v].held
  <2>1. PICK v \in S : WaitsFor(w, v)
    OBVIOUS
  <2>2. PICK key \in writer[w].wanted :
          /\ \A other \in writer[w].wanted : key <= other
          /\ key \in writer[v].held
    BY <2>1 DEF WaitsFor
  <2>3. writer[w].wanted \subseteq Nat
    BY DEF TypeOK, WriterStates
  <2>4. /\ Next1(w) \in writer[w].wanted
        /\ \A other \in writer[w].wanted : Next1(w) <= other
    BY <2>2
  <2>5. Next1(w) = key
    <3> HIDE DEF Next1
    <3>1. Next1(w) <= key /\ key <= Next1(w) /\ Next1(w) \in Nat /\ key \in Nat
      BY <2>2, <2>3, <2>4, Zenon
    <3> QED BY <3>1
  <2> QED BY <2>2, <2>3, <2>4, <2>5, Zenon
<1> HIDE DEF Next1
<1>2. ASSUME NEW w \in S PROVE \E v \in S : Next1(w) < Next1(v)
  <2>1. PICK v \in S : Next1(w) \in writer[v].held
    BY <1>1
  <2>2. Next1(v) \in writer[v].wanted
    BY <1>1, Zenon
  <2> QED BY <2>1, <2>2, Zenon DEF LocksInv
<1>3. IsFiniteSet(S)
  <2>1. S \subseteq Writers
    BY Zenon
  <2> QED BY <2>1, FS_Subset, OutboxAssumption, Zenon
<1>4. \A w \in S : IsFiniteSet(Above(w)) /\ Cardinality(Above(w)) \in Nat
  <2>1. \A w \in S : Above(w) \subseteq S
    OBVIOUS
  <2> QED BY <1>3, <2>1, FS_Subset, FS_CardinalityType, Zenon
<1>5. PICK w \in S : \A v \in S : Cardinality(Above(w)) <= Cardinality(Above(v))
  <2> DEFINE sizes == {Cardinality(Above(w)) : w \in S}
  <2>1. sizes \in SUBSET Nat /\ sizes # {}
    BY <1>4, Zenon
  <2>2. PICK m \in sizes : \A n \in sizes : m <= n
    <3> HIDE DEF sizes
    <3> QED BY <2>1, SmallestMember, Zenon
  <2>3. PICK w \in S : m = Cardinality(Above(w))
    BY Zenon
  <2>4. \A v \in S : Cardinality(Above(v)) \in sizes
    BY Zenon
  <2> HIDE DEF sizes, Above
  <2>5. \A v \in S : Cardinality(Above(w)) <= Cardinality(Above(v))
    BY <2>2, <2>3, <2>4, Zenon
  <2> QED BY <2>5
<1>6. PICK v \in S : Next1(w) < Next1(v)
  BY <1>2, Zenon
<1>7. Above(v) \subseteq Above(w) /\ v \in Above(w) /\ v \notin Above(v)
  BY <1>1, <1>6
<1>8. Cardinality(Above(v)) < Cardinality(Above(w))
  <2> HIDE DEF Above
  <2> QED BY <1>4, <1>7, FS_Subset
<1>9. Cardinality(Above(w)) \in Nat /\ Cardinality(Above(v)) \in Nat
      /\ Cardinality(Above(w)) <= Cardinality(Above(v))
  BY <1>4, <1>5, Zenon
<1> HIDE DEF Above
<1> QED BY <1>8, <1>9

\* Transactions that have appended nothing else never wait for each other in a
\* circle, however many consumers their events have and whichever keys collide.
THEOREM AppendsNeverCircle == Spec => []NoLockCycle
<1>1. Init => TypeOK /\ OrderInv /\ LeaseInv
  BY TypeInit, OrderInit, LeaseInit
<1>2. TypeOK /\ OrderInv /\ LeaseInv /\ [Next]_vars => TypeOK' /\ OrderInv' /\ LeaseInv'
  BY TypeNext, OrderNext, LeaseNext
<1>3. TypeOK /\ LeaseInv => NoLockCycle
  BY LocksImplyNoCycle DEF LeaseInv
<1> QED BY <1>1, <1>2, <1>3, PTL DEF Spec

-----------------------------------------------------------------------------
(* Registration: who holds which lock.                                     *)

CONSTANTS Procs, Requests, Rank, MaxSends, None
VARIABLES accounts, receipts, events, rq, held, answers, sends

G == INSTANCE Registration

Ids(r) == {r.name, r.email}
Identifiers == UNION {Ids(r) : r \in Requests}

\* advisory_lock_key: a bounded integer, one per identifier; identifiers that
\* share a key share the lock, and are one identifier here.
RankAssumption ==
    /\ \A x \in Identifiers : Rank[x] \in Nat
    /\ \A x, y \in Identifiers : Rank[x] = Rank[y] => x = y
    /\ \E b \in Nat : \A x \in Identifiers : Rank[x] <= b

Active == {"locks", "check", "commit"}

\* The locks of a request in state r.
Owns(r, l) ==
    /\ r.pc \in Active
    /\ \/ l = <<"receipt", r.cmd.key>>
       \/ \E x \in Ids(r.cmd) \ r.want : l = <<"name", x>>

\* The states of a request; what it already locked ranks below what it wants.
Shape(r) ==
    /\ DOMAIN r = {"pc", "cmd", "want"}
    /\ r.pc \in Active \cup {"idle", "claim"}
    /\ r.pc # "idle" => r.cmd \in Requests
    /\ r.pc = "claim" => r.want = Ids(r.cmd)
    /\ r.pc = "locks" => /\ r.want \subseteq Ids(r.cmd)
                         /\ \A x \in Ids(r.cmd) \ r.want : \A y \in r.want : Rank[x] < Rank[y]
    /\ r.pc \in {"check", "commit"} => r.want = {}

\* A lock has one holder, which owns exactly the locks of its state.
LockInv ==
    /\ DOMAIN rq = Procs
    /\ \A h \in held : \E l : \E p \in Procs : h = <<l, p>>
    /\ \A l : \A p, q \in Procs : <<l, p>> \in held /\ <<l, q>> \in held => p = q
    /\ \A p \in Procs : Shape(rq[p])
    /\ \A p \in Procs : \A l : <<l, p>> \in held <=> Owns(rq[p], l)

\* What is left to show of a step of p to the state r.
LEMMA RequestStep ==
    ASSUME LockInv, NEW p \in Procs, NEW r, Shape(r),
           DOMAIN rq' = Procs, rq'[p] = r, \A q \in Procs \ {p} : rq'[q] = rq[q],
           \A h \in held' : \E l : \E q \in Procs : h = <<l, q>>,
           \A l : \A q \in Procs \ {p} : <<l, q>> \in held' <=> <<l, q>> \in held,
           \A l : <<l, p>> \in held' <=> Owns(r, l),
           \A l : Owns(r, l) => \A q \in Procs \ {p} : <<l, q>> \notin held
    PROVE  LockInv'
<1>1. ASSUME NEW q \in Procs PROVE Shape(rq'[q]) /\ \A l : <<l, q>> \in held' <=> Owns(rq'[q], l)
  <2>1. CASE q = p
    BY <2>1, Zenon
  <2>2. CASE q # p
    BY <2>2, Zenon DEF LockInv
  <2> QED
    BY <2>1, <2>2, Zenon
<1>2. ASSUME NEW l, NEW q \in Procs, NEW s \in Procs, <<l, q>> \in held', <<l, s>> \in held' PROVE q = s
  <2>1. CASE q = p
    BY <2>1, <1>2, Zenon
  <2>2. CASE s = p
    BY <2>2, <1>2, Zenon
  <2>3. CASE q # p /\ s # p
    BY <2>3, <1>2, Zenon DEF LockInv
  <2> QED
    BY <2>1, <2>2, <2>3, Zenon
<1>3. \A q \in Procs : Shape(rq[q])'
  BY <1>1, Zenon DEF Shape
<1>4. \A q \in Procs : \A l : (<<l, q>> \in held)' <=> Owns(rq[q], l)'
  BY <1>1, Zenon DEF Owns
<1> QED
  BY <1>2, <1>3, <1>4, Zenon DEF LockInv

\* A finished transaction owns nothing and frees only its own locks.
LEMMA FinishFrees == ASSUME LockInv, NEW p \in Procs, G!Finish(p) PROVE LockInv'
<1>1. PICK r : r = G!Idle
  OBVIOUS
<1>2. DOMAIN r = {"pc", "cmd", "want"} /\ r.pc = "idle"
  BY <1>1 DEF G!Idle
<1>3. DOMAIN rq' = Procs /\ rq'[p] = r /\ \A q \in Procs \ {p} : rq'[q] = rq[q]
  BY <1>1 DEF G!Finish, LockInv
<1>4. Shape(r) /\ \A l : ~Owns(r, l)
  BY <1>2 DEF Shape, Owns, Active
<1>5. \A h : h \in held' <=> h \in held /\ h[2] # p
  BY DEF G!Finish
<1>6. /\ \A l : \A q \in Procs \ {p} : <<l, q>> \in held' <=> <<l, q>> \in held
      /\ \A l : <<l, p>> \notin held'
  BY <1>5
<1>7. \A h \in held' : \E l : \E q \in Procs : h = <<l, q>>
  <2>1. \A h \in held : \E l : \E q \in Procs : h = <<l, q>>
    BY Zenon DEF LockInv
  <2>2. \A h \in held' : h \in held
    BY <1>5
  <2> QED
    BY <2>1, <2>2, Zenon
<1> QED
  BY <1>3, <1>4, <1>6, <1>7, RequestStep, Zenon

\* A lock nobody else has can be taken.
LEMMA TakeLock ==
    ASSUME LockInv, NEW p \in Procs, NEW l, ~G!Others(l, p), held' = held \cup {<<l, p>>}
    PROVE  /\ \A h \in held' : \E m : \E q \in Procs : h = <<m, q>>
           /\ \A m : \A q \in Procs \ {p} : <<m, q>> \in held' <=> <<m, q>> \in held
           /\ \A m : <<m, p>> \in held' <=> <<m, p>> \in held \/ m = l
           /\ \A q \in Procs \ {p} : <<l, q>> \notin held
<1>1. \A h \in held : \E m : \E q \in Procs : h = <<m, q>>
  BY Zenon DEF LockInv
<1>2. \A h \in held' : h \in held \/ h = <<l, p>>
  OBVIOUS
<1>3. \A h \in held' : \E m : \E q \in Procs : h = <<m, q>>
  BY <1>1, <1>2, Zenon
<1>4. \A q \in Procs \ {p} : <<l, q>> \notin held
  BY DEF G!Others
<1>5. \A m, q : <<m, q>> = <<l, p>> <=> m = l /\ q = p
  OBVIOUS
<1>6. \A m, q : <<m, q>> \in held' <=> <<m, q>> \in held \/ <<m, q>> = <<l, p>>
  BY Zenon
<1> QED
  BY <1>3, <1>4, <1>5, <1>6, Zenon

\* Only another request that waits can be owned against: the locks of p.
LEMMA OwnAlone ==
    ASSUME LockInv, NEW p \in Procs, NEW l, <<l, p>> \in held
    PROVE  \A q \in Procs \ {p} : <<l, q>> \notin held
BY Zenon DEF LockInv

\* A new request owns nothing yet.
LEMMA SendLocks == ASSUME LockInv, NEW p \in Procs, NEW c \in Requests, G!Send(p, c) PROVE LockInv'
<1>1. PICK r : /\ r = [pc |-> "claim", cmd |-> c, want |-> {c.name, c.email}]
               /\ DOMAIN rq' = Procs /\ rq'[p] = r /\ \A q \in Procs \ {p} : rq'[q] = rq[q]
  BY DEF G!Send, LockInv
<1>2. DOMAIN r = {"pc", "cmd", "want"} /\ r.pc = "claim" /\ r.cmd = c /\ r.want = Ids(c)
  BY <1>1 DEF Ids
<1>3. Shape(r) /\ \A l : ~Owns(r, l)
  BY <1>2 DEF Shape, Owns, Active
<1>4. held' = held /\ rq[p].pc = "idle"
  BY DEF G!Send
<1>5. \A l : <<l, p>> \notin held
  <2>1. \A l : ~Owns(rq[p], l)
    BY <1>4 DEF Owns, Active
  <2> QED
    BY <2>1, Zenon DEF LockInv
<1>6. \A h \in held : \E m : \E q \in Procs : h = <<m, q>>
  BY Zenon DEF LockInv
<1> QED
  BY <1>1, <1>3, <1>4, <1>5, <1>6, RequestStep, Zenon

\* The claim of a receipt that nobody else claims.
LEMMA ClaimLocks == ASSUME LockInv, NEW p \in Procs, G!Claim(p) PROVE LockInv'
<1>1. PICK k : k = rq[p].cmd.key
  OBVIOUS
<1>2. rq[p].pc = "claim" /\ ~G!Others(<<"receipt", k>>, p)
  BY <1>1 DEF G!Claim
<1>3. CASE G!Finish(p)
  BY <1>3, FinishFrees, Zenon
<1>4. CASE rq' = [rq EXCEPT ![p].pc = "locks"] /\ held' = held \cup {<<<<"receipt", k>>, p>>}
  <2>1. Shape(rq[p]) /\ DOMAIN rq = Procs
    BY Zenon DEF LockInv
  <2>2. PICK r : /\ r = [rq[p] EXCEPT !.pc = "locks"]
                 /\ DOMAIN rq' = Procs /\ rq'[p] = r /\ \A q \in Procs \ {p} : rq'[q] = rq[q]
    BY <1>4, <2>1
  <2>3. DOMAIN r = {"pc", "cmd", "want"} /\ r.pc = "locks" /\ r.cmd = rq[p].cmd /\ r.want = rq[p].want
    BY <2>1, <2>2 DEF Shape
  <2>4. r.want = Ids(r.cmd) /\ r.cmd \in Requests
    BY <1>2, <2>1, <2>3 DEF Shape
  <2>5. Shape(r)
    BY <2>3, <2>4 DEF Shape, Active
  <2>6. \A l : Owns(r, l) <=> l = <<"receipt", k>>
    BY <1>1, <2>3, <2>4 DEF Owns, Active
  <2>7. \A l : <<l, p>> \notin held
    <3>1. \A l : ~Owns(rq[p], l)
      BY <1>2 DEF Owns, Active
    <3> QED
      BY <3>1, Zenon DEF LockInv
  <2>8. /\ \A h \in held' : \E m : \E q \in Procs : h = <<m, q>>
        /\ \A m : \A q \in Procs \ {p} : <<m, q>> \in held' <=> <<m, q>> \in held
        /\ \A m : <<m, p>> \in held' <=> <<m, p>> \in held \/ m = <<"receipt", k>>
        /\ \A q \in Procs \ {p} : <<<<"receipt", k>>, q>> \notin held
    BY <1>2, <1>4, TakeLock, Zenon
  <2>9. ASSUME NEW l PROVE <<l, p>> \in held' <=> Owns(r, l)
    <3>1. <<l, p>> \in held' <=> l = <<"receipt", k>>
      BY <2>7, <2>8, Zenon
    <3> QED
      BY <2>6, <3>1, Zenon
  <2>10. \A l : Owns(r, l) => \A q \in Procs \ {p} : <<l, q>> \notin held
    BY <2>6, <2>8, Zenon
  <2> QED
    BY <2>2, <2>5, <2>8, <2>9, <2>10, RequestStep, Zenon
<1> QED
  BY <1>1, <1>3, <1>4 DEF G!Claim

\* The next identifier in numeric order.
LEMMA IdentifierLocks ==
    ASSUME LockInv, RankAssumption, NEW p \in Procs, G!LockIdentifier(p)
    PROVE  LockInv'
<1>1. PICK x \in G!NextLock(p) :
        /\ ~G!Others(<<"name", x>>, p)
        /\ held' = held \cup {<<<<"name", x>>, p>>}
        /\ rq' = [rq EXCEPT ![p].want = @ \ {x},
                            ![p].pc = IF rq[p].want = {x} THEN "check" ELSE "locks"]
  BY Zenon DEF G!LockIdentifier
<1>2. rq[p].pc = "locks" /\ Shape(rq[p]) /\ DOMAIN rq = Procs
  BY Zenon DEF LockInv, G!LockIdentifier
<1>3. PICK w, c : w = rq[p].want \ {x} /\ c = IF rq[p].want = {x} THEN "check" ELSE "locks"
  BY Zenon
<1>4. PICK r : /\ r = [rq[p] EXCEPT !.want = w, !.pc = c]
               /\ DOMAIN rq' = Procs /\ rq'[p] = r /\ \A q \in Procs \ {p} : rq'[q] = rq[q]
  BY <1>1, <1>2, <1>3, Zenon
<1>5. DOMAIN r = {"pc", "cmd", "want"} /\ r.pc = c /\ r.cmd = rq[p].cmd /\ r.want = w
  BY <1>2, <1>4 DEF Shape
<1>6. /\ x \in rq[p].want /\ \A y \in rq[p].want : Rank[x] <= Rank[y]
  BY Zenon DEF G!NextLock
<1>7. /\ rq[p].want \subseteq Ids(r.cmd) /\ r.cmd \in Requests
      /\ \A z \in Ids(r.cmd) \ rq[p].want : \A y \in rq[p].want : Rank[z] < Rank[y]
  BY <1>2, <1>5 DEF Shape
<1>8. /\ \A y \in Ids(r.cmd) : Rank[y] \in Nat
      /\ \A y, z \in Ids(r.cmd) : Rank[y] = Rank[z] => y = z
  <2>1. \A y \in Ids(r.cmd) : y \in Identifiers
    BY <1>7, Zenon DEF Identifiers
  <2> QED
    BY <2>1, Zenon DEF RankAssumption
<1>9. \A z \in Ids(r.cmd) \ w : \A y \in w : Rank[z] < Rank[y]
  <2> SUFFICES ASSUME NEW z \in Ids(r.cmd) \ w, NEW y \in w PROVE Rank[z] < Rank[y]
    OBVIOUS
  <2>1. y \in rq[p].want /\ y # x /\ y \in Ids(r.cmd)
    BY <1>3, <1>7
  <2>2. CASE z = x
    BY <2>1, <2>2, <1>6, <1>7, <1>8
  <2>3. CASE z # x
    BY <2>1, <2>3, <1>3, <1>7
  <2> QED
    BY <2>2, <2>3
<1>10. Shape(r)
  <2>1. c \in {"check", "locks"} /\ (c = "check" => w = {}) /\ w \subseteq Ids(r.cmd)
    BY <1>3, <1>7
  <2> QED
    BY <2>1, <1>5, <1>7, <1>9 DEF Shape, Active
<1>11. c \in Active /\ rq[p].pc \in Active
  BY <1>2, <1>3 DEF Active
<1>12. \A l : Owns(r, l) <=> Owns(rq[p], l) \/ l = <<"name", x>>
  <2>1. \A y : y \in Ids(r.cmd) \ w <=> y \in Ids(r.cmd) \ rq[p].want \/ y = x
    BY <1>3, <1>6, <1>7
  <2> QED
    BY <2>1, <1>5, <1>11, Zenon DEF Owns
<1>13. /\ \A h \in held' : \E m : \E q \in Procs : h = <<m, q>>
       /\ \A m : \A q \in Procs \ {p} : <<m, q>> \in held' <=> <<m, q>> \in held
       /\ \A m : <<m, p>> \in held' <=> <<m, p>> \in held \/ m = <<"name", x>>
       /\ \A q \in Procs \ {p} : <<<<"name", x>>, q>> \notin held
  BY <1>1, TakeLock, Zenon
<1>14. \A l : <<l, p>> \in held <=> Owns(rq[p], l)
  BY Zenon DEF LockInv
<1>15. \A l : <<l, p>> \in held' <=> Owns(r, l)
  BY <1>12, <1>13, <1>14, Zenon
<1>16. \A l : Owns(r, l) => \A q \in Procs \ {p} : <<l, q>> \notin held
  BY <1>12, <1>13, <1>14, OwnAlone, Zenon
<1> QED
  BY <1>4, <1>10, <1>13, <1>15, <1>16, RequestStep, Zenon

\* The lookups change no lock.
LEMMA CheckLocks == ASSUME LockInv, NEW p \in Procs, G!Check(p) PROVE LockInv'
<1>1. CASE G!Finish(p)
  BY <1>1, FinishFrees, Zenon
<1>2. CASE rq' = [rq EXCEPT ![p].pc = "commit"] /\ held' = held
  <2>1. Shape(rq[p]) /\ DOMAIN rq = Procs /\ rq[p].pc = "check"
    BY Zenon DEF LockInv, G!Check
  <2>2. PICK r : /\ r = [rq[p] EXCEPT !.pc = "commit"]
                 /\ DOMAIN rq' = Procs /\ rq'[p] = r /\ \A q \in Procs \ {p} : rq'[q] = rq[q]
    BY <1>2, <2>1
  <2>3. DOMAIN r = {"pc", "cmd", "want"} /\ r.pc = "commit" /\ r.cmd = rq[p].cmd /\ r.want = rq[p].want
    BY <2>1, <2>2 DEF Shape
  <2>4. Shape(r)
    BY <2>1, <2>3 DEF Shape, Active
  <2>5. "check" \in Active /\ "commit" \in Active
    BY DEF Active
  <2>6. \A l : Owns(r, l) <=> Owns(rq[p], l)
    BY <2>1, <2>3, <2>5, Zenon DEF Owns
  <2>7. \A l : <<l, p>> \in held <=> Owns(rq[p], l)
    BY Zenon DEF LockInv
  <2>8. \A l : Owns(r, l) => \A q \in Procs \ {p} : <<l, q>> \notin held
    BY <2>6, <2>7, OwnAlone, Zenon
  <2>9. \A h \in held' : \E m : \E q \in Procs : h = <<m, q>>
    BY <1>2, Zenon DEF LockInv
  <2>10. \A l : <<l, p>> \in held' <=> Owns(r, l)
    BY <1>2, <2>6, <2>7, Zenon
  <2>11. \A l : \A q \in Procs \ {p} : <<l, q>> \in held' <=> <<l, q>> \in held
    BY <1>2, Zenon
  <2> QED
    BY <2>2, <2>4, <2>8, <2>9, <2>10, <2>11, RequestStep, Zenon
<1> QED
  BY <1>1, <1>2, Zenon DEF G!Check

\* Every step keeps the locks in order.
LEMMA LocksStep == ASSUME LockInv, RankAssumption, [G!Next]_(G!regVars) PROVE LockInv'
<1>1. CASE rq' = rq /\ held' = held
  <2>1. \A q \in Procs : Shape(rq[q])'
    BY <1>1, Zenon DEF LockInv, Shape
  <2>2. \A q \in Procs : \A l : (<<l, q>> \in held)' <=> Owns(rq[q], l)'
    BY <1>1, Zenon DEF LockInv, Owns
  <2> QED
    BY <1>1, <2>1, <2>2, Zenon DEF LockInv
<1>2. CASE UNCHANGED G!regVars
  BY <1>1, <1>2 DEF G!regVars
<1>3. CASE \E k \in G!Keys : G!Expire(k)
  BY <1>1, <1>3 DEF G!Expire
<1>4. ASSUME NEW p \in Procs,
             \/ \E r \in Requests : G!Send(p, r)
             \/ G!Claim(p) \/ G!LockIdentifier(p) \/ G!Check(p) \/ G!CommitAccount(p) \/ G!Rollback(p)
      PROVE  LockInv'
  <2>1. CASE G!CommitAccount(p) \/ G!Rollback(p)
    <3>1. G!Finish(p)
      BY <2>1 DEF G!CommitAccount, G!Rollback
    <3> QED
      BY <3>1, FinishFrees, Zenon
  <2> QED
    BY <1>4, <2>1, SendLocks, ClaimLocks, IdentifierLocks, CheckLocks, Zenon
<1> QED
  BY <1>2, <1>3, <1>4, Zenon DEF G!Next

-----------------------------------------------------------------------------
(* Registration: what is committed.                                        *)

Receipt == [account : Nat, live : BOOLEAN]
NotLive(k) == receipts[k] = None \/ ~receipts[k].live

\* No two accounts share a name or an email: the insert of an account never
\* meets a unique index.
AccountsDistinct ==
    \A i, j \in DOMAIN accounts :
        i # j => accounts[i].name # accounts[j].name /\ accounts[i].email # accounts[j].email

\* A request past its check found its identifiers free and nobody can take
\* them; a claimed receipt answers no request.
DataInv ==
    /\ receipts \in [G!Keys -> {None} \cup Receipt]
    /\ accounts \in Seq({G!AccountGraph(c) : c \in Requests})
    /\ \A i \in DOMAIN accounts : receipts[accounts[i].by] # None
    /\ AccountsDistinct
    /\ \A p \in Procs : rq[p].pc = "commit" => ~G!Taken(rq[p].cmd)
    /\ \A p \in Procs : rq[p].pc \in Active => NotLive(rq[p].cmd.key)

\* Two active requests have different keys, two past their locks different
\* identifiers.
LEMMA Disjoint ==
    ASSUME LockInv, NEW p \in Procs, NEW q \in Procs, p # q
    PROVE  /\ rq[p].pc \in Active /\ rq[q].pc \in Active => rq[p].cmd.key # rq[q].cmd.key
           /\ rq[p].pc = "commit" /\ rq[q].pc = "commit" =>
                rq[p].cmd.name # rq[q].cmd.name /\ rq[p].cmd.email # rq[q].cmd.email
<1>1. \A l : ~(Owns(rq[p], l) /\ Owns(rq[q], l))
  BY Zenon DEF LockInv
<1>2. \A s \in {p, q} : rq[s].pc \in Active => Owns(rq[s], <<"receipt", rq[s].cmd.key>>)
  BY Zenon DEF Owns
<1>3. ASSUME NEW s \in {p, q}, rq[s].pc = "commit"
      PROVE  Owns(rq[s], <<"name", rq[s].cmd.name>>) /\ Owns(rq[s], <<"name", rq[s].cmd.email>>)
  <2>1. rq[s].want = {} /\ rq[s].pc \in Active
    BY <1>3 DEF LockInv, Shape, Active
  <2>2. rq[s].cmd.name \in Ids(rq[s].cmd) \ rq[s].want /\ rq[s].cmd.email \in Ids(rq[s].cmd) \ rq[s].want
    BY <2>1 DEF Ids
  <2> QED
    BY <2>1, <2>2, Zenon DEF Owns
<1> QED
  BY <1>1, <1>2, <1>3, Zenon

\* What is left to show when nothing is committed.
LEMMA QuietStep ==
    ASSUME DataInv, UNCHANGED <<accounts, receipts>>, NEW p \in Procs, NEW r, rq'[p] = r,
           \A q \in Procs \ {p} : rq'[q] = rq[q],
           r.pc = "commit" => ~G!Taken(r.cmd), r.pc \in Active => NotLive(r.cmd.key)
    PROVE  DataInv'
<1>1. accounts' = accounts /\ receipts' = receipts
  OBVIOUS
<1>2. ASSUME NEW q \in Procs
      PROVE  /\ (rq[q].pc = "commit" => ~G!Taken(rq[q].cmd))'
             /\ (rq[q].pc \in Active => NotLive(rq[q].cmd.key))'
  <2>1. \A c : G!Taken(c)' <=> G!Taken(c)
    BY <1>1 DEF G!Taken
  <2>2. \A k : NotLive(k)' <=> NotLive(k)
    BY <1>1 DEF NotLive
  <2>3. PICK s : s = rq'[q]
    OBVIOUS
  <2>4. (s.pc = "commit" => ~G!Taken(s.cmd)) /\ (s.pc \in Active => NotLive(s.cmd.key))
    BY <2>3, Zenon DEF DataInv
  <2> QED
    BY <1>1, <2>3, <2>4 DEF G!Taken, NotLive
<1>3. AccountsDistinct'
  BY <1>1, Zenon DEF DataInv, AccountsDistinct
<1> QED
  BY <1>1, <1>2, <1>3, Zenon DEF DataInv

\* What a finished request leaves.
LEMMA FinishQuiet ==
    ASSUME LockInv, NEW p \in Procs, G!Finish(p)
    PROVE  rq'[p] = G!Idle /\ G!Idle.pc = "idle" /\ \A q \in Procs \ {p} : rq'[q] = rq[q]
BY DEF G!Finish, G!Idle, LockInv

\* The steps before the commit.
LEMMA DataBefore ==
    ASSUME LockInv, DataInv, NEW p \in Procs,
           \/ \E c \in Requests : G!Send(p, c)
           \/ G!Claim(p) \/ G!LockIdentifier(p) \/ G!Check(p) \/ G!Rollback(p)
    PROVE  DataInv'
<1>1. UNCHANGED <<accounts, receipts>>
  BY Zenon DEF G!Send, G!Claim, G!LockIdentifier, G!Check, G!Rollback
<1>2. PICK r : /\ rq'[p] = r /\ \A q \in Procs \ {p} : rq'[q] = rq[q]
               /\ r.pc = "commit" => ~G!Taken(r.cmd)
               /\ r.pc \in Active => NotLive(r.cmd.key)
  <2>1. "idle" \notin Active /\ "idle" # "commit" /\ "claim" \notin Active /\ "claim" # "commit"
    BY DEF Active
  <2>2. CASE G!Finish(p)
    <3>1. rq'[p] = G!Idle /\ G!Idle.pc = "idle" /\ \A q \in Procs \ {p} : rq'[q] = rq[q]
      BY <2>2, FinishQuiet, Zenon
    <3> QED
      BY <2>1, <3>1, Zenon
  <2>3. DOMAIN rq = Procs /\ DOMAIN rq[p] = {"pc", "cmd", "want"}
    BY Zenon DEF LockInv, Shape
  <2>4. ASSUME NEW c \in Requests, G!Send(p, c) PROVE rq'[p].pc = "claim" /\ \A q \in Procs \ {p} : rq'[q] = rq[q]
    BY <2>3, <2>4 DEF G!Send
  <2>5. CASE G!Claim(p) /\ ~G!Finish(p)
    <3>1. /\ \A q \in Procs \ {p} : rq'[q] = rq[q]
          /\ rq'[p].pc = "locks" /\ rq'[p].cmd.key = rq[p].cmd.key
      BY <2>3, <2>5 DEF G!Claim
    <3>2. NotLive(rq[p].cmd.key)
      BY <2>5 DEF G!Claim, NotLive
    <3>3. "locks" # "commit"
      OBVIOUS
    <3> QED
      BY <3>1, <3>2, <3>3, Zenon
  <2>6. CASE G!LockIdentifier(p)
    <3>1. /\ \A q \in Procs \ {p} : rq'[q] = rq[q]
          /\ rq'[p].pc \in {"locks", "check"} /\ rq'[p].cmd = rq[p].cmd
      <4>1. PICK w, c : /\ rq' = [rq EXCEPT ![p].want = w, ![p].pc = c]
                        /\ c \in {"locks", "check"}
        BY <2>3, <2>6, Zenon DEF G!LockIdentifier
      <4> QED
        BY <2>3, <4>1
    <3>2. rq[p].pc \in Active /\ \A c \in {"locks", "check"} : c # "commit"
      BY <2>6 DEF G!LockIdentifier, Active
    <3>3. NotLive(rq[p].cmd.key)
      BY <3>2, Zenon DEF DataInv
    <3> QED
      BY <3>1, <3>2, <3>3, Zenon
  <2>7. CASE G!Check(p) /\ ~G!Finish(p)
    <3>1. /\ \A q \in Procs \ {p} : rq'[q] = rq[q]
          /\ rq'[p].cmd = rq[p].cmd /\ ~G!Taken(rq[p].cmd)
      BY <2>3, <2>7, Zenon DEF G!Check
    <3>2. rq[p].pc \in Active
      BY <2>7, Zenon DEF G!Check, Active
    <3>3. NotLive(rq[p].cmd.key)
      BY <3>2, Zenon DEF DataInv
    <3> QED
      BY <3>1, <3>3, Zenon
  <2>8. G!Rollback(p) => G!Finish(p)
    BY DEF G!Rollback
  <2> QED
    BY <2>1, <2>2, <2>4, <2>5, <2>6, <2>7, <2>8, Zenon
<1> QED
  BY <1>1, <1>2, QuietStep, Zenon

\* The commit: the identifiers are free, and everybody past a check has others.
LEMMA DataCommit ==
    ASSUME LockInv, DataInv, None \notin Receipt, NEW p \in Procs, G!CommitAccount(p)
    PROVE  DataInv'
<1>1. PICK c, k, n, a : c = rq[p].cmd /\ k = c.key /\ n = Len(accounts) + 1 /\ a = G!AccountGraph(c)
  OBVIOUS
<1>2. a.name = c.name /\ a.email = c.email /\ a.by = k
  BY <1>1 DEF G!AccountGraph
<1>3. /\ rq[p].pc = "commit" /\ G!Finish(p) /\ accounts' = Append(accounts, a)
      /\ receipts' = [receipts EXCEPT ![k] = [account |-> n, live |-> TRUE]]
  BY <1>1 DEF G!CommitAccount, G!CompleteRegistration
<1>4. /\ receipts \in [G!Keys -> {None} \cup Receipt] /\ accounts \in Seq({G!AccountGraph(d) : d \in Requests})
      /\ ~G!Taken(c)
  BY <1>1, <1>3, Zenon DEF DataInv
<1>5. c \in Requests /\ k \in G!Keys
  BY <1>1, <1>3 DEF LockInv, Shape, G!Keys
<1>6. /\ n \in Nat /\ accounts' \in Seq({G!AccountGraph(d) : d \in Requests})
      /\ DOMAIN accounts' = DOMAIN accounts \cup {n} /\ n \notin DOMAIN accounts
      /\ accounts'[n] = a /\ \A i \in DOMAIN accounts : accounts'[i] = accounts[i]
  <2>1. PICK A : A = {G!AccountGraph(d) : d \in Requests}
    BY Zenon
  <2>2. a \in A /\ accounts \in Seq(A)
    BY <1>1, <1>4, <1>5, <2>1
  <2> QED
    BY <1>1, <1>3, <2>1, <2>2
<1>7. /\ receipts' \in [G!Keys -> {None} \cup Receipt] /\ receipts'[k] # None
      /\ \A j \in G!Keys \ {k} : receipts'[j] = receipts[j]
  <2>1. [account |-> n, live |-> TRUE] \in Receipt
    BY <1>6 DEF Receipt
  <2> QED
    BY <1>3, <1>4, <1>5, <2>1, Zenon
<1>8. \A i \in DOMAIN accounts : accounts[i].name # c.name /\ accounts[i].email # c.email
  BY <1>4, Zenon DEF G!Taken
<1>9. \A i \in DOMAIN accounts' : receipts'[accounts'[i].by] # None
  <2>1. \A i \in DOMAIN accounts : receipts[accounts[i].by] # None
    BY Zenon DEF DataInv
  <2>2. \A i \in DOMAIN accounts : accounts[i].by \in G!Keys
    BY <1>4 DEF G!AccountGraph, G!Keys
  <2> QED
    BY <2>1, <2>2, <1>2, <1>6, <1>7, Zenon
<1>10. AccountsDistinct'
  <2> SUFFICES ASSUME NEW i \in DOMAIN accounts', NEW j \in DOMAIN accounts', i # j
               PROVE  accounts'[i].name # accounts'[j].name /\ accounts'[i].email # accounts'[j].email
    BY Zenon DEF AccountsDistinct
  <2>1. CASE i \in DOMAIN accounts /\ j \in DOMAIN accounts
    BY <2>1, <1>6, Zenon DEF DataInv, AccountsDistinct
  <2>2. CASE i = n /\ j \in DOMAIN accounts
    BY <2>2, <1>2, <1>6, <1>8, Zenon
  <2>3. CASE j = n /\ i \in DOMAIN accounts
    BY <2>3, <1>2, <1>6, <1>8, Zenon
  <2> QED
    BY <2>1, <2>2, <2>3, <1>6, Zenon
<1>11. ASSUME NEW q \in Procs
       PROVE  /\ (rq[q].pc = "commit" => ~G!Taken(rq[q].cmd))'
              /\ (rq[q].pc \in Active => NotLive(rq[q].cmd.key))'
  <2>1. rq'[p] = G!Idle /\ G!Idle.pc = "idle" /\ \A s \in Procs \ {p} : rq'[s] = rq[s]
    BY <1>3, FinishQuiet, Zenon
  <2>2. CASE q = p
    BY <2>1, <2>2 DEF Active
  <2>3. CASE q # p
    <3>1. rq'[q] = rq[q]
      BY <2>1, <2>3, Zenon
    <3>2. ASSUME rq[q].pc = "commit" PROVE ~G!Taken(rq[q].cmd)'
      <4>1. PICK d : d = rq[q].cmd /\ ~G!Taken(d) /\ d.name # c.name /\ d.email # c.email
        BY <1>1, <1>3, <2>3, <3>2, Disjoint, Zenon DEF DataInv
      <4>2. \A i \in DOMAIN accounts' : accounts'[i].name # d.name /\ accounts'[i].email # d.email
        BY <4>1, <1>2, <1>6, Zenon DEF G!Taken
      <4> QED
        BY <3>1, <4>1, <4>2, Zenon DEF G!Taken
    <3>3. ASSUME rq[q].pc \in Active PROVE NotLive(rq[q].cmd.key)'
      <4>1. rq[p].pc \in Active
        BY <1>3 DEF Active
      <4>2. rq[q].cmd.key # k /\ NotLive(rq[q].cmd.key)
        BY <1>1, <2>3, <3>3, <4>1, Disjoint, Zenon DEF DataInv
      <4>3. rq[q].cmd.key \in G!Keys
        BY <3>3 DEF LockInv, Shape, Active, G!Keys
      <4> QED
        BY <3>1, <4>2, <4>3, <1>7, Zenon DEF NotLive
    <3> QED
      BY <3>1, <3>2, <3>3, Zenon
  <2> QED
    BY <2>2, <2>3, Zenon
<1> QED
  BY <1>6, <1>7, <1>9, <1>10, <1>11, Zenon DEF DataInv

\* An expired receipt answers no request any more.
LEMMA DataExpire ==
    ASSUME LockInv, DataInv, None \notin Receipt, NEW k \in G!Keys, G!Expire(k)
    PROVE  /\ DataInv'
           /\ \A j \in G!Keys : (receipts[j] # None => receipts'[j] # None) /\ (NotLive(j) => NotLive(j)')
<1>1. /\ accounts' = accounts /\ rq' = rq /\ receipts[k] # None
      /\ receipts' = [receipts EXCEPT ![k] = [receipts[k] EXCEPT !.live = FALSE]]
  BY DEF G!Expire
<1>2. receipts \in [G!Keys -> {None} \cup Receipt] /\ receipts[k] \in Receipt
  BY <1>1 DEF DataInv
<1>3. PICK v : v = [receipts[k] EXCEPT !.live = FALSE] /\ receipts' = [receipts EXCEPT ![k] = v]
  BY <1>1, Zenon
<1>4. v \in Receipt /\ ~v.live
  BY <1>2, <1>3, Zenon DEF Receipt
<1>5. /\ receipts' \in [G!Keys -> {None} \cup Receipt] /\ receipts'[k] = v
      /\ \A j \in G!Keys \ {k} : receipts'[j] = receipts[j]
  BY <1>2, <1>3, <1>4
<1>6. \A j \in G!Keys : (receipts[j] # None => receipts'[j] # None) /\ (NotLive(j) => NotLive(j)')
  BY <1>4, <1>5, Zenon DEF NotLive
<1>7. \A i \in DOMAIN accounts : accounts[i].by \in G!Keys
  BY DEF DataInv, G!AccountGraph, G!Keys
<1>8. \A i \in DOMAIN accounts' : receipts'[accounts'[i].by] # None
  BY <1>1, <1>6, <1>7, Zenon DEF DataInv
<1>9. ASSUME NEW q \in Procs
      PROVE  /\ (rq[q].pc = "commit" => ~G!Taken(rq[q].cmd))'
             /\ (rq[q].pc \in Active => NotLive(rq[q].cmd.key))'
  <2>1. (rq[q].pc = "commit" => ~G!Taken(rq[q].cmd))'
    BY <1>1 DEF DataInv, G!Taken
  <2>2. ASSUME rq[q].pc \in Active PROVE NotLive(rq[q].cmd.key)'
    <3>1. NotLive(rq[q].cmd.key)
      BY <2>2, Zenon DEF DataInv
    <3>2. rq[q].cmd.key \in G!Keys
      BY <2>2 DEF LockInv, Shape, Active, G!Keys
    <3> QED
      BY <3>1, <3>2, <1>1, <1>6, Zenon DEF NotLive
  <2> QED
    BY <1>1, <2>1, <2>2, Zenon
<1>10. AccountsDistinct'
  BY <1>1, Zenon DEF DataInv, AccountsDistinct
<1>11. accounts' \in Seq({G!AccountGraph(c) : c \in Requests})
  BY <1>1, Zenon DEF DataInv
<1> QED
  BY <1>5, <1>6, <1>8, <1>9, <1>10, <1>11, Zenon DEF DataInv

\* A bounded set of numbers with a member has a largest one.
LEMMA Largest ==
    ASSUME NEW X \in SUBSET Nat, NEW b \in Nat, \A x \in X : x <= b, NEW y \in X
    PROVE  \E t \in X : \A u \in X : u <= t
<1> DEFINE gaps == {b - x : x \in X}
<1>1. b - y \in gaps
  OBVIOUS
<1>2. gaps \subseteq Nat
  OBVIOUS
<1>3. gaps \subseteq Nat /\ gaps # {}
  <2> HIDE DEF gaps
  <2> QED
    BY <1>1, <1>2, Zenon
<1>4. PICK R : IsWellFoundedOn(R, Nat) /\ \A m, n \in Nat : m < n => <<m, n>> \in R
  <2>1. \A m, n \in Nat : m < n => <<m, n>> \in OpToRel(<, Nat)
    BY DEF OpToRel
  <2>2. \E R : IsWellFoundedOn(R, Nat) /\ \A m, n \in Nat : m < n => <<m, n>> \in R
    BY <2>1, NatLessThanWellFounded, Zenon
  <2> QED
    BY <2>2
<1>5. PICK g \in gaps : \A d \in gaps : ~(<<d, g>> \in R)
  <2>1. IsWellFoundedOn(R, Nat)
    BY <1>4
  <2> HIDE DEF gaps
  <2> QED
    BY <1>3, <2>1, WFMin, Zenon
<1>6. PICK t \in X : g = b - t
  OBVIOUS
<1>7. ASSUME NEW u \in X PROVE u <= t
  <2>1. b - u \in gaps /\ b - u \in Nat /\ g \in Nat
    OBVIOUS
  <2>2. ~(b - u < g)
    BY <1>4, <1>5, <2>1, Zenon
  <2> QED
    BY <1>6, <2>1, <2>2
<1> QED
  BY <1>7, Zenon

\* A request that waits for an identifier waits for one whose holder, if it
\* waits as well, waits for an identifier of a higher rank.
LEMMA NoCircle == ASSUME LockInv, RankAssumption PROVE G!NoWaitCycle
<1> SUFFICES ASSUME NEW S \in (SUBSET Procs) \ {{}}, \A p \in S : \E q \in S : G!WaitsFor(p, q)
             PROVE  FALSE
  BY Zenon DEF G!NoWaitCycle
<1>1. \A p \in Procs : rq[p].pc = "locks" => rq[p].cmd \in Requests /\ rq[p].want \subseteq Ids(rq[p].cmd)
  BY DEF LockInv, Shape
<1>2. ASSUME NEW p \in Procs, NEW l, <<l, p>> \in held PROVE Owns(rq[p], l)
  BY <1>2, Zenon DEF LockInv
<1>3. ASSUME NEW p \in S, NEW q \in S, G!WaitsFor(p, q) PROVE rq[q].pc = "locks"
  <2>1. rq[q].pc \in Active
    BY <1>2, <1>3, Zenon DEF G!WaitsFor, Owns
  <2>2. rq[q].pc = "claim" \/ rq[q].pc = "locks"
    BY Zenon DEF G!WaitsFor
  <2> QED
    BY <2>1, <2>2 DEF Active
<1>4. ASSUME NEW p \in S, rq[p].pc = "locks"
      PROVE  \E q \in S : /\ rq[q].pc = "locks"
                          /\ \E x \in G!NextLock(p) : x \in Ids(rq[q].cmd) \ rq[q].want
  <2>1. PICK q \in S : G!WaitsFor(p, q)
    BY Zenon
  <2>2. rq[p].pc # "claim"
    BY <1>4
  <2>3. PICK x \in G!NextLock(p) : <<<<"name", x>>, q>> \in held
    BY <2>1, <2>2, Zenon DEF G!WaitsFor
  <2>4. Owns(rq[q], <<"name", x>>)
    BY <1>2, <2>3, Zenon
  <2>5. x \in Ids(rq[q].cmd) \ rq[q].want
    BY <2>4 DEF Owns
  <2>6. rq[q].pc = "locks"
    BY <1>3, <2>1, Zenon
  <2> QED
    BY <2>5, <2>6, Zenon
<1>5. PICK p0 \in S : rq[p0].pc = "locks"
  <2>1. PICK p \in S : p \in S
    BY Zenon
  <2>2. PICK q \in S : G!WaitsFor(p, q)
    BY Zenon
  <2> QED
    BY <1>3, <2>2, Zenon
<1> DEFINE X == {n \in Nat : \E p \in S : rq[p].pc = "locks" /\ \E x \in G!NextLock(p) : n = Rank[x]}
<1>6. \A p \in S : rq[p].pc = "locks" => \A x \in rq[p].want : x \in Identifiers /\ Rank[x] \in Nat
  BY <1>1 DEF Identifiers, RankAssumption
<1>7. \A p \in Procs : G!NextLock(p) \subseteq rq[p].want
  BY Zenon DEF G!NextLock
<1>8. PICK b \in Nat : \A x \in Identifiers : Rank[x] <= b
  BY Zenon DEF RankAssumption
<1>9. \A n \in X : n <= b
  BY <1>6, <1>7, <1>8
<1>10. \A p \in S : rq[p].pc = "locks" => \E x \in G!NextLock(p) : Rank[x] \in X
  BY <1>4, <1>6, <1>7, Zenon
<1>11. X \in SUBSET Nat
  BY Zenon
<1>12. PICK t \in X : \A u \in X : u <= t
  <2>1. PICK y \in X : y \in X
    BY <1>5, <1>10, Zenon
  <2> HIDE DEF X
  <2> QED
    BY <1>8, <1>9, <1>11, <2>1, Largest, Zenon
<1>13. PICK p \in S : rq[p].pc = "locks" /\ \E x \in G!NextLock(p) : t = Rank[x]
  BY Zenon
<1>14. PICK x \in G!NextLock(p) : t = Rank[x]
  BY <1>13, Zenon
<1>15. PICK q \in S : /\ rq[q].pc = "locks"
                      /\ \E z \in G!NextLock(p) : z \in Ids(rq[q].cmd) \ rq[q].want
  BY <1>4, <1>13, Zenon
<1>16. PICK z \in G!NextLock(p) : z \in Ids(rq[q].cmd) \ rq[q].want
  BY <1>15, Zenon
<1>17. PICK y \in G!NextLock(q) : Rank[y] \in X
  BY <1>10, <1>15, Zenon
<1>18. Rank[x] <= Rank[z] /\ Rank[x] \in Nat /\ Rank[z] \in Nat
  BY <1>6, <1>7, <1>13, <1>14, <1>16, Zenon DEF G!NextLock
<1>19. Rank[z] < Rank[y] /\ Rank[y] \in Nat
  <2>1. y \in rq[q].want /\ Shape(rq[q])
    BY <1>7, <1>17, Zenon DEF LockInv
  <2> QED
    BY <2>1, <1>6, <1>15, <1>16, <1>17, Zenon DEF Shape
<1>20. Rank[y] <= t
  <2> HIDE DEF X
  <2> QED
    BY <1>12, <1>17, Zenon
<1> QED
  BY <1>14, <1>18, <1>19, <1>20

\* The steps together.
RegInv == LockInv /\ DataInv

\* No request and no account at first.
LEMMA RegStart == ASSUME G!Init PROVE RegInv
<1>1. /\ DOMAIN rq = Procs /\ \A p \in Procs : rq[p] = G!Idle
  BY DEF G!Init
<1>2. DOMAIN G!Idle = {"pc", "cmd", "want"} /\ G!Idle.pc = "idle"
  BY Zenon DEF G!Idle
<1>3. held = {} /\ accounts = <<>> /\ receipts = [k \in G!Keys |-> None]
  BY DEF G!Init
<1>4. LockInv
  <2>1. Shape(G!Idle) /\ \A l : ~Owns(G!Idle, l)
    BY <1>2 DEF Shape, Owns, Active
  <2> QED
    BY <1>1, <1>3, <2>1, Zenon DEF LockInv
<1>5. accounts \in Seq({G!AccountGraph(c) : c \in Requests}) /\ DOMAIN accounts = {}
  BY <1>3
<1>6. receipts \in [G!Keys -> {None} \cup Receipt]
  BY <1>3
<1>7. "idle" # "commit" /\ "idle" \notin Active
  BY DEF Active
<1>8. DataInv
  BY <1>1, <1>2, <1>5, <1>6, <1>7, Zenon DEF DataInv, AccountsDistinct
<1> QED
  BY <1>4, <1>8 DEF RegInv

\* Every step.
LEMMA RegStep ==
    ASSUME RegInv, RankAssumption, None \notin Receipt, [G!Next]_(G!regVars)
    PROVE  RegInv'
<1>1. LockInv'
  BY LocksStep, Zenon DEF RegInv
<1>2. DataInv'
  <2>1. CASE UNCHANGED G!regVars
    <3>1. rq' = rq /\ accounts' = accounts /\ receipts' = receipts
      BY <2>1 DEF G!regVars
    <3> QED
      BY <3>1, Zenon DEF RegInv, DataInv, AccountsDistinct, NotLive, G!Taken
  <2>2. CASE \E k \in G!Keys : G!Expire(k)
    BY <2>2, DataExpire, Zenon DEF RegInv
  <2>3. ASSUME NEW p \in Procs,
               \/ \E r \in Requests : G!Send(p, r)
               \/ G!Claim(p) \/ G!LockIdentifier(p) \/ G!Check(p) \/ G!CommitAccount(p) \/ G!Rollback(p)
        PROVE  DataInv'
    BY <2>3, DataBefore, DataCommit, Zenon DEF RegInv
  <2> QED
    BY <2>1, <2>2, <2>3, Zenon DEF G!Next
<1> QED
  BY <1>1, <1>2 DEF RegInv

\* For every number of concurrent registrations: two of them past their checks
\* never share a name or an email, no two accounts do, and registrations never
\* wait for each other in a circle (acquire_transaction_locks, create_account).
THEOREM RegistrationSound ==
    ASSUME RankAssumption, None \notin Receipt
    PROVE  G!Spec => [](G!ChecksDecide /\ AccountsDistinct /\ G!NoWaitCycle)
<1>1. G!Init => RegInv
  BY RegStart
<1>2. RegInv /\ [G!Next]_(G!regVars) => RegInv'
  BY RegStep
<1>3. RegInv => G!ChecksDecide /\ AccountsDistinct /\ G!NoWaitCycle
  <2> SUFFICES ASSUME RegInv PROVE G!ChecksDecide /\ AccountsDistinct /\ G!NoWaitCycle
    OBVIOUS
  <2>1. LockInv /\ AccountsDistinct
    BY Zenon DEF RegInv, DataInv
  <2>2. G!ChecksDecide
    BY <2>1, Disjoint, Zenon DEF G!ChecksDecide
  <2> QED
    BY <2>1, <2>2, NoCircle, Zenon
<1> QED
  BY <1>1, <1>2, <1>3, PTL DEF G!Spec

-----------------------------------------------------------------------------
(* Registration: repeated requests.                                        *)

\* A client uses an idempotency key for one request.
KeyAssumption == \A r, s \in Requests : r.key = s.key => r = s

Told == "taken by itself"

\* Who was told that its own identifiers are taken has an account, and its
\* receipt has expired for good.
OwnInv ==
    \A k \in G!Keys : <<k, Told>> \in answers =>
        /\ receipts[k] # None /\ NotLive(k)
        /\ \E i \in DOMAIN accounts : accounts[i].by = k

\* What is left to show when nothing is committed.
LEMMA OwnKept ==
    ASSUME OwnInv, UNCHANGED <<accounts, receipts>>,
           \A k \in G!Keys : <<k, Told>> \in answers' /\ <<k, Told>> \notin answers =>
             receipts[k] # None /\ NotLive(k) /\ \E i \in DOMAIN accounts : accounts[i].by = k
    PROVE  OwnInv'
<1>1. accounts' = accounts /\ receipts' = receipts
  OBVIOUS
<1> SUFFICES ASSUME NEW k \in G!Keys, <<k, Told>> \in answers'
             PROVE  receipts'[k] # None /\ NotLive(k)' /\ \E i \in DOMAIN accounts' : accounts'[i].by = k
  BY Zenon DEF OwnInv, Told
<1>2. receipts[k] # None /\ NotLive(k) /\ \E i \in DOMAIN accounts : accounts[i].by = k
  BY Zenon DEF OwnInv
<1> QED
  BY <1>1, <1>2, Zenon DEF NotLive

\* Of the answers, only the one of a lookup says so.
LEMMA AnswerTold ==
    ASSUME NEW p \in Procs, NEW a, G!Answer(p, a)
    PROVE  \A k : <<k, Told>> \in answers' => <<k, Told>> \in answers \/ (k = rq[p].cmd.key /\ a = Told)
BY DEF G!Answer

\* An answer with the account does not.
LEMMA AccountAnswer ==
    ASSUME NEW p \in Procs, G!Answer(p, "account"), NEW k, <<k, Told>> \in answers'
    PROVE  <<k, Told>> \in answers
BY DEF G!Answer, Told

\* Appending keeps what is there.
LEMMA AppendKeeps ==
    ASSUME NEW S, NEW log \in Seq(S), NEW e
    PROVE  \A i \in DOMAIN log : i \in DOMAIN Append(log, e) /\ Append(log, e)[i] = log[i]
OBVIOUS

\* An account tells its request's key and name.
LEMMA AccountTells ==
    ASSUME NEW d, NEW a, a = G!AccountGraph(d)
    PROVE  a.by = d.key /\ a.name = d.name
BY DEF G!AccountGraph

\* Every step.
LEMMA OwnStep ==
    ASSUME RegInv, OwnInv, KeyAssumption, None \notin Receipt, [G!Next]_(G!regVars)
    PROVE  OwnInv'
<1>1. ASSUME UNCHANGED <<accounts, receipts>>, answers' = answers PROVE OwnInv'
  BY <1>1, OwnKept, Zenon
<1>2. ASSUME NEW p \in Procs, G!Claim(p) PROVE OwnInv'
  <2>1. UNCHANGED <<accounts, receipts>> /\ (G!Answer(p, "account") \/ answers' = answers) /\ "account" # Told
    BY <1>2 DEF G!Claim, Told
  <2>2. \A k : <<k, Told>> \in answers' => <<k, Told>> \in answers
    BY <2>1, AnswerTold
  <2> QED
    BY <2>1, <2>2, OwnKept, Zenon
<1>3. ASSUME NEW p \in Procs, G!Check(p) PROVE OwnInv'
  <2>1. UNCHANGED <<accounts, receipts>> /\ rq[p].pc \in Active
    BY <1>3, Zenon DEF G!Check, Active
  <2>2. CASE answers' = answers
    BY <2>1, <2>2, <1>1, Zenon
  <2>3. CASE answers' # answers
    <3>1. PICK a : /\ G!Answer(p, a)
                   /\ a = IF \E i \in DOMAIN accounts : accounts[i].by = rq[p].cmd.key
                          THEN "taken by itself" ELSE "unavailable"
      BY <1>3, <2>3, Zenon DEF G!Check
    <3>2. a = Told => \E i \in DOMAIN accounts : accounts[i].by = rq[p].cmd.key
      BY <3>1, Zenon DEF Told
    <3>3. NotLive(rq[p].cmd.key) /\ \A i \in DOMAIN accounts : receipts[accounts[i].by] # None
      BY <2>1, Zenon DEF RegInv, DataInv
    <3>4. a = Told => receipts[rq[p].cmd.key] # None
      BY <3>2, <3>3, Zenon
    <3>5. \A k : <<k, Told>> \in answers' => <<k, Told>> \in answers \/ (k = rq[p].cmd.key /\ a = Told)
      BY <3>1, Zenon DEF G!Answer
    <3> QED
      BY <2>1, <3>2, <3>3, <3>4, <3>5, OwnKept, Zenon
  <2> QED
    BY <2>2, <2>3
<1>4. ASSUME NEW p \in Procs, G!CommitAccount(p) PROVE OwnInv'
  <2>1. PICK c, n, a : c = rq[p].cmd /\ n = Len(accounts) + 1 /\ a = G!AccountGraph(c)
    OBVIOUS
  <2>2. /\ rq[p].pc = "commit" /\ accounts' = Append(accounts, a)
        /\ receipts' = [receipts EXCEPT ![c.key] = [account |-> n, live |-> TRUE]]
        /\ (G!Answer(p, "account") \/ answers' = answers) /\ "account" # Told
    BY <1>4, <2>1, Zenon DEF G!CommitAccount, G!CompleteRegistration, Told
  <2>3. /\ c \in Requests /\ ~G!Taken(c) /\ receipts \in [G!Keys -> {None} \cup Receipt]
        /\ accounts \in Seq({G!AccountGraph(d) : d \in Requests})
    BY <2>1, <2>2, Zenon DEF RegInv, LockInv, Shape, DataInv
  <2>4. \A i \in DOMAIN accounts : i \in DOMAIN accounts' /\ accounts'[i] = accounts[i]
    BY <2>2, <2>3, AppendKeeps, Zenon
  <2>5. ASSUME NEW i \in DOMAIN accounts, accounts[i].by = c.key PROVE FALSE
    <3>1. PICK d \in Requests : accounts[i] = G!AccountGraph(d)
      BY <2>3
    <3>2. d.key = c.key /\ accounts[i].name = d.name
      BY <2>5, <3>1, AccountTells, Zenon
    <3>3. d = c
      BY <2>3, <3>2, Zenon DEF KeyAssumption
    <3> QED
      BY <2>3, <3>2, <3>3, Zenon DEF G!Taken
  <2> SUFFICES ASSUME NEW k \in G!Keys, <<k, Told>> \in answers'
               PROVE  receipts'[k] # None /\ NotLive(k)' /\ \E i \in DOMAIN accounts' : accounts'[i].by = k
    BY Zenon DEF OwnInv, Told
  <2>6. <<k, Told>> \in answers
    <3>1. CASE G!Answer(p, "account")
      BY <3>1, AccountAnswer
    <3>2. CASE answers' = answers
      BY <3>2, Zenon
    <3> QED
      BY <2>2, <3>1, <3>2, Zenon
  <2>7. receipts[k] # None /\ NotLive(k) /\ \E i \in DOMAIN accounts : accounts[i].by = k
    BY <2>6, Zenon DEF OwnInv
  <2>8. k # c.key
    BY <2>5, <2>7, Zenon
  <2>9. receipts'[k] = receipts[k]
    BY <2>2, <2>3, <2>8, Zenon
  <2> QED
    BY <2>4, <2>7, <2>9, Zenon DEF NotLive
<1>5. ASSUME NEW k \in G!Keys, G!Expire(k) PROVE OwnInv'
  <2>1. accounts' = accounts /\ answers' = answers
    BY <1>5 DEF G!Expire
  <2>2. \A j \in G!Keys : (receipts[j] # None => receipts'[j] # None) /\ (NotLive(j) => NotLive(j)')
    BY <1>5, DataExpire, Zenon DEF RegInv
  <2> SUFFICES ASSUME NEW j \in G!Keys, <<j, Told>> \in answers'
               PROVE  receipts'[j] # None /\ NotLive(j)' /\ \E i \in DOMAIN accounts' : accounts'[i].by = j
    BY Zenon DEF OwnInv, Told
  <2>3. receipts[j] # None /\ NotLive(j) /\ \E i \in DOMAIN accounts : accounts[i].by = j
    BY <2>1, Zenon DEF OwnInv
  <2> QED
    BY <2>1, <2>2, <2>3, Zenon
<1>6. ASSUME NEW p \in Procs, (\E r \in Requests : G!Send(p, r)) \/ G!LockIdentifier(p) \/ G!Rollback(p) PROVE OwnInv'
  <2>1. UNCHANGED <<accounts, receipts>> /\ answers' = answers
    BY <1>6 DEF G!Send, G!LockIdentifier, G!Rollback
  <2> QED
    BY <2>1, <1>1, Zenon
<1>7. CASE UNCHANGED G!regVars
  <2>1. UNCHANGED <<accounts, receipts>> /\ answers' = answers
    BY <1>7 DEF G!regVars
  <2> QED
    BY <2>1, <1>1, Zenon
<1> QED
  BY <1>2, <1>3, <1>4, <1>5, <1>6, <1>7, Zenon DEF G!Next

\* A client that repeats its registration is never told that its own name or
\* email is taken while its receipt lives (claim_registration).
THEOREM OwnNameKept ==
    ASSUME RankAssumption, KeyAssumption, None \notin Receipt
    PROVE  G!Spec => []G!OwnNameNeverTaken
<1>1. G!Init => RegInv /\ OwnInv
  <2> SUFFICES ASSUME G!Init PROVE RegInv /\ OwnInv
    OBVIOUS
  <2>1. answers = {}
    BY DEF G!Init
  <2> QED
    BY <2>1, RegStart, Zenon DEF OwnInv
<1>2. (RegInv /\ OwnInv) /\ [G!Next]_(G!regVars) => (RegInv /\ OwnInv)'
  BY RegStep, OwnStep
<1>3. RegInv /\ OwnInv => G!OwnNameNeverTaken
  BY Zenon DEF OwnInv, NotLive, Told, G!OwnNameNeverTaken
<1> QED
  BY <1>1, <1>2, <1>3, PTL DEF G!Spec

=============================================================================

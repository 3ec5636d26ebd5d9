--------------------------- MODULE OutboxLiveness ---------------------------
(***************************************************************************)
(* Every committed delivery is eventually settled, once failures stop and  *)
(* the processes keep up with the clock.                                   *)
(***************************************************************************)
EXTENDS Outbox

CONSTANT StableTime  \* from here on work is done before the clock advances

ASSUME StableTimeAssumption == StableTime \in Nat

\* Work that a running relay or worker does without waiting for the clock.
WorkIsPending ==
  \/ \E r \in Relays : relay[r].pc # "idle"
  \/ \E k \in Workers : worker[k].pc # "idle"
  \/ stream # {}
  \/ Due(now) # {}
  \/ Exhausted(now) # {}

Settled(d) ==
  \/ delivery[d].status \in {"succeeded", "dead"}
  \/ \E prior \in DeliveryIds :
       /\ delivery[prior].status = "dead"
       /\ Lane(prior) = Lane(d)
       /\ prior[1] < d[1]

\* A poll that finds nothing changes nothing; after StableTime it is left out.
Poll(r) ==
  /\ ClaimBegin(r)
  /\ now >= StableTime => WorkIsPending

\* After StableTime the clock waits for the work, and only runs while some
\* delivery depends on it.
TimelyTick ==
  /\ Tick
  /\ now >= StableTime =>
       /\ ~WorkIsPending
       /\ \E d \in DeliveryIds : Visible(d) /\ ~Settled(d)

TimelyNext ==
  /\ Next
  /\ now' # now => TimelyTick
  /\ \A r \in Relays : ClaimBegin(r) => Poll(r)

\* The steps a relay takes by itself. _run_relay_loop polls at least every
\* poll_interval, whether or not a notification arrives.
RelayProgress(r) ==
  \/ Poll(r)
  \/ Claim(r)
  \/ StartChunk(r)
  \/ \E ref \in relay[r].chunk : Enqueue(r, ref)
  \/ RecordBegin(r)
  \/ RecordOutcomes(r)
  \/ RecordCancelled(r)
  \/ Release(r)

\* A handler terminates: it succeeds or raises.
WorkerProgress(k) ==
  \/ \E ref \in stream : Receive(k, ref)
  \/ StartHandler(k)
  \/ DiscardStale(k)
  \/ Succeed(k)
  \/ Fail(k)
  \/ RecordFailure(k)

Fairness ==
  /\ \A r \in Relays : WF_vars(RelayProgress(r))
  /\ \A k \in Workers : WF_vars(WorkerProgress(k))
  /\ WF_vars(TimelyTick)

TimelySpec == Init /\ [][TimelyNext]_vars /\ Fairness
=============================================================================

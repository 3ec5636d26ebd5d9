------------------------------ MODULE MCOutbox ------------------------------
(* One instance of the outbox, explored in two slices of its behaviours, and *)
(* two instances with other constants over variables of their own, checked   *)
(* as the parts of one state space.                                          *)
EXTENDS Outbox, TLC

CONSTANTS p1, p2,  \* two interchangeable processes of the part's contested kind
  None

VARIABLES part, now2, position2, writer2, delivery2, relay2, stream2, worker2,
          applied2, checkpoint2, faults2

vars2 == <<now2, position2, writer2, delivery2, relay2, stream2, worker2,
           applied2, checkpoint2, faults2>>

\* Two of the four lane keys collide.
MCLockKey(c, p) ==
  CASE c = "ranking" /\ p = "user"  -> 1
    [] c = "activity" /\ p = "user" -> 2
    [] c = "ranking" /\ p = "chart" -> 2
    [] OTHER                        -> 3

\* Concurrent application transactions over lanes whose lock keys collide.
A == INSTANCE Outbox WITH
  Writers <- {p1, p2}, Relays <- {}, Workers <- {},
  Consumers <- {"ranking", "activity"}, Partitions <- {"user", "chart"},
  LockKey <- MCLockKey, BatchSize <- 1, EnqueueConcurrency <- 1,
  LeaseDuration <- 1, MaxRetryDelay <- 1, RelayMaxAttempts <- 1,
  WorkerMaxAttempts <- 1, MaxPosition <- 3, MaxTime <- 0, MaxFaults <- 0,
  now <- now2, position <- position2, writer <- writer2, delivery <- delivery2,
  relay <- relay2, stream <- stream2, worker <- worker2, applied <- applied2,
  checkpoint <- checkpoint2, faults <- faults2

\* Two relays over the deliveries of one event for two consumers, with a relay
\* that gives up earlier than the worker.
R == INSTANCE Outbox WITH
  Writers <- {"writer"}, Relays <- {p1, p2}, Workers <- {"worker"},
  Consumers <- {"ranking", "activity"}, Partitions <- {"user"},
  LockKey <- MCLockKey, BatchSize <- 2, EnqueueConcurrency <- 1,
  LeaseDuration <- 1, MaxRetryDelay <- 1, RelayMaxAttempts <- 1,
  WorkerMaxAttempts <- 2, MaxPosition <- 1, MaxTime <- 1, MaxFaults <- 1,
  now <- now2, position <- position2, writer <- writer2, delivery <- delivery2,
  relay <- relay2, stream <- stream2, worker <- worker2, applied <- applied2,
  checkpoint <- checkpoint2, faults <- faults2

\* Two writers append to one lane, nobody relays.
AppendSlice == UNCHANGED <<now, relay>>

\* Two workers and a relay over two events of one writer.
LaneSlice == \A w \in Writers \ {"writer"} : writer'[w] = writer[w]

NoSecond ==
  /\ now2 = None /\ position2 = None /\ writer2 = None /\ delivery2 = None /\ relay2 = None
  /\ stream2 = None /\ worker2 = None /\ applied2 = None /\ checkpoint2 = None /\ faults2 = None

MCInit ==
  /\ Init
  /\ \/ part \in {"append", "lane"} /\ NoSecond
     \/ part = "locks" /\ A!Init
     \/ part = "leases" /\ R!Init

MCNext ==
  \/ part = "append" /\ Next /\ AppendSlice /\ UNCHANGED <<part, vars2>>
  \/ part = "lane" /\ Next /\ LaneSlice /\ UNCHANGED <<part, vars2>>
  \/ part = "locks" /\ A!Next /\ UNCHANGED <<part, vars>>
  \/ part = "leases" /\ R!Next /\ UNCHANGED <<part, vars>>

MCSpec == MCInit /\ [][MCNext]_<<part, vars, vars2>>

ProcessSymmetry == Permutations({p1, p2})

\* Where processes compete: transactions that append one event never wait for
\* each other in a circle, for append_outbox_event sorts the lock keys of its
\* lanes; and two relays that lease the rows of two consumers leave them sound.
ContestedSound ==
  /\ part = "locks" => A!NoLockCycle
  /\ part = "leases" => R!DeliveriesSound
=============================================================================

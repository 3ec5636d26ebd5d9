SPECIFICATION MCSpec
CONSTANTS
  p1 = p1
  p2 = p2
  None = None
  Writers = {"writer", "other"}
  Relays = {"relay"}
  Workers = {p1, p2}
  Consumers = {"ranking"}
  Partitions = {"user"}
  LockKey <- MCLockKey
  BatchSize = 1
  EnqueueConcurrency = 1
  LeaseDuration = 1
  MaxRetryDelay = 1
  RelayMaxAttempts = 2
  WorkerMaxAttempts = 2
  MaxPosition = 2
  MaxTime = 2
  MaxFaults = 1
SYMMETRY ProcessSymmetry
CHECK_DEADLOCK FALSE
INVARIANTS TypeOK NoGap ContestedSound DeliveriesSound
PROPERTIES CommitOrder FinishedForever OrderedSpec

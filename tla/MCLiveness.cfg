SPECIFICATION PartsSpec
CONSTANTS
  None = None
  Writers = {w1}
  Relays = {r1}
  Workers = {k1}
  Consumers = {"ranking"}
  Partitions = {"user"}
  LockKey <- MCLockKey
  BatchSize = 1
  EnqueueConcurrency = 1
  LeaseDuration = 2
  MaxRetryDelay = 1
  RelayMaxAttempts = 2
  WorkerMaxAttempts = 2
  MaxPosition = 2
  StableTime = 1
  MaxTime = 10
  MaxFaults = 2
CHECK_DEADLOCK FALSE
PROPERTIES EventuallySettled EverySubmissionEnds RequestsAnswered GhostsVanish

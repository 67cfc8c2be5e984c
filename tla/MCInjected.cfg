SPECIFICATION InjectSpec
CONSTANTS
  NWorkers = 2
  Standby = 0
  ReplaceMaxAttempts = 1
  RefillMaxAttempts = 1
  FreshStates = {"up"}
  Faults = {"transient"}
  NTasks = 3
  BatchSize = 2
  MaxRetries <- MCRetries
  BadTasks = {2}
  Queries <- MCQueries
  DeciderShards = 2
  KeyHash <- MCKeyHash
INVARIANTS
  OutcomesReproducible

SPECIFICATION Spec
CONSTANTS
  NWorkers = 2
  Standby = 0
  ReplaceMaxAttempts = 3
  RefillMaxAttempts = 3
  FreshStates = {"up"}
  Faults = {"fatal"}
  NTasks = 4
  BatchSize = 2
  Retries = 2
  MaxRetries <- UniformRetries
  BadTasks = {}
INVARIANT OnlyWedgedEvicted

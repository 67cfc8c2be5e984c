SPECIFICATION Spec
CONSTANTS
  NWorkers = 2
  Standby = 0
  ReplaceMaxAttempts = 1
  RefillMaxAttempts = 1
  FreshStates = {"up"}
  Faults = {"crash"}
  NTasks = 2
  BatchSize = 2
  Retries = 1
  MaxRetries <- UniformRetries
  BadTasks = {}
INVARIANT RunReturns

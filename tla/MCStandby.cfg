SPECIFICATION Spec
CONSTANTS
  NWorkers = 2
  Standby = 2
  ReplaceMaxAttempts = 2
  RefillMaxAttempts = 2
  FreshStates = {"up"}
  Faults = {"fatal", "crash", "construct", "submit"}
  NTasks = 3
  BatchSize = 2
  Retries = 1
  MaxRetries <- UniformRetries
  BadTasks = {}
INVARIANTS
  ExactlyOnce
  StandbysAccounted
PROPERTIES
  NoCallToBadWorker

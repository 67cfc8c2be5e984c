SPECIFICATION MCSpec
CONSTANTS
  NWorkers = 2
  Standby = 0
  ReplaceMaxAttempts = 1
  RefillMaxAttempts = 1
  FreshStates = {"up"}
  Faults = {"transient", "wedge"}
  NTasks = 5
  BatchSize = 4
  Retries = 2
  MaxRetries <- UniformRetries
  BadTasks = {3}
INVARIANTS
  BatchmatesSurvive
  HalvesEveryFailure
  BudgetIsRuns

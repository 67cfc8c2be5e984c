SPECIFICATION FairSpec
CONSTANTS
  NWorkers = 2
  Standby = 0
  ReplaceMaxAttempts = 1
  RefillMaxAttempts = 1
  FreshStates = {"up"}
  Faults = {"transient", "crash", "wedge", "construct"}
  NTasks = 3
  BatchSize = 2
  Retries = 1
  MaxRetries <- UniformRetries
  BadTasks = {1}
INVARIANTS
  TypeOK
  DriverConsistent
  NoCallOnEmptySlot
  ExactlyOnce
  NeverIdleWithWork
PROPERTIES
  ImplementsLedger
  Terminates

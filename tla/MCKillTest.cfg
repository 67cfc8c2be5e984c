SPECIFICATION Spec
CONSTANTS
  T0 <- MCT0
  MaxTime = 3
  Second = 2
  Day = 20
  UtcOffset = 0
  Slack = 4
  Lead = 2
  RetrySizes = {1}
  Grace = 1
  DuringMax = 1
  RetryMax = 2
  MaxRows = 2
  MaxSamples = 2
  MaxFailures = 1
INVARIANTS
  TypeOK
  SamplesLag
  RecoveryBracketed
  PhasesAddUp
  RetriesOfKill
  InferredAfterKill

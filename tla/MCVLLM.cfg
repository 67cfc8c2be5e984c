SPECIFICATION Spec
CONSTANTS
  MaxCalls = 2
  BatchSizes = {2}
  Hooked = TRUE
INVARIANTS
  TypeOK
  DeadEngineFailsProbe
  HarmlessStaysHealthy
  NoOrphans
  CountersMatch
PROPERTY BatchAnswered

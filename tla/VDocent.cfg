SPECIFICATION Spec
CONSTANTS
  TaskIds = {1, 2, 3}
  ShardCounts = {2}
  Crc <- MCCrc
  Score <- MCScore
  Latency <- MCLatency
  Awarded <- MCAwarded
  Workers = {0, 1}
  ReservoirCap = 2
  Rank = 50
  MaxRuns = 1
  Crashes = FALSE
INVARIANT OneRunPerTask

SPECIFICATION Spec
CONSTANTS
  TaskIds = {1, 2, 3}
  ShardCounts = {1, 2}
  Crc <- MCCrc
  Score <- MCScore
  Latency <- MCLatency
  Awarded <- MCAwarded
  Workers = {0, 1}
  ReservoirCap = 2
  Rank = 50
  MaxRuns = 1
  Crashes = TRUE
INVARIANTS
  NothingLostInFlight
  DrainedIsDurable
  OutputExactlyOnce
  ReservoirSound
  SummaryIsOfResults
  PercentileIsNearestRank

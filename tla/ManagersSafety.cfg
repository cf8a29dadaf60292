SPECIFICATION FairSpec
CONSTANTS
  Broker = {b1, b2, b3}
  MaxLag = 1
  MaxReported = 3
  NoBroker = NoBroker
  NoReplica = NoReplica
  Key = {k1, k2}
  Length <- MCLength
  MaxSegmentSize = 2
  Window = 1
  MaxAppended = 2
  MaxNow = 2
  Task = {t1, t2}
  Batches <- MCBatches
  batch_size = 2
  max_size = 11
  NoBatch = NoBatch
  Peer = {p1, p2}
  Timeout = 2
  MaxClock = 3
  Component = {c1, c2}
  Threshold = 2
  MaxUpdates = 3
  NoBeat = NoBeat
  NoCheck = NoCheck
  Reader = {r1, r2}
  Second = 2
  Word = 16
  MaxTicks = 3
  MaxCount = 3
  bucket_bounds <- MCBounds
  Latency <- MCLatency
  MaxSamples = 4
  Percentile <- MCPercentile
INVARIANTS OneLeader PromisedIsKept EntriesExact AloneIsExact BreakerMatchesHistory RatesAddUp PercentileIsRanked
PROPERTIES DeadIsReported

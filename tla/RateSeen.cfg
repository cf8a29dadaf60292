SPECIFICATION MSpec
CONSTANTS
  Reader = {r1, r2}
  Second = 2
  Word = 16
  MaxTicks = 3
  MaxCount = 3
  bucket_bounds <- MCBounds
  Latency <- MCLatency
  MaxSamples = 4
  Percentile <- MCPercentile
PROPERTIES RateIsSeen

SPECIFICATION PFairSpec
CONSTANTS
  Message = {1, 2, 3}
  BatchSize <- MCBatchSize
  Publisher = {p1}
  flusher = flusher
  Forwarder = {f1}
  Consumer = {c1}
  ZeroCopyFails = TRUE
  MaxChannels = 2
  NoOffset = NoOffset
INVARIANTS   FifoHandOut
PROPERTIES PublishAnswered EveryMessageTaken StrandedStreamEnds

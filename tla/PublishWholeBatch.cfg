SPECIFICATION PSpec
CONSTANTS
  Message = {1, 2, 3}
  BatchSize <- MCBatchSize
  Publisher = {p1, p2}
  flusher = flusher
  Forwarder = {}
  Consumer = {c1}
  ZeroCopyFails = FALSE
  MaxChannels = 2
  NoOffset = NoOffset
PROPERTIES BatchStoredWhole

SPECIFICATION Spec
CONSTANTS
  t1 = t1
  t2 = t2
  c1 = c1
  small = small
  big = big
  Thread = {t1, t2}
  Consumer = {c1}
  Payload = {small, big}
  Large = {big}
  PayloadLen <- MCPayloadLen
  Policy <- MCPolicy
  DefaultPolicy <- MCKeepTwo
  MaxRead = 1
  DiskFaults = TRUE
  Time <- MCTime
  MaxOffset = 3
  MaxCrashes = 2
  NoThread = NoThread
  NoOffset = NoOffset
  NoEntry = NoEntry
SYMMETRY MCSymmetry
INVARIANTS WalInOrder OffsetNamesOneMessage QueueSizeAccurate QueueOffsetsFresh
PROPERTIES RemovalIsDeliberate SurvivesRestart

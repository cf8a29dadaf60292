SPECIFICATION FairSpec
CONSTANTS
  t1 = t1
  t2 = t2
  c1 = c1
  small = small
  big = big
  Thread = {t1, t2}
  Consumer = {c1}
  Payload = {small, big}
  Large = {}
  PayloadLen <- MCPayloadLen
  Policy <- MCPolicy
  DefaultPolicy <- MCKeepTwo
  MaxRead = 1
  DiskFaults = FALSE
  Time <- MCOneTime
  MaxOffset = 1
  MaxCrashes = 0
  NoThread = NoThread
  NoOffset = NoOffset
  NoEntry = NoEntry
PROPERTIES AppendReturns

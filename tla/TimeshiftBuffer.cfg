SPECIFICATION FairSpec
CONSTANTS
  a = a
  b = b
  ww = ww
  pa = pa
  pw = pw
  Tag <- MCTag
  Wild <- MCWild
  Covers <- MCCovers
  FilterOf <- MCFilterOf
  Order <- MCOrder
  Instance <- MCInstance
  Delays = {1}
  Shifts = {0, 2}
  Target = 1
  MaxAdaptive = 2
  GateCap = 1
  SlipGuard = 2
  CatchupLag = 1
  MaxAge = 1
  CleanupInterval = 0
  QueueLag = 1
  MaxPackets = 3
  MaxOps = 2
  MaxTime = 3
INVARIANTS TypeOK IndexInBuffer NothingSkipped DispatchedInOrder OneStream
PROPERTY CaughtUp

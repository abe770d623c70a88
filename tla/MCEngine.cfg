SPECIFICATION AllSpec
CONSTANTS
  a = a
  b = b
  ww = ww
  Sink = {s1, s2}
  Tag <- MCTag
  Wild <- MCWild
  Covers <- MCCovers
  Ops <- MCOps
  MaxInstances = 2
  MaxRings = 2
  Thread <- MCThreads
  CallsOf <- MCCallsOf
  Streams = {"t"}
  Captures = {"hw"}
  States <- MCStates
  MayFail = TRUE
  MaxApplies = 2
  MaxEvents = 1
SYMMETRY Symmetric
INVARIANTS InputsFed PlayedOnce StreamPlayed OnlyPassAndAttach 
CHECK_DEADLOCK FALSE

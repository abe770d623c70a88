SPECIFICATION Spec
CONSTANTS
  a = a
  b = b
  ww = ww
  Sink = {s1}
  Tag <- MCTag
  Wild <- MCWild
  Covers <- MCCovers
  Ops <- MCOps
  MaxInstances = 2
  MaxRings = 2
INVARIANT InputsAlive
CHECK_DEADLOCK FALSE

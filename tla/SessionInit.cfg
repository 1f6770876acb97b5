CONSTANTS
  Calls = {c1, c2}
  NoCall = NoCall
  ResendQueries = FALSE
  MaxResends = 1
  MaxPendingAcks = 1
  IdsPerSecond = 4
  Skew = 0
  FirstTimeDiff = 0
  MaxClock = 1
  MaxPackets = 1
  MaxDrops = 1
  MaxSalts = 1
  MaxResyncs = 0
SPECIFICATION Spec
SYMMETRY CallSymmetry
INVARIANTS InitBeforeQueries
CHECK_DEADLOCK FALSE

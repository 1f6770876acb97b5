CONSTANTS
  Calls = {c1}
  NoCall = NoCall
  ResendQueries = TRUE
  MaxResends = 1
  MaxPendingAcks = 1
  IdsPerSecond = 4
  Skew = 0
  FirstTimeDiff = 0
  MaxClock = 2
  MaxPackets = 2
  MaxDrops = 1
  MaxSalts = 1
  MaxResyncs = 1
SPECIFICATION FairSpec
INVARIANTS PendingIsLive
PROPERTIES NoEndlessWait AcksFlushed
CHECK_DEADLOCK FALSE

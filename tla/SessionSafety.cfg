CONSTANTS
  Calls = {c1, c2}
  NoCall = NoCall
  ResendQueries = TRUE
  MaxResends = 1
  MaxPendingAcks = 1
  IdsPerSecond = 4
  Skew = 0
  FirstTimeDiff = 0
  MaxClock = 1
  MaxPackets = 2
  MaxDrops = 1
  MaxSalts = 1
  MaxResyncs = 0
SPECIFICATION Spec
SYMMETRY CallSymmetry
INVARIANTS TypeOK NoQueryLost ReplyIsOwn AcksBounded SeqNoFollowsMsgId
PROPERTIES RpcSpec
CHECK_DEADLOCK FALSE

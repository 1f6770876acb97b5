CONSTANTS
  d1 = d1
  d2 = d2
  d3 = d3
  d4 = d4
  DCs = {d1, d2, d3, d4}
  NoDc = NoDc
  DefaultDc = d1
  HomeDc = d2
  MaxDrops = 2
  MaxTransferDrops = 1
  MaxRestarts = 2
  MaxLogOuts = 1
SPECIFICATION FairSpec
INVARIANTS TypeOK FileRestartable SignedInIsTrue TransferIsRight
PROPERTIES ReadyOnceWithKeys StartEnds SignInCompletes
CHECK_DEADLOCK FALSE

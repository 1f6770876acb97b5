CONSTANTS
  a = a
  b = b
  Clients = {a, b}
  Creator = a
  MaxTexts = 2
  MaxMessages = 5
  MaxDisturbances = 3
SPECIFICATION FairSpec
INVARIANTS TypeOK NoneRefused ResendsNeedLoss
PROPERTIES ChannelSpec TextsAreShown
CHECK_DEADLOCK FALSE

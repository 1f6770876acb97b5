CONSTANTS
  c1 = c1
  c2 = c2
  Chats = {c1, c2}
  NoChat = NoChat
  MaxRequests = 3
  MaxDisturbances = 1
SPECIFICATION FairSpec
INVARIANTS TypeOK FaultsNeedDiscard KeysAgree FileIsCurrent
PROPERTIES RequestsAreAccepted
CHECK_DEADLOCK FALSE

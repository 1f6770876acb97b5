CONSTANTS
  d1 = d1
  d2 = d2
  u1 = u1
  dc1 = dc1
  dc2 = dc2
  Downloads = {d1, d2}
  Uploads = {u1}
  Thumbs = {}
  DCs = {dc1, dc2}
  WorkingDc = dc1
  TransferDcs = {dc2}
  Length <- MCLength
  DcNum <- MCDcNum
  SizedDownloads = {d1, d2}
  Parts = 1
  MaxDrops = 1
  MaxUnanswered = 0
  MaxMigrations = 1
  MaxRenames = 0
  MaxOffline = 1
SPECIFICATION Spec
INVARIANTS TypeOK UsedSessionsAreOpen IdleCountsAreZero DownloadsAreOwn
CHECK_DEADLOCK FALSE

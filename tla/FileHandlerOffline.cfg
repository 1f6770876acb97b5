CONSTANTS
  d1 = d1
  d2 = d2
  u1 = u1
  dc1 = dc1
  dc2 = dc2
  Downloads = {d1, d2}
  Uploads = {u1}
  Thumbs = {}
  DCs = {dc1, dc2}
  WorkingDc = dc1
  TransferDcs = {}
  Length <- MCLength
  DcNum <- MCDcNum
  SizedDownloads = {d2}
  Parts = 1
  MaxDrops = 2
  MaxUnanswered = 0
  MaxMigrations = 0
  MaxRenames = 0
  MaxOffline = 2
SPECIFICATION Spec
INVARIANTS RequestFindsFile
CHECK_DEADLOCK FALSE

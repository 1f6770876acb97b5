CONSTANTS
  d1 = d1
  d2 = d2
  u1 = u1
  dc1 = dc1
  dc2 = dc2
  Downloads = {d2}
  Uploads = {u1}
  Thumbs = {u1}
  DCs = {dc1, dc2}
  WorkingDc = dc1
  TransferDcs = {}
  Length <- MCLength
  DcNum <- MCDcNum
  SizedDownloads = {}
  Parts = 2
  MaxDrops = 2
  MaxUnanswered = 2
  MaxMigrations = 1
  MaxRenames = 1
  MaxOffline = 1
SPECIFICATION Spec
INVARIANTS MediaIsAnswered
PROPERTIES UploadsComplete
CHECK_DEADLOCK FALSE

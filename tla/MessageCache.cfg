CONSTANTS
  g = g
  s = s
  Groups = {g}
  Secrets = {s}
  NoDialog = NoDialog
  MaxTexts = 2
  MaxDeletions = 2
  MaxEvents = 3
SPECIFICATION FairSpec
INVARIANTS TypeOK FaultsNeedForgetting CacheIsStored MarksAreWorkedOff
PROPERTIES DeletionEnds
CHECK_DEADLOCK FALSE

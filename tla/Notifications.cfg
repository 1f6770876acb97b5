SPECIFICATION FairSpec
CONSTANTS
  Dialogs = {d1, d2}
  NoDialog = NoDialog
  MaxMessages = 3
  MaxEvents = 3
INVARIANTS TypeOK FaultNeedsCleanUp
PROPERTY ReadIsClosed
CHECK_DEADLOCK FALSE

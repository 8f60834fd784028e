SPECIFICATION FairSpec
CONSTANTS
  Thread = {t1, t2, t3}
  LateThread = {t3}
  MaxSignals = 0
  LibcLocks = TRUE
  None = None
PROPERTIES
  LibraryFinishes
CHECK_DEADLOCK FALSE

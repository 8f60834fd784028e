SPECIFICATION FairSpec
CONSTANTS
  Thread = {t1, t2, t3}
  LateThread = {t3}
  MaxSignals = 1
  LibcLocks = TRUE
  None = None
INVARIANTS
  TypeOK
  SeenThreadsPaused
  OnlyTidDiverted
  ClaimedMeansInserted
PROPERTIES
  SessionEnds
  HijackEnds
  TargetResumes
CHECK_DEADLOCK FALSE

SPECIFICATION Spec
CONSTANTS
  Thread = {t1, t3}
  LateThread = {t3}
  MaxSignals = 0
  LibcLocks = FALSE
  None = None
INVARIANTS
  AllThreadsPaused
CHECK_DEADLOCK FALSE

SPECIFICATION Spec
CONSTANTS
  MaxRuns = 2
  MaxBuilds = 2
  None = None
  Torn = Torn
INVARIANTS
  TypeOK
  NothingStaleInserted
  OneBinary
  Consistent
  ContOptInputs
PROPERTIES
  PanicsBeforePause
CHECK_DEADLOCK FALSE

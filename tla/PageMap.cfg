SPECIFICATION Spec
CONSTANTS
  PageSize = 4
  NumPages = 15
  FileSets <- MCFileSets
  Layouts <- MCLayouts
  MaxHeap = 8
INVARIANTS
  TypeOK
  CopyNeverFaults
  ExitJustified
  BoltedExecutable
PROPERTIES
  TargetKeepsAccess
CHECK_DEADLOCK FALSE

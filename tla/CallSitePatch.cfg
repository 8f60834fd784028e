SPECIFICATION PatchSpec
CONSTANTS
  Radix = 16
  NextAddr <- MCNextAddr
  Callee <- MCCallee
  MovedTo <- MCMovedTo
INVARIANTS
  RecordsCallee
  PatchReachesMovedFunction

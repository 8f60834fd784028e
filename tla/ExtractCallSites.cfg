SPECIFICATION FairSpec
CONSTANTS
  Radix = 16
  N = 3
  Binaries <- MCBinaries
  Call <- MCCall
  Target <- MCTarget
  Plt <- MCPlt
  ShortName <- MCShort
  ObjdumpMayFail = TRUE
INVARIANTS
  EveryFunctionOnce
  CallersComplete
PROPERTIES
  Produces
CHECK_DEADLOCK FALSE

SPECIFICATION FairSpec
CONSTANTS
  LibPathLen = 27
  PathLens = {79, 80, 81}
  CleanHeap = TRUE
  MaxChild = 2
  None = None
INVARIANTS
  LibAddrIsTarget
  SenderFindsLibrary
  DoneMeansInserted
PROPERTIES
  LibAddrArrives
  HandshakeEnds
CHECK_DEADLOCK FALSE

SPECIFICATION Spec
CONSTANTS
  NumClients = 4
  Calls <- MCCalls
  Jobs = 2
  NUM_PERF_DATA = 2
  NUM_PERF2BOLT_IN_PARALLEL = 2
  MaxKills = 1
INVARIANTS
  RunsFinishedBinary
  NothingFinishedLost
  ProfilesDistinct
  NoPerfUnderPerf
PROPERTIES
  EveryCompilerRuns
  BoltAnnounced
CHECK_DEADLOCK FALSE

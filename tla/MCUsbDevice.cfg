CONSTANTS
  Configurations <- DeviceConfigurations
  RingSize = 6
  MapSize = 2
  Waiters = 2
  Keys = {"a", "b"}
  Moves = {1, 2}
  Sizes <- PoolSizes
  PoolStart = 4
  kMemoryPoolSize = 80
SPECIFICATION FairSpec
INVARIANTS SetupStageFound OneReportAsked PoolBlocksOK
PROPERTIES NotifiedOnce KeepsAsking
\* An unplugged device answers no more.
CHECK_DEADLOCK FALSE

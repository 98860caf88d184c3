SPECIFICATION FairSpec
CONSTANTS
  MaxRuns = 2
  MaxBlocks = 2
  MaxAbandons = 1
INVARIANTS
  TypeOK
  NoPanic
  BlocksInOrder
  WritesOnlyToIdle
  NoneMeansEnd
PROPERTIES
  CallsReturn
CHECK_DEADLOCK FALSE

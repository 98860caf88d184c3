SPECIFICATION FairSpec
CONSTANTS
  p1 = p1
  p2 = p2
  NoPoints = NoPoints
  Points <- MCPoints
  MaxCalls = 3
  MaxAbandons = 1
INVARIANTS
  TypeOK
  NoPanic
  OwnAnswer
  RollsInOrder
  WritesOnlyToIdle
PROPERTIES
  CallsReturn
CHECK_DEADLOCK FALSE

SPECIFICATION Spec
CONSTANTS
  p1 = p1
  p2 = p2
  NoPoints = NoPoints
  Points <- MCPoints
  MaxCalls = 2
  MaxAbandons = 1
INVARIANTS
  IntersectToTake
CHECK_DEADLOCK FALSE

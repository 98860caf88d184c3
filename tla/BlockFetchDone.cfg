SPECIFICATION Spec
CONSTANTS
  MaxRuns = 2
  MaxBlocks = 1
  MaxAbandons = 0
INVARIANTS
  DoneTellsServer
CHECK_DEADLOCK FALSE

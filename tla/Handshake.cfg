SPECIFICATION FairSpec
CONSTANTS
  VersionLists <- MCVersionLists
  Magics = {1, 2}
  MaxAbandons = 2
INVARIANTS
  TypeOK
  Agreement
  FailsForAReason
  OneRound
PROPERTIES
  BothEnd
CHECK_DEADLOCK FALSE

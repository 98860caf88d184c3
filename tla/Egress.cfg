SPECIFICATION FairSpec
CONSTANTS
  Lens <- MCLens
  Modulus = 3
  HeaderLen = 2
  MaxSends = 3
  MaxAbandons = 2
INVARIANTS
  TypeOK
  ReceivedAsSent
PROPERTIES
  SendEnds
CHECK_DEADLOCK FALSE

SPECIFICATION Spec
CONSTANTS
  Lens <- ShortLens
  Modulus = 3
  HeaderLen = 2
  MaxSends = 2
  MaxAbandons = 0
INVARIANTS
  ExpectHolds
CHECK_DEADLOCK FALSE

SPECIFICATION Spec
CONSTANTS
  Bit <- MCBit
  Word32 <- MCWord32
  Word64 <- MCWord64
  Slots <- MCSlots
  Numbers <- MCNumbers
  Magics <- MCMagics
  Hashes = {"h", "k"}
  MaxPoints = 2
INVARIANTS
  TypeOK
  RoundTrip
  NeverMistaken
  Strict
  AcceptanceRead
  ParamsReadBack
CHECK_DEADLOCK FALSE

SPECIFICATION FairSession
CONSTANTS
  Protocols <- MCProtocols
  Lens <- MCLens
  HeaderLen = 2
  MaxFrames = 7
  MaxChannels = 3
  SingleThread = TRUE
  Programs <- MCPrograms
INVARIANTS
  SessionTypeOK
  OwnAnswers
  NeverTorn
PROPERTIES
  SessionEnds
CHECK_DEADLOCK FALSE

SPECIFICATION SessionSpec
CONSTANTS
  Protocols <- MCProtocols
  Lens <- MCLens
  HeaderLen = 2
  MaxFrames = 7
  MaxChannels = 3
  SingleThread = FALSE
  Programs <- MCPrograms
INVARIANTS
  HeadersAligned
CHECK_DEADLOCK FALSE

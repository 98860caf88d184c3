SPECIFICATION FairSpec
CONSTANTS
  Protocols <- MCProtocols
  Lens <- MCLens
  HeaderLen = 2
  MaxFrames = 1
  MaxChannels = 2
PROPERTIES
  EofIsReported
CHECK_DEADLOCK FALSE

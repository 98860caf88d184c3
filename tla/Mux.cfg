SPECIFICATION FairSpec
CONSTANTS
  Protocols <- MCProtocols
  Lens <- MCLens
  HeaderLen = 2
  MaxFrames = 2
  MaxChannels = 2
INVARIANTS
  TypeOK
  SendNeverFails
  RecvNeverFails
  OpenChannelHasReader
  FramesInOrder
  NoGarbage
  Gapless
PROPERTIES
  EventuallyDelivered
  ImplementsFifo
CHECK_DEADLOCK FALSE

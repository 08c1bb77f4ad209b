SPECIFICATION FairLinkSpec
CONSTANTS
  NumDescrs = 2
  BufSize = 2
  HdrSize = 2
  GarbageLen = 1
  Lens <- MCLens
  Spaced = TRUE
  MaxPackets = 4
INVARIANT NoFault
PROPERTIES ImplementsChannel EveryPacketArrives

SPECIFICATION FairLinkSpec
CONSTANTS
  NumDescrs = 2
  BufSize = 3
  HdrSize = 1
  FifoSize = 4
  Lens <- MCLens
  MaxPackets = 4
  MaxBreaks = 0
INVARIANT Framed
PROPERTIES ImplementsChannel EveryPacketArrives
CHECK_DEADLOCK FALSE

SPECIFICATION FairStallSpec
CONSTANTS
  NumDescrs = 2
  BufSize = 3
  HdrSize = 1
  FifoSize = 4
  Lens <- MCLens
  MaxPackets = 4
  MaxBreaks = 0
PROPERTY CardWillSend
CHECK_DEADLOCK FALSE

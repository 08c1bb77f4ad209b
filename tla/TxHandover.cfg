SPECIFICATION FairPatientSpec
CONSTANTS
  NumDescrs = 2
  BufSize = 3
  HdrSize = 1
  FifoSize = 4
  Lens <- MCLensFull
  MaxPackets = 3
  MaxBreaks = 1
INVARIANTS TypeOK SlotAgreement OneOutstanding SubmitsWhatWasAsked ReportedWasHandled
PROPERTY EveryCallReturns

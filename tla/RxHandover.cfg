SPECIFICATION Spec
CONSTANTS
  NumDescrs = 2
  BufSize = 2
  HdrSize = 2
  GarbageLen = 1
  Lens <- MCLens
  Spaced = FALSE
  MaxPackets = 3
INVARIANTS TypeOK SlotAgreement ReadsWhatWasPosted
PROPERTIES BufferStable CutShortIsPosted

SPECIFICATION FairSpec
CONSTANTS
  Bits <- MCBits
  MemSize = 3
  RomSize = 2
INVARIANTS TypeOK NoContention
PROPERTIES ImplementsMemory EveryCycleEnds

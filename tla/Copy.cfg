SPECIFICATION FairSpec
CONSTANTS
  Names <- MCNames
  Files <- MCFiles
  BaseOf <- MCBaseOf
  TagOf <- MCTagOf
  FileLen <- MCFileLen
  BlkSize = 2
  NoFile = NoFile
  NoName = NoName
  TxTimeouts = TRUE
  MaxCommands = 3
  MaxBreaks = 2
INVARIANTS TypeOK NothingLeftOpen
PROPERTIES ImplementsCopy ImplementsService TakesItsAnswer EveryCommandReturns
CHECK_DEADLOCK FALSE

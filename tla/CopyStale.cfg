SPECIFICATION AnySpec
CONSTANTS
  Names <- MCNames
  Files <- MCFiles
  BaseOf <- MCBaseOf
  TagOf <- MCTagOf
  FileLen <- MCFileLen
  BlkSize = 2
  NoFile = NoFile
  NoName = NoName
  TxTimeouts = FALSE
  MaxCommands = 2
  MaxBreaks = 0
PROPERTY CopyIsTrue
CHECK_DEADLOCK FALSE

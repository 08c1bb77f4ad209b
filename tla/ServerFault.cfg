SPECIFICATION CommandSpec
CONSTANTS
  Names <- MCNames
  Files <- MCFiles
  BaseOf <- MCBaseOf
  TagOf <- MCTagOf
  FileLen <- MCFileLen
  BlkSize = 2
  NoFile = NoFile
  HdrSize = 2
  RxBufSize = 5
  PortRooms = {3}
  Requests <- MCCommands
  MaxRequests = 2
  MaxBreaks = 0
INVARIANT NoFault
CHECK_DEADLOCK FALSE

SPECIFICATION FairSpec
CONSTANTS
  Names <- MCNames
  Files <- MCFiles
  BaseOf <- MCBaseOf
  TagOf <- MCTagOf
  FileLen <- MCFileLen
  BlkSize = 2
  NoFile = NoFile
  HdrSize = 2
  RxBufSize = 5
  PortRooms = {3, 4}
  Requests <- MCRequests
  MaxRequests = 3
  MaxBreaks = 1
INVARIANTS TypeOK NoFault DispatchesWhatWasSent AnswersAreRight
PROPERTIES EveryRequestAnswered ImplementsService
CHECK_DEADLOCK FALSE

SPECIFICATION FairSpec
CONSTANTS
  PageSize = 2
  RomPages <- MCRomPages
  AskedPages <- MCAskedPages
  ModulePages <- MCModulePages
  MaxResets = 1
  MaxRestarts = 1
INVARIANTS TypeOK ByteRight PipeInitFirst
PROPERTY EveryReadReturns

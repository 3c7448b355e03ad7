SPECIFICATION Spec
CONSTANTS
  Elements = 2
  Words = 2
  Tags = {0, 1}
  FifoLines = 1
  TabLines = 2
  PostDepth = 1
  InNum = 2
  BusDelay = 0
  MaxTransfers = 3
  Banks = 2
  LinesEachWay = 1
  Ways = 2
  Blocks = {0, 1, 2, 3, 4}
  Empty = Empty
  Configs <- AllConfigs
INVARIANTS TypeOK HeldOnce FetchedForALine
PROPERTIES EvictsOldest Served

SPECIFICATION Spec
CONSTANTS
  CL = 3
  AL = 0
  HalfBurst = 2
  tRAS = 5
  tRCD = 3
  tRRD = 2
  tRC = 7
  tRP = 2
  tCCD = 2
  tRTP = 2
  tWTR = 2
  tWR = 2
  tRTRS = 1
  tRFC = 5
  tFAW = 9
  tCKE = 2
  tXP = 2
  tCMD = 1
  TotalRowAccesses = 1
  TransactionSize = 1
  Empty = Empty
  Configs <- AllConfigs
INVARIANTS TypeOK NoFault SameAddressInOrder
PROPERTIES RefreshKept Completed

SPECIFICATION FairSpec
CONSTANTS
  CL = 5
  AL = 0
  BL = 8
  tRCD = 5
  tRRD = 4
  tRC = 20
  tRP = 5
  tCCD = 4
  tRTP = 4
  tWTR = 4
  tWR = 6
  tRTRS = 1
  tRFC = 64
  tFAW = 16
  tCMD = 1
  NumBanks = 2
  TransQueueDepth = 2
  CmdQueueDepth = 2
  RefreshCycles = 104
  Addrs <- ThreeRows
  MaxTransactions = 3
  FirstArrival = 97
  LastArrival = 105
INVARIANTS
  NoError
  NoRefreshLost
  OneDriver
PROPERTIES
  RefinesDevice

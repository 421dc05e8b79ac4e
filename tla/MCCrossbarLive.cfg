SPECIFICATION FairSpec
CONSTANTS
  CoreSize = 1
  ExtBase = 16
  MemSize = 2
  Trans = {t1, t2}
  Stages <- MCStages
  Sources <- MCSources
  Addrs <- PairAddrs
  MaxRequests = 2
INVARIANTS
  OwnMemory
PROPERTIES
  EveryRequestCompletes
CHECK_DEADLOCK FALSE

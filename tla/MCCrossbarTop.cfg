SPECIFICATION TopSpec
CONSTANTS
  CoreSize = 1
  ExtBase = 16
  MemSize = 2
  Trans = {t1, t2}
  Stages <- MCStages
  Sources <- MCSources
  Addrs <- ReuseAddrs
  MaxRequests = 3
INVARIANTS
  TopTypeOK
  AtMostOnce
  SourceRecorded
  AnswerAtItsNI
  NoStaleSource
PROPERTIES
  RefinesRouter
SYMMETRY Symmetry
CHECK_DEADLOCK FALSE

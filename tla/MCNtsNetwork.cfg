SPECIFICATION FairSpec
CONSTANTS
  Clk = 2
  MaxPackets = 5
  Flows <- MCFlows
  Unset <- Zeroed
INVARIANTS
  DeliveredOnce
  OneAtAPort
  WindowIndependent
  NoFasterThanAlone
  PoolSound
PROPERTIES
  NeverEarlier
  EveryPacketArrives
CHECK_DEADLOCK FALSE

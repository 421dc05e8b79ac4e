SPECIFICATION FairSpec
CONSTANTS
  Clk = 2
  MaxPackets = 4
  Flows <- HangFlows
  Unset <- Zeroed
PROPERTY NeverHung
CHECK_DEADLOCK FALSE

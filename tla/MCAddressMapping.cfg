SPECIFICATION MappingSpec
CHECK_DEADLOCK FALSE
CONSTANTS
  Devices <- MCDevices
  Unit = 2
  MaxAddress = 600
INVARIANTS
  MatchesLayout
  DramMapping

SPECIFICATION Spec
CONSTANTS
  DramClkFreqHz = 6
  CpuClkFreqsHz = {0, 1, 4, 5, 6, 9, 13}
  MaxUpdates = 30
INVARIANTS
  ClockTypeOK
  NoDrift
  CountersBounded
CHECK_DEADLOCK FALSE

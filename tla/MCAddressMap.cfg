SPECIFICATION MapSpec
CONSTANTS
  CoreSize = 2
  ExtBase = 36
  MemSize = 3
  MaxAddress = 50
INVARIANTS
  DecodeIsRegionSearch
  SentToAnsweringNI

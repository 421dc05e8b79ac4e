SPECIFICATION FairSpec
CONSTANTS
  Waits = {1}
  Delays = {2, 3}
  MaxRequests = 3
INVARIANTS
  InIssueOrder
  IssueTimeKept
  SleepsSafely
PROPERTIES
  EveryReadLogged
CHECK_DEADLOCK FALSE

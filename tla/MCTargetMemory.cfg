SPECIFICATION FairSpec
CONSTANTS
  Sources = {3, 7}
  Delays = {2, 4}
  m_read_latency = 2
  m_write_latency = 1
  MaxRequests = 3
INVARIANTS
  SleepsSafely
  AnswerIsDue
  AnsweredToSource
PROPERTIES
  AllForwarded
  AnsweredUnlessOverlapped

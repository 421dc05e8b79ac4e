SPECIFICATION FairSpec
CONSTANTS
  Sources = {3, 7}
  Delays = {2, 4}
  m_read_latency = 2
  m_write_latency = 1
  MaxRequests = 2
PROPERTIES
  EveryReadAnswered

SPECIFICATION FairSpec
CONSTANTS
  Segments = 4
  TCP_MSS = 2
  LastSize = 1
  TCP_WND = 3
  PBUF_POOL_SIZE = 3
  Batch = 2
  MaxOut = 5
  ConnectPolls = 1
  Tries = 3
  RecvPolls = 2
  MaxRequests = 2
  InFlight = 2
INVARIANTS PoolSound AnswerKept PcbKnown
PROPERTIES RequestReturns
CHECK_DEADLOCK FALSE

SPECIFICATION FairSpec
CONSTANTS
  Requests <- MCGoodRequests
  MaxRequests = 3
  k_max_msg = 3
  ErrSize = 1
  RcvCap = 4
  SndCap = 2
  Pipelining = TRUE
  Faults = {}
PROPERTIES
  GetsReplies
CHECK_DEADLOCK FALSE

SPECIFICATION Spec
CONSTANTS
  Requests <- MCRequests
  MaxRequests = 3
  k_max_msg = 3
  ErrSize = 1
  RcvCap = 4
  SndCap = 2
  Pipelining = TRUE
  Faults <- MCFaults
INVARIANTS
  TypeOK
  AssertsHold
  RepliesPending
  StreamsMatch
CHECK_DEADLOCK FALSE

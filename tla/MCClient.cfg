SPECIFICATION ClientSpec
CONSTANTS
  Requests <- MCRequests
  MaxRequests = 1
  k_max_msg = 8
  ErrSize <- MCErrSize
  k_max_args = 7
  RcvCap = 3
  SndCap = 3
  Pipelining = FALSE
  Faults <- MCFaults
INVARIANTS
  AnswerShown
  RequestUnderstood
PROPERTIES
  ClientEnds
CHECK_DEADLOCK FALSE

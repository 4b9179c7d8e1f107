SPECIFICATION Spec
CONSTANTS
  c1 = c1
  c2 = c2
  c3 = c3
  Conns <- MCConns
  Fds <- MCFds
  NULL = NULL
  ms = 1
  k_idle_timeout = 1
  MaxClock = 3
SYMMETRY MCSymmetry
INVARIANTS
  ConnsAccounted
  IdleListSorted
PROPERTIES
  NoIdleLeft
CHECK_DEADLOCK FALSE

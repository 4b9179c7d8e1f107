SPECIFICATION Spec
CONSTANTS
  a1 = a1
  a2 = a2
  a3 = a3
  k1 = k1
  k2 = k2
  v1 = v1
  v2 = v2
  Addrs <- MCAddrs
  Keys <- MCKeys
  Vals <- MCVals
  Names <- MCNames
  Scores <- MCScores
  Queries <- MCQueries
  Ttls <- MCTtls
  NoKey = NoKey
  Nil = Nil
  None = None
  USEC = 2
  Range64 = 5
  k_large_container_size = 0
  k_max_works = 1
  MaxClock = 2
SYMMETRY MCSymmetry
INVARIANTS
  TypeOK
  EntriesAccounted
PROPERTIES
  HandedOver
  TimersKeepUp
  ImplementsKVStore

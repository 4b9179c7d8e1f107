SPECIFICATION FairSpec
CONSTANTS
  Nodes <- MCNodes
  hcode <- MChcode
  a = a
  b = b
  c = c
  d = d
  e = e
  f = f
  NoKey = NoKey
  k_init_slots = 1
  k_resizing_work = 1
  k_max_load_factor = 1
INVARIANTS
  TypeOK
  TablesSound
  ScanInBounds
  ResizeKeepsAhead
  ScanMatchesSize
PROPERTIES
  ImplementsNodeSet
  CallsReturn

SPECIFICATION FairSpec
CONSTANTS
  t1 = t1
  t2 = t2
  t3 = t3
  w1 = w1
  w2 = w2
  w3 = w3
  w4 = w4
  Workers <- MCWorkers
  Works <- MCWorks
  Main = Main
  Nobody = Nobody
  NoWork = NoWork
INVARIANTS
  OneOwner
  PopNonEmpty
  WorkConserving
PROPERTIES
  ImplementsWorkQueue
  EveryWorkRuns

SPECIFICATION FairSpec
CONSTANTS
  NULL = NULL
  Nodes <- MCNodes
  Scores <- MCScores
  Queries <- MCQueries
INVARIANTS
  TreeSound
  Balanced
  IndexesAgree
  OffsetsAgree
PROPERTIES
  ImplementsTupleSet
  CallsReturn

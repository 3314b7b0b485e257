SPECIFICATION MCSpec
CONSTANTS
  Id = {1, 2, 3, 4}
  Wanted <- MCWanted
CHECK_DEADLOCK FALSE
INVARIANT ShortestIsShortest
INVARIANT QueriesAgree
PROPERTY QueryReadsOnly
PROPERTY SearchEnds
INVARIANT TextsUnderstood

SPECIFICATION FairSpec
CONSTANTS
  Id = {1, 2}
  Request <- MCFewRequests
  LogSize = 3
  EntriesPerBlock = 2
  EdgesPerBlock = 1
  AddrSpace = 100
  DevBlocks = 5
  MaxGeneration = 1
  Allowed = {}
INVARIANT TypeOK
INVARIANT NoSelfLoop
INVARIANT NoFutureGeneration
PROPERTY NewSuperBlockEmptiesLog
PROPERTY RecoveryExact
PROPERTY LoopsEnd

SPECIFICATION SpecAllowed
CONSTANTS
  Id = {1, 2}
  Request <- MCRequest
  LogSize = 3
  EntriesPerBlock = 2
  EdgesPerBlock = 2
  AddrSpace = 100
  DevBlocks = 6
  MaxGeneration = 2
  Allowed = {}
INVARIANT Durable
INVARIANT GraphUndirected
PROPERTY ImplementsDurableGraph

SPECIFICATION CheckpointingClientSpec
CONSTANTS
  Id = {1, 2}
  Request <- MCRequest
  LogSize = 2
  EntriesPerBlock = 2
  EdgesPerBlock = 2
  AddrSpace = 100
  DevBlocks = 4
  MaxGeneration = 1
  Allowed = {}
PROPERTY CheckpointMakesRoom

SPECIFICATION FairSpec
CONSTANTS
  Http = http
  Rpc = {rpc}
  Request <- MCRequest
  LogSize = 2
  EntriesPerBlock = 2
  MaxRequests = 4
CHECK_DEADLOCK FALSE
INVARIANT KeptUnlessRaced
INVARIANT SuperBlockSafe
INVARIANT TornDetected
 

SPECIFICATION MCSpec
CONSTANTS
    Request <- MCRequest
    Stale <- MCStale
    Files <- MCFiles
    Times <- MCTimes
    Sizes = {0, 3}
    MaxLevel = 2
 
INVARIANT HiddenNeverServed
 
INVARIANT RepliesHonest
 
PROPERTY ServeEnds

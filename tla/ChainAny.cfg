SPECIFICATION FairSpec
CONSTANTS
  N = 3
  Op = {r1, r2}
  Request <- NodeRequests
  Writers = {1, 2}
INVARIANT TypeOK
INVARIANT AppliedDownstream
PROPERTY Answered

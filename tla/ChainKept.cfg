SPECIFICATION SpecKept
CONSTANTS
  N = 3
  Op = {r1, r2, r3}
  Request <- EdgeRequests
  Writers = {1}
SYMMETRY OpSymmetry
INVARIANT ChainOrder
INVARIANT ReplicasAgree
PROPERTY AckedReplicated

SPECIFICATION Spec
CONSTANTS
  N = 2
  Op = {r1, r2, r3, r4}
  Request <- EdgeRequests
  Writers = {1}
PROPERTY AckedReplicated

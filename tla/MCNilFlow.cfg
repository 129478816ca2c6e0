SPECIFICATION Spec
CONSTANTS
  Graphs <- MCGraphs
  Blocks = {1, 2, 3, 4, 5}
  Nil = nil
  Obj = obj
  MaxInt = 1
INVARIANTS
  ClaimsHold
  ProofsAreExact
  NilArgumentIsReported

SPECIFICATION Spec
CONSTANTS
  Graphs <- MergeGraphs
  Blocks = {1, 2, 3, 4, 5}
  Nil = nil
  Obj = obj
  MaxInt = 1
INVARIANTS
  NilArgumentIsReported

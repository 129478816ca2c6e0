CONSTANTS
  a = a
  b = b
  Err = Err
  Drop = Drop
  Walks = {1, 2}
  MaxStages = 4
  LongestSource = 3
  Chains <- MCChains

SPECIFICATION Spec
INVARIANTS
  NoLateYield
  LazyIsEager
  PullsOnlyWhatItNeeds

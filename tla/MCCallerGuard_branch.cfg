SPECIFICATION Spec
CONSTANTS
  Nil = Nil
  Blank = Blank
  Names <- MCNames
  Values <- MCValues
  Contracts <- MCContracts
  Programs <- BranchPrograms
INVARIANTS
  DeadGuardIsDead

CONSTANTS
  NilV = NilV
  ObjV = ObjV
  X = X
  Y = Y
  Z = Z
  CY = CY
  BTrue = BTrue
  Nil = NilV
  Obj = ObjV
  Refs <- MCRefs
  Slots <- MCSlots
  SlotOf <- MCSlotOf
  SlotKind <- MCSlotKind
  Valuations <- MCValuations
  Tokens <- MCTokens
  Bools = {BTrue}
  Idents = {CY}
  ConstValue <- MCConstValue
  RuleLists <- MCRuleLists
  ReturnSites <- MCReturnSites
  CallSites <- MCCallSites
  Decls <- MCDecls
  Typed <- MCTyped
  ConstBlock <- MCConstBlock
SPECIFICATION Spec
INVARIANTS DerivedRulesFollow SiteReportsAreTrue BrokenRuleIsReported ChainsReachEverything SetReportsAreTrue EveryAxisOnce 

SPECIFICATION Spec
CONSTANTS
  Inputs = {90, 165}
  Operands = {0, 1, 128, 255}
  Digits = {0, 4, 5, 9}
INVARIANTS
  CpuTypeOK
  ArithmeticExact
  BranchesCompare
  BlockInstructions
  StackRestored
  PairsAgree
PROPERTIES
  ListingAgrees
CHECK_DEADLOCK FALSE

SPECIFICATION Spec
CONSTANTS
  Inputs = {90}
  Operands = {0}
  Digits = {0, 9}
INVARIANT
  DecimalCarry
CHECK_DEADLOCK FALSE

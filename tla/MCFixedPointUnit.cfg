SPECIFICATION Spec
CONSTANTS
  W = 7
  Operands <- MCOperands
  Shifts <- MCShifts
INVARIANTS ExactUnlessOverflow DpfIsPrecise OperatorsAreExact

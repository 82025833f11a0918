SPECIFICATION Spec
CONSTANT
  Shapes <- MissingOperand
INVARIANTS
  NoNullDereference
CHECK_DEADLOCK FALSE

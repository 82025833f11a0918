SPECIFICATION Spec
CONSTANT
  Shapes <- AllShapes
INVARIANTS
  ReportedIffRefused
  ParsesTheGrammar
PROPERTIES
  Terminates
CHECK_DEADLOCK FALSE

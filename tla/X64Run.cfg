SPECIFICATION RunSpec
CONSTANTS
  MaxScopes = 64
  Size <- BaseSizes
  Slot <- BaseSizes
  Gap = 8
  IntegerTypes = {"s8", "s64"}
  Bool = "bool"
  String = "string"
  Void = "void"
  Members = {"s64"}
  Signatures <- TwoWidths
  MaxNodes = 3
  Features = {}
INVARIANTS
  TypeOK
  AssertionsHold
  AccessesInBounds
  StoresSpareVariables
  CallFramesAgree
  RspAsCompiled
PROPERTIES
  EmitterSpec
CHECK_DEADLOCK FALSE

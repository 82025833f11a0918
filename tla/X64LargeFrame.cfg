SPECIFICATION RunSpec
CONSTANTS
  MaxScopes = 64
  Size <- Strings
  Slot <- Strings
  Gap = 8
  IntegerTypes = {}
  Bool = "bool"
  String = "string"
  Void = "void"
  Members = {}
  Signatures <- OnlyMain
  MaxNodes = 8
  Features = {}
CONSTRAINT DeclarationsOnly
INVARIANTS
  RspAsCompiled
CHECK_DEADLOCK FALSE

SPECIFICATION Spec
CONSTANTS
  MaxScopes = 64
  Size <- BaseSizes
  Slot <- Slots
  Gap <- ReturnAddressSize
  IntegerTypes = {"s8", "s64"}
  Bool = "bool"
  String = "string"
  Void = "void"
  Members = {"s64"}
  Signatures <- Functions
  MaxNodes = 4
  Features = {"widening_assignment", "widening_argument", "widening_initializer"}
INVARIANTS
  AssertionsHold
  AccessesArrive
  StoresSpareVariables
  CallFramesAgree
  JumpsAgree
CHECK_DEADLOCK FALSE

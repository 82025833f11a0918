SPECIFICATION MCSpec
CONSTANTS
  MaxScopes = 64
  Radix = 4
  Size <- Sizes
  IntegerTypes = {"s8", "u8", "u16", "s32", "s64", "u64"}
  Unsigned = {"u8", "u16", "u64"}
  Bool = "bool"
  String = "string"
  Void = "void"
  Members <- MembersOfStrings
  Functions <- SomeFunctions
  Main = "main"
  Scenarios <- SomeScenarios
PROPERTIES
  ComputesTheProgram
CHECK_DEADLOCK FALSE

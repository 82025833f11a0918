SPECIFICATION FairSpec
CONSTANTS
  Disks <- SomeDisks
  Main <- MainFile
  Targets <- AllTargets
  VmBase = 16777216
  NameSize = 5
INVARIANTS
  LoadsWhatIsReached
  CallsReachTheirFunction
  SymbolsCoverTheText
  StringsAreFound
  SegmentsCanBeMapped
PROPERTIES
  Terminates
CHECK_DEADLOCK FALSE

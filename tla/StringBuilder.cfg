SPECIFICATION MCSpec
CONSTANTS
  Builders = {file, section}
  Bytes = {"x", "y"}
  Unset = "?"
  Strings <- SomeStrings
  Capacity = 2
  Alignments = {3}
  Fill = "x"
  Reservations = {1, 2}
  MaxBuffers = 4
  MaxSlots = 2
SYMMETRY Permuted
INVARIANTS
  MemorySafe
  ListsDisjoint
PROPERTIES
  ImplementsByteStream
CHECK_DEADLOCK FALSE

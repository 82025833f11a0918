SPECIFICATION Spec
CONSTANTS
  Programs <- AllPrograms
  Variables = {"x", "y"}
  Literals <- Literal200
  MaxArguments = 1
  MaxDepth = 24
INVARIANTS
  OneIdPerType
  AcceptedTreesCanBeEmitted
  NamesFollowScopes
  StopsForAReason
  OverflowIsCircular
PROPERTIES
  TypesAreFinal
  Terminates
CHECK_DEADLOCK FALSE

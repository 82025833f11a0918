SPECIFICATION Spec
CONSTANTS
  Addresses <- Memory
  Page = 8
  BlockSize = 8
  Granule = 4
  FooterSize = 1
  Requests <- SomeRequests
  Arrays = {a, b}
  FirstCount = 2
SYMMETRY Permuted
INVARIANTS
  RangesDisjoint
  ArraysKeepTheirItems
  BlocksChained
CHECK_DEADLOCK FALSE

CONSTANTS
  Cores = {c0, c1}
  None = None
  MaxOrder = 2
  AreaCount = 2
  Size <- PowersOf2
  EarlyPages = 7
  FreeLocks = TRUE
  AnyReserve = FALSE
SPECIFICATION Spec
INVARIANTS Partition ListsInv NoPanic NoneWasted Counted
PROPERTIES Implements
CHECK_DEADLOCK FALSE

CONSTANTS
  Cores = {c0, c1}
  None = None
  MaxOrder = 2
  AreaCount = 1
  Size <- PowersOf2
  EarlyPages = 1
  FreeLocks = FALSE
  AnyReserve = FALSE
SPECIFICATION Spec
CHECK_DEADLOCK FALSE
INVARIANTS NoPanic

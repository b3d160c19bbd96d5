CONSTANTS
  p1 = p1  p2 = p2  p3 = p3
  Flusher = flusher
  None = None
  Readers = {p1, p2, p3}
  Writers = {flusher}
  MaxReaders = 2
  Slots = 3
  FullTestWraps = FALSE
SPECIFICATION Spec
INVARIANTS LeavesRoom

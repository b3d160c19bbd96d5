CONSTANTS
  PageSize = 12
  StructBytes = 2
  IndexBytes = 1
  Cores = {c0}
  None = None
  Pages <- PagesSmall
  Orders <- OrdersSmall
  Size <- SizePow
  Entries <- EntriesSmall
  Requests = {9}
  SlabsRemoved = TRUE
  RemoveUnlinks = TRUE
  Lists = {l1}
  Nodes = {n1}
  Data = {1}
  Null = Null
  Word = 2
  PAGE_SIZE = 4
  BLOCK = 16
  ENTRIES = 8
  MM_AREA_SIZE = 32
  MaxBlock = 8
  PageStruct = 1
  AreaStruct = 3
  BuddyStruct = 1
  MMIO_BASE = 112
  QA7_BASE = 128
  QA7_SIZE = 4
  MemTop = 128
  EarlyPages = 5
  ImageEnds <- ImageSmall
  VcStarts <- VcSmall
  MemSize = 2
  MaxByte = 1
  WordBytes = 2
  BitWords = 2
  Widths = {2}
SPECIFICATION MemorySpec
INVARIANTS TablesRight
CHECK_DEADLOCK FALSE

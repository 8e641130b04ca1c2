SPECIFICATION KernelSpec
CONSTANTS
  PageSize = 4
  TablePages = 8
  MaxFrames = 20
  WordSize = 128
  MaxRegions = 3
  Maps <- MCMaps
  LowEnd = 8
  KernelStart = 9
  KernelEnd = 18
  IdentityLimit = 64
  FbStart = 80
  FbEnd = 100
  HeapStart = 48
  HeapSize = 32
  HeaderSize = 2
  HeapAlign = 2
  Requests = {1, 2, 3, 4, 5, 126}
  Terminals = {t1, t2, t3}
  FileSizes = {0, 5}
  ImageSizes = {3, 126}
  AllocA = 2
  AllocB = 4
INVARIANTS BlocksTile HeldSafe AllFreeIsWhole FramesAccounted TablesReachable ExecReleases
CHECK_DEADLOCK FALSE

SPECIFICATION Spec
CONSTANTS
  Terminals = {t1, t2}
  Paths = {"p", "q"}
  Chars = {"x"}
  MaxBytes = 5
  TabSpaces = 2
  Rows = 2
  InitFiles <- MCInitFiles
  Chunk = 3
  DiskErrors = TRUE
  MaxKeys = 6
SYMMETRY MCSymmetry
CHECK_DEADLOCK FALSE
INVARIANTS CursorVisible  CleanIsSaved
PROPERTIES AsksBeforeDiscarding

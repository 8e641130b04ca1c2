SPECIFICATION Spec
CONSTANTS
  MaxEntries = 3
  PerSector = 4
  DataLba = 1
  SectorCount = 4
  SectorSize = 2
  Comps = {a, b}
  Paths <- MCFlatPaths
  NodeTypes = {"file"}
  Bytes = {"z", "x", "y"}
  NoFile = NoFile
  Zero = "z"
  Bufs <- MCBufs
  Offsets = {0, 1, 3}
  MaxNextFree = 4
  InitDisks = {"blank"}
  Crashes = TRUE
  WriteErrors = FALSE
  ReadErrors = FALSE
  BootErrors = FALSE
SYMMETRY MCSymmetry
PROPERTIES ImplementsFileStore

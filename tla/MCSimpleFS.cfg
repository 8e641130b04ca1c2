SPECIFICATION CrashSpec
CONSTANTS
  MaxEntries = 3
  PerSector = 2
  DataLba = 1
  SectorCount = 3
  SectorSize = 1
  Comps = {"a", "b"}
  Paths <- MCPaths
  NodeTypes = {"file", "dir"}
  Bytes = {"z", "x"}
  Zero = "z"
  Bufs <- MCBufs
  Offsets = {0, 1}
  MaxNextFree = 4
  InitDisks = {"formatted"}
  Crashes = TRUE
  WriteErrors = TRUE
  ReadErrors = TRUE
  BootErrors = FALSE
INVARIANTS ExtentsDisjoint CrashConsistent SuccessIsDurable 
PROPERTIES NoCollateralDamage

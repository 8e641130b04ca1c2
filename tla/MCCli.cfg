SPECIFICATION CliSpec
CONSTANTS
  MaxRows = 3
  MaxCols = 6
  WindowSizes <- MCSizes
  Glyphs = {"a", "b", "o", ">", "newline", "space"}
  Printable = {"a", "b"}
  Junk = {"nul", "b"}
  Names <- MCNames
  Outputs <- MCOutputs
  InputMax = 4
  HistoryMax = 2
  MaxResizes = 1
  MaxTyped = 7
INVARIANTS LineOnScreen
PROPERTIES TabKeepsTyped
CHECK_DEADLOCK FALSE

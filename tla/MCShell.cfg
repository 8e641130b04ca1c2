SPECIFICATION FairSpec
CONSTANTS
  MaxEntries = 3
  Comps = {"a", "b"}
  Terminals = {0, 1}
  MaxFds = 2
  Bytes = {"x", "y"}
  WriteErrors = TRUE
  ReadErrors = FALSE
  Names = {"mkdir", "rm", "cd", "touch", "write", "cat", "cp", "mv"}
  Paths <- MCPaths
  Texts <- MCTexts
  ChunkSize = 2
INVARIANTS NoFdLeak MoveKeepsContents
PROPERTIES CommandsEnd TreeKeptWhileCwdsLive

SPECIFICATION Spec
CONSTANTS
  HEAP = 2
  LIMIT = 11
  CHUNK = 4
  HEADER = 16
  SIZES = {0, 17, 80}
  BUF = 5
  DIRSIZ = 2
  WIDTH = 8
  MAXARGS = 3
  NOFILE = 6
  LINES <- MCLines
  TREES <- MCTrees
  PATTERNS <- MCPatterns
  TEXTS <- MCTexts
  FILES <- MCGreps
  PATHS <- MCPaths
  BYTES <- MCBytes
INVARIANTS HeapSound GrepFinds ShellReads StringsAgree
CHECK_DEADLOCK FALSE

SPECIFICATION Spec
CONSTANTS
  BYTE = 22
  SECTOR_COUNT = 6
  D = 3
  F = 4
  Dot = 2
  Slash = 1
  EOF = 65535
  RewriteLimit = 5
  Starts <- MCStarts
  Handles = {1, 2}
  Writers = {1}
  Paths <- MCPaths
  NewPaths <- MCNewPaths
  FilePaths <- MCFilePaths
  TextOf <- MCTextOf
  TextBytes <- MCTextBytes
INVARIANT TypeOK
PROPERTY ImplementsStore
CHECK_DEADLOCK FALSE

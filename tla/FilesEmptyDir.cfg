SPECIFICATION SpecAny
CONSTANTS
  BYTE = 22
  SECTOR_COUNT = 7
  D = 3
  F = 4
  Dot = 2
  Slash = 1
  EOF = 65535
  RewriteLimit = 22
  Handles = {1}
  Writers = {1}
  TextOf <- MCTextOf
  TextBytes <- MCTextBytes
  Starts <- EmptyDirectory
  Paths <- PathOfDB
  NewPaths <- PathOfDB
  FilePaths <- PathOfDB
PROPERTY CreatedIsFound
CHECK_DEADLOCK FALSE

\* A byte has 31 values and a sector 31 bytes.
SPECIFICATION Spec
CONSTANTS
  BYTE = 31
  SECTOR_COUNT = 16
  D = 3
  F = 4
  Dot = 2
  Slash = 1
  EntryNames <- MCEntryNames
  Contents <- MCContents
  Destination <- MCDestination
  MaxNodes = 5
  Booted <- MCBooted
  PathChars = {1, 2, 5, 6}
  MaxPath = 6
INVARIANTS CwdIsDirectory ReadersAgree SolvesPaths
\* A description ends, and the machine may stop.
CHECK_DEADLOCK FALSE

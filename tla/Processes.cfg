\* A machine with maps of 5 bits, 2 pages of OS and pages of 6 words, of which a program uses
\* up to 2 and exit the 3 below them, so that exit reads a stack pointer at word 0 of the
\* page: the OS and up to three programs deep. Page 4 of 5 is the last one, so the page map
\* fills up before the process table does.
CONSTANTS
  Width      = 5
  OsPages    = 2
  PageSize   = 6
  StackWords = 2
  Dirs       = {1, 7}
  Streams    = {100}
  ExitCodes  = {0, 1}
SPECIFICATION Spec
INVARIANTS
  PagesAccounted
  OneLine
  IInv
  MapsAreWords
PROPERTIES
  WaitingKept
  ImplementsStack
\* HLT stops the machine.
CHECK_DEADLOCK FALSE

SPECIFICATION SpecMade
CONSTANTS
  BYTE = 256
  ASM_TOKENS_MACRO_MAX = 1
  ASM_MACROS_MAX = 1
  GLOBAL_MAX_COUNT = 8
  EXTERN_MAX_COUNT = 8
  RELOC_MAX_COUNT = 32
  INTERN_RELOC_MAX_COUNT = 16
  SYMBOL_MAX_COUNT = 16
  ASM_ALLOWED_INST_AS_ARG = FALSE
  MAX_CODE_SIZE = 64
  Library <- MCLibrary
  Files <- MCFiles
  Analyzed <- AnalyzedAs
INVARIANTS FollowsEdges SeesExecution WarnsOfWrong AnalyzesWhatWasMade
PROPERTY Finishes
\* The analyzer ends.
CHECK_DEADLOCK FALSE

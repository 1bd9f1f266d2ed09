SPECIFICATION Spec
CONSTANTS
  BYTE = 16
  ASM_TOKENS_MACRO_MAX = 4
  ASM_MACROS_MAX = 8
  GLOBAL_MAX_COUNT = 8
  EXTERN_MAX_COUNT = 8
  RELOC_MAX_COUNT = 12
  INTERN_RELOC_MAX_COUNT = 4
  SYMBOL_MAX_COUNT = 16
  ASM_ALLOWED_INST_AS_ARG = TRUE
  RamSize = 128
  ram_start = 80
  Sources <- MCSources
  Text <- MCText
INVARIANTS TypeOK RefusesNonsense LinkedRuns LoadedIsSource TestsAgree
CHECK_DEADLOCK FALSE

CONSTANTS
  Chars <- MCChars
  Size = 8
  Nothing = "Nothing"
  Prompt = "prompt"
  Echo = "echo"
  NotFound = "not found"
  ExitCode = "exit code"
  Nul = "NUL"
  Inputs <- MCInputs
  Terminals = {"screen", "outer"}
SPECIFICATION Spec
INVARIANTS Restored ChildIsConnected
PROPERTIES PipelinesDeliver ImplementsQueue Finishes
CHECK_DEADLOCK FALSE

CONSTANTS
  Chars <- MCChars
  QueueLimit = 8
SPECIFICATION Spec
INVARIANTS TypeOK ReturnsTyped
CHECK_DEADLOCK FALSE

\* One instruction from each of the states of MCStarts, and a program under the step mode.
CONSTANTS
  Starts          <- MCStarts
  MaxInstructions = 1
  Image           <- MCImage
SPECIFICATION Spec
INVARIANTS OneOutput EndsInTime
PROPERTIES ImplementsIsa FetchesAsEncoded SkipEndsAtReturn
\* A machine from MCStarts ends after MaxInstructions.
CHECK_DEADLOCK FALSE

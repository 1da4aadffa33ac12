CONSTANTS
  Width = 16
  Globals <- MCGlobals
  Functions <- MCFunctions
  Inputs <- MCInputs
SPECIFICATION Spec
CHECK_DEADLOCK FALSE
INVARIANT TypeOK
INVARIANT CallsInOrder
INVARIANT SameOutcome
INVARIANT StaysInBlocks
PROPERTY Terminates

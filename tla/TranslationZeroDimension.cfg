CONSTANTS
  Width = 16
  Globals <- MCGlobals
  Functions <- ZeroDimension
  Inputs <- MCInputs
SPECIFICATION Spec
CHECK_DEADLOCK FALSE
INVARIANT StaysInBlocks

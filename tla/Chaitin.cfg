CONSTANTS
  K = 6
  RAX = 0
  RDX = 3
  RSP = 4
  RBP = 5
  CalleeSaved = {1}
  CallerSaved = {0, 2, 3}
  ArgumentRegs = {2, 3}
  MaxRounds = 4
  Functions <- MCFunctions
SPECIFICATION Spec
CHECK_DEADLOCK FALSE
INVARIANT TypeOK
INVARIANT Partition
INVARIANT ProperColoring
INVARIANT NoClobber
INVARIANT SlotsDistinct
INVARIANT SpilledGone
PROPERTY Terminates

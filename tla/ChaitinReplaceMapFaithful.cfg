CONSTANTS
  K = 6
  RAX = 0
  RDX = 3
  RSP = 4
  RBP = 5
  CalleeSaved = {1}
  CallerSaved = {0, 2, 3}
  ArgumentRegs = {2, 3}
  MaxRounds = 4
  Functions <- MCCompares
SPECIFICATION SafetySpec
CHECK_DEADLOCK FALSE
INVARIANT ReplaceMapFaithful

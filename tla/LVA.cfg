CONSTANTS
  K = 5
  RAX = 0
  RDX = 2
  RSP = 3
  RBP = 4
  CalleeSaved = {1}
  CallerSaved = {0, 2}
  ArgumentRegs = {2}
  Functions <- MCFunctions
SPECIFICATION Spec
CHECK_DEADLOCK FALSE
INVARIANT TypeOK
INVARIANT Settled
INVARIANT LeastLiveness
INVARIANT LivenessExact
INVARIANT MissedUnharmed
INVARIANT FlowMatches
INVARIANT ResultIsLiveOut
PROPERTY OnlyGrows
PROPERTY Terminates

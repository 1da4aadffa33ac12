CONSTANTS
  Functions <- MCFunctions
  Settings <- MCSettings
SPECIFICATION Spec
CHECK_DEADLOCK FALSE
INVARIANT TypeOK
INVARIANT EachOnce
INVARIANT TablesAgree
INVARIANT BranchesWhole
INVARIANT FlowPreserved
INVARIANT Requires
PROPERTY Terminates

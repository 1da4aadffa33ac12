SPECIFICATION Spec
CONSTANTS
  Functions <- MCCallOrConstant
  Settings <- MCSettings
  Inputs <- MCInputs
  Fuel = 24
INVARIANT ConstantsHold

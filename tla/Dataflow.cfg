SPECIFICATION Spec
CONSTANTS
  Functions <- MCFunctions
  Settings <- MCSettings
  Inputs <- MCInputs
  Fuel = 24
INVARIANTS TypeOK SameResults ConstantsHold CopiesHold
PROPERTIES Terminates

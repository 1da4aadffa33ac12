SPECIFICATION Spec
CONSTANTS
  Functions <- MCArgumentLoop
  Settings <- MCSettings
  Inputs <- MCInputs
  Fuel = 24
PROPERTY FactsSettle

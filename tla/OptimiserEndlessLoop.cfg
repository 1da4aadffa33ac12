CONSTANTS
  Functions <- EndlessLoopFunctions
  Settings <- AllPasses
SPECIFICATION SafetySpec
CHECK_DEADLOCK FALSE
PROPERTY TranslateTable

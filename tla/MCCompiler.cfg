SPECIFICATION Spec
CONSTANTS
  FirstTemp = 1000
  Base = 8
  Foreign = 5
  RegisterCount = 3
  Rand <- MCRand
  Programs <- MCPrograms
  Enabled = {}
  Seeds = {1, 2}
  maxOptimizableIterations = 8
INVARIANTS ReturnsMeaning EdgesMatch CodeIsWhole
PROPERTY Ends
CHECK_DEADLOCK FALSE

SPECIFICATION Spec
CONSTANTS
  FirstTemp = 1000
  Base = 8
  Foreign = 5
  RegisterCount = 3
  Rand <- MCRand
  Programs <- OnePrograms
  Enabled = {"optimize_query_var"}
  Seeds = {1}
  maxOptimizableIterations = 8
INVARIANT ReturnsMeaning
CHECK_DEADLOCK FALSE

SPECIFICATION FairSpec
CONSTANTS
  NumVars = 3
  Formulas <- EnumFormulas
  Api = {"search", "split", "backtrack_step"}
  MaxCalls = 15
  Learning = TRUE
  Batches = FALSE
INVARIANTS ImpliedHeld SplitPartitions
CHECK_DEADLOCK FALSE

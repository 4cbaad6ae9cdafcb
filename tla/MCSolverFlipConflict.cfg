SPECIFICATION FairSpec
CONSTANTS
  NumVars = 3
  Formulas <- ResolveFormula
  Api = {"search", "backtrack_step"}
  MaxCalls = 6
  Learning = TRUE
  Batches = FALSE
INVARIANTS ModelSound
CHECK_DEADLOCK FALSE

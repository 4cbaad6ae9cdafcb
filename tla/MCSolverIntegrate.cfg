SPECIFICATION FairSpec
CONSTANTS
  NumVars = 3
  Formulas <- BackFormulas
  Api = {"search", "push_root", "integrate", "pop_root", "set_backtrack_level", "assume"}
  MaxCalls = 4
  Learning = TRUE
  Batches = TRUE
INVARIANTS TrailSound
CHECK_DEADLOCK FALSE

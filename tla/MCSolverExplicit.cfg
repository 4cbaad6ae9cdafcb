SPECIFICATION FairSpec
CONSTANTS
  NumVars = 5
  Formulas <- ExplicitFormulas
  Api = {"search"}
  MaxCalls = 1
  Learning = TRUE
  Batches = FALSE
INVARIANTS WatchesExact AssignmentSound
CHECK_DEADLOCK FALSE

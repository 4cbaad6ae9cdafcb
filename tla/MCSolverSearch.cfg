SPECIFICATION FairSpec
CONSTANTS
  NumVars = 3
  Formulas <- ShortFormulas
  Api = {"search", "push_root", "pop_root", "restart", "propagate", "assume", "set_stop_conflict", "clear_stop_conflict"}
  MaxCalls = 6
  Learning = TRUE
  Batches = FALSE
INVARIANTS TypeOK LevelInv QueueExact DbExact ConflictAsserting
PROPERTIES RootPathKept ImplementsService Termination
CHECK_DEADLOCK FALSE

SPECIFICATION Spec
CONSTANTS
  Units = {"graph", "context", "minimize", "enum", "sched", "config", "score", "look", "options", "words", "keys", "preprocess", "peers"}
  GraphVars = 3
  GraphAdds = 3
  SimpAll = TRUE
  Probing = TRUE
  CtxVars = 2
  CtxSolvers = 1
  CtxCons = 2
  CtxStepBound = 2
  MinVars = 2
  MinAdds = 3
  MinRunAdds = 2
  MinOps = 2
  EnumVars = 2
  EnumCalls = 3
  SchedTicks = 40
  SchedSamples = 16
  Kilo = 1
  CfgSolvers = 2
  CfgSearches = 2
  CfgChanges = 4
  HeuTicks = 34
  HeuBumps = 2
  LookVars = 2
  LookCalls = 1
  OptAdds = 2
  OptTokens = 2
  OptSources = 2
  CfgEdits = 1
  CfgNumMax = 5000
  KeySolvers = 2
  KeyCalls = 3
  PreVars = 2
  PreClauses = 3
  MaxThreads = 20
INVARIANTS GraphKept ContextConsistent MinimizeSound EnumerationFits SchedulesExact PrepareSettles ScoresExact ToldFirst ConfigurationTold
CHECK_DEADLOCK FALSE

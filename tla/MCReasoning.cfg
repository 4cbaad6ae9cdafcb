SPECIFICATION Spec
CONSTANTS
  Units = {"analysis", "learnts", "loop", "clause", "post", "subsume"}
  AnaVars = 4
  AnaLevels = 3
  DbVars = 2
  DbAux = 1
  DbLearnts = 2
  ActMax = 3
  LbdMax = 4
  LoopAtoms = 2
  LoopBodies = 3
  LoopSteps = 4
  ShapeVars = 4
  ShapeSteps = 3
  PostNum = 3
  PostForced = 1
  PostCalls = 6
  SatVars = 3
  AbsBits = 2
  WatchBound = 2
INVARIANTS LearntSound LearntsSafe WorstGoFirst LoopsSound ClausesKept CheapFirst
PROPERTIES FixpointReached
CHECK_DEADLOCK FALSE

SPECIFICATION Spec
CONSTANTS
  Units = {"app", "convert", "aspif", "text", "smodels", "theory", "program", "domain", "sccs", "ext", "queue", "heap", "sequence", "reify", "mpsc"}
  AppRuns = 2
  AppAlarms = 2
  AppCalls = 1
  SmAtoms = 2
  SmOps = 6
  SmSteps = 3
  AspAtoms = 2
  AspOps = 2
  AspSteps = 2
  TxtOps = 3
  TxtSteps = 2
  LpOps = 2
  LpSteps = 2
  ThTerms = 2
  ThElems = 2
  ThSteps = 5
  ThUpdates = 2
  PrgSteps = 5
  PrgEdges = 2
  DomAdds = 2
  GrNodes = 3
  GrEdges = 3
  GrCalls = 2
  Keys = 5
  ScoreMax = 1
  HeapLen = 4
  LeftCells = 1
  RightCells = 2
  InlineCells = 5
  LrSteps = 7
  RfAtoms = 2
  RfOps = 2
  RfSteps = 2
  Producers = 2
  SpareNodes = 3
  PushBound = 4
INVARIANTS SignalsSafe ConversionKept RoundTrips ProgramKept ContainersKept MpSafe
PROPERTIES KilledStaysSilent HeapsSort
CHECK_DEADLOCK FALSE

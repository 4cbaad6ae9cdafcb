------------------------------ MODULE MCSetup -------------------------------
(***************************************************************************)
(* The parts that set up and steer the search, each a unit of its own: the *)
(* short implication graph, the steps of the shared context and its        *)
(* preprocessor, the peers of the threads, the minimize constraint, the    *)
(* enumerators, the schedules, the configurations, the scores of the       *)
(* heuristics, and the command line with its words and keys.               *)
(***************************************************************************)
EXTENDS ConfigKeys

CONSTANTS Units, GraphVars, GraphAdds, SimpAll, Probing, CtxVars, CtxSolvers,
          CtxCons, CtxStepBound, MinVars, MinAdds, MinRunAdds, MinOps,
          EnumVars, EnumCalls, SchedTicks, SchedSamples, Kilo, CfgSolvers,
          CfgSearches, CfgChanges, HeuTicks, HeuBumps, LookVars, LookCalls,
          OptAdds, OptTokens, OptSources, CfgEdits, CfgNumMax, PreVars,
          PreClauses, MaxThreads

ASSUME UnitsAssumption == Units \subseteq {"graph", "context", "minimize",
    "enum", "sched", "config", "score", "look", "options", "keys", "words",
    "preprocess", "peers"}

VARIABLES
  unit,   \* the unit whose steps this behaviour takes
  graph, facts, given, probe, gadds, dropped,
  ctx, master, solver, db, constraints,
  minb, mind, minth, mincalls, minhist,
  world, finder, status, reported, menum, ecalls,
  sched, origin, ticks, dyn, fed, cfls,
  solvers, searches, settled, changes,
  heu, act, decay, eager, used,
  vscore, deps, best, addDeps, nodes, direct,
  options, parser, values, said,
  cfgKind, cfgValue, cfgLine, cfgEdits,
  pre, preCtx, preGiven, preLast,
  par

Graph == INSTANCE ShortGraph
Context == INSTANCE ContextSteps WITH cons <- constraints
Minimizer == INSTANCE Minimize
Enum == INSTANCE Enumerators WITH cons <- finder
Strategies == INSTANCE SolverStrategies
Heuristic == INSTANCE HeuristicScores
Options == INSTANCE OptionParse WITH ctx <- options
Words == INSTANCE ConfigText
Preprocess == INSTANCE SatPreprocess
Peers == INSTANCE PeerSets

graphState == <<graph, facts, given, probe, gadds, dropped>>
contextState == <<ctx, master, solver, db, constraints>>
minimizeState == <<minb, mind, minth, mincalls, minhist>>
enumState == <<world, finder, status, reported, menum, ecalls>>
schedState == <<sched, origin, ticks, dyn, fed, cfls>>
configState == <<solvers, searches, settled, changes>>
scoreState == <<heu, act, decay, eager, used>>
lookState == <<vscore, deps, best, addDeps, nodes, direct>>
optionsState == <<options, parser, values, said>>
keysState == <<keyPath, keyAt, keyCalls>>
wordsState == <<cfgKind, cfgValue, cfgLine, cfgEdits>>
preprocessState == <<pre, preCtx, preGiven, preLast>>
peersState == <<par>>

\* The variables of a unit that is not taken stay idle.
Init ==
  /\ unit \in Units
  /\ IF unit = "graph" THEN Graph!GraphInit
     ELSE /\ graph = "idle" /\ facts = "idle" /\ given = "idle"
          /\ probe = "idle" /\ gadds = "idle" /\ dropped = "idle"
  /\ IF unit = "context" THEN Context!CtxInit
     ELSE /\ ctx = "idle" /\ master = "idle" /\ solver = "idle" /\ db = "idle"
          /\ constraints = "idle"
  /\ IF unit = "minimize" THEN Minimizer!MinInit
     ELSE /\ minb = "idle" /\ mind = "idle" /\ minth = "idle"
          /\ mincalls = "idle" /\ minhist = "idle"
  /\ IF unit = "enum" THEN Enum!EnumInit
     ELSE /\ world = "idle" /\ finder = "idle" /\ status = "idle"
          /\ reported = "idle" /\ menum = "idle" /\ ecalls = "idle"
  /\ IF unit = "sched" THEN Strategies!SchedInit
     ELSE /\ sched = "idle" /\ origin = "idle" /\ ticks = "idle"
          /\ dyn = "idle" /\ fed = "idle" /\ cfls = "idle"
  /\ IF unit = "config" THEN Strategies!CfgInit
     ELSE /\ solvers = "idle" /\ searches = "idle" /\ settled = "idle"
          /\ changes = "idle"
  /\ IF unit = "score" THEN Heuristic!ScoreInit
     ELSE /\ heu = "idle" /\ act = "idle" /\ decay = "idle" /\ eager = "idle"
          /\ used = "idle"
  /\ IF unit = "look" THEN Heuristic!LookInit
     ELSE /\ vscore = "idle" /\ deps = "idle" /\ best = "idle"
          /\ addDeps = "idle" /\ nodes = "idle" /\ direct = "idle"
  /\ IF unit = "options" THEN Options!OptInit
     ELSE /\ options = "idle" /\ parser = "idle" /\ values = "idle"
          /\ said = "idle"
  /\ IF unit = "keys" THEN KeyInit
     ELSE /\ keyPath = "idle" /\ keyAt = "idle" /\ keyCalls = "idle"
  /\ IF unit = "words" THEN Words!OptTextInit
     ELSE /\ cfgKind = "idle" /\ cfgValue = "idle" /\ cfgLine = "idle"
          /\ cfgEdits = "idle"
  /\ IF unit = "preprocess" THEN Preprocess!PreInit
     ELSE /\ pre = "idle" /\ preCtx = "idle" /\ preGiven = "idle"
          /\ preLast = "idle"
  /\ IF unit = "peers" THEN Peers!ParInit
     ELSE /\ par = "idle"

ChangeGraph ==
  /\ unit = "graph" /\ Graph!GraphNext
  /\ UNCHANGED <<unit, contextState, minimizeState, enumState, schedState,
                 configState, scoreState, lookState, optionsState, keysState,
                 wordsState, preprocessState, peersState>>

StepContext ==
  /\ unit = "context" /\ Context!CtxNext
  /\ UNCHANGED <<unit, graphState, minimizeState, enumState, schedState,
                 configState, scoreState, lookState, optionsState, keysState,
                 wordsState, preprocessState, peersState>>

Optimize ==
  /\ unit = "minimize" /\ Minimizer!MinNext
  /\ UNCHANGED <<unit, graphState, contextState, enumState, schedState,
                 configState, scoreState, lookState, optionsState, keysState,
                 wordsState, preprocessState, peersState>>

Enumerate ==
  /\ unit = "enum" /\ Enum!EnumNext
  /\ UNCHANGED <<unit, graphState, contextState, minimizeState, schedState,
                 configState, scoreState, lookState, optionsState, keysState,
                 wordsState, preprocessState, peersState>>

Tick ==
  /\ unit = "sched" /\ Strategies!SchedNext
  /\ UNCHANGED <<unit, graphState, contextState, minimizeState, enumState,
                 configState, scoreState, lookState, optionsState, keysState,
                 wordsState, preprocessState, peersState>>

Configure ==
  /\ unit = "config" /\ Strategies!CfgNext
  /\ UNCHANGED <<unit, graphState, contextState, minimizeState, enumState,
                 schedState, scoreState, lookState, optionsState, keysState,
                 wordsState, preprocessState, peersState>>

Score ==
  /\ unit = "score" /\ Heuristic!ScoreNext
  /\ UNCHANGED <<unit, graphState, contextState, minimizeState, enumState,
                 schedState, configState, lookState, optionsState, keysState,
                 wordsState, preprocessState, peersState>>

LookAhead ==
  /\ unit = "look" /\ Heuristic!LookNext
  /\ UNCHANGED <<unit, graphState, contextState, minimizeState, enumState,
                 schedState, configState, scoreState, optionsState, keysState,
                 wordsState, preprocessState, peersState>>

ParseOptions ==
  /\ unit = "options" /\ Options!OptNext
  /\ UNCHANGED <<unit, graphState, contextState, minimizeState, enumState,
                 schedState, configState, scoreState, lookState, keysState,
                 wordsState, preprocessState, peersState>>

FollowKey ==
  /\ unit = "keys" /\ KeyNext
  /\ UNCHANGED <<unit, graphState, contextState, minimizeState, enumState,
                 schedState, configState, scoreState, lookState, optionsState,
                 wordsState, preprocessState, peersState>>

EditWord ==
  /\ unit = "words" /\ Words!OptTextNext
  /\ UNCHANGED <<unit, graphState, contextState, minimizeState, enumState,
                 schedState, configState, scoreState, lookState, optionsState,
                 keysState, preprocessState, peersState>>

SimplifyProblem ==
  /\ unit = "preprocess" /\ Preprocess!PreNext
  /\ UNCHANGED <<unit, graphState, contextState, minimizeState, enumState,
                 schedState, configState, scoreState, lookState, optionsState,
                 keysState, wordsState, peersState>>

ConnectPeers ==
  /\ unit = "peers" /\ Peers!ParNext
  /\ UNCHANGED <<unit, graphState, contextState, minimizeState, enumState,
                 schedState, configState, scoreState, lookState, optionsState,
                 keysState, wordsState, preprocessState>>

Next == ChangeGraph \/ StepContext \/ Optimize \/ Enumerate \/ Tick \/
     Configure \/ Score \/ LookAhead \/ ParseOptions \/ FollowKey \/ EditWord
     \/ SimplifyProblem \/ ConnectPeers

vars == <<unit, graphState, contextState, minimizeState, enumState,
          schedState, configState, scoreState, lookState, optionsState,
          keysState, wordsState, preprocessState, peersState>>

Spec == Init /\ [][Next]_vars

(***************************************************************************)
(* Properties. What each part says is stated with its definition in the    *)
(* module of the component.                                                *)
(***************************************************************************)

(* The short implication graph: the arcs that are stored and counted are   *)
(* those of the clauses it was given, and every clause it was given still  *)
(* follows.                                                                *)
GraphKept ==
  unit = "graph" => Graph!GraphExact /\ Graph!MeaningKept

(* The shared context over several steps: variables are counted right,     *)
(* nothing speaks of a variable that was popped, and every solver has a    *)
(* prefix of the problem constraints. Preprocessing says all that the      *)
(* clauses said, and nothing more. Every solver is reached from every      *)
(* other over peers, and none is its own.                                  *)
ContextConsistent ==
  /\ unit = "context" => Context!VarsCounted /\ Context!NoPoppedVar /\ Context!DbIndexPrefix
  /\ unit = "preprocess" => Preprocess!PreprocessKeeps
  /\ unit = "peers" => Peers!PeersConnected

(* The minimize constraint: the costs of a model are kept, a literal is    *)
(* implied only if its bound says so, and the bounds are the ones that     *)
(* were found.                                                             *)
MinimizeSound ==
  unit = "minimize" => Minimizer!CostsKept /\ Minimizer!ImpliesLex /\ Minimizer!BoundsExact

(* Enumerators: brave and cautious consequences are exact, and the         *)
(* strategy that is chosen fits the options.                               *)
EnumerationFits ==
  unit = "enum" => Enum!ConsequencesExact /\ Enum!StrategyFits

(* Schedules: advance_to agrees with calling next as often, and the        *)
(* dynamic limit has the mean of its window.                               *)
SchedulesExact ==
  unit = "sched" => Strategies!AdvanceExact /\ Strategies!WindowMean

(* Configurations: preparing a configuration twice changes nothing more.   *)
PrepareSettles ==
  unit = "config" => Strategies!PrepareSettles

(* Heuristics: a score that is decayed when it is used equals one that is  *)
(* decayed at every step, and lookahead forgets what it scored.            *)
ScoresExact ==
  /\ unit = "score" => Heuristic!DecayExact
  /\ unit = "look" => Heuristic!LookForgets

(* Option parsing: an option has the value of the first source that gives  *)
(* one.                                                                    *)
ToldFirst ==
  unit = "options" => Options!ToldFirst

(* Configuration: a word means the value that printed it, and a path finds *)
(* the key that it names.                                                  *)
ConfigurationTold ==
  /\ unit = "words" => Words!TextKept
  /\ unit = "keys" => PathsResolve
=============================================================================

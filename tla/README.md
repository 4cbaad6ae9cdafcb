# clasp (Rust port): a TLA+ model

This directory models the Rust port of clasp and libpotassco: the solver at its
heart, what surrounds the search, the lock-free queues of the solvers, and the
front end that reads, converts and writes programs. Paths below are relative to
`src/src/clasp/`; `potassco/` stands for `src/src/potassco/`.

## 1. The system and its parts

The program reads a logic program (potassco formats), is to translate it to clauses
and other constraints, adds them to a shared context, optionally simplified, and lets
one or several solvers search for models; an enumerator and a minimize constraint
decide how the search goes on after a model. The port is not complete: the
translation of rules, facade, solve algorithms and weight constraints exist only as
options, types and stubs, and no thread runs a solver. The parts therefore meet where
the code lets them: solver, clauses and short graph in one search; context, solvers
and constraints over the steps; preprocessor and context; readers, writers and the
converter. Between these there is nothing in the code yet to be composed.

| Part | State | Operations | Interacts with | Correct when |
|---|---|---|---|---|
| Solver assignment (`constraint.rs`, `solver_types/runtime.rs`) | trail, queue position, decision levels, root and backtrack level, implied literals, conflict, saved stop conflict | `force`, `assume`, `undo_until`, `force_implied`, `push_root_level`, `pop_root_level`, `set_stop_conflict`, `clear_stop_conflict`, `backtrack`, ... | every constraint reads and extends it | levels stay ordered, the queue inside the trail, every literal explained by earlier ones, implied literals present whenever their level is |
| Solver search (`constraint.rs`) | seen marks, conflict clause, place in the loop | `search`, `propagate`, `simplify`, `resolve_conflict`, `analyze_conflict`, `backtrack_step`, `push_root`, `split`, `restart` | clauses, short graph, heuristic, callers | answers are true of the problem; the search returns; the root path belongs to the caller |
| Conflict analysis (`constraint.rs`) | marks of variables and levels, the clause being built | resolution, two minimisations, reverse arcs, strengthening, replacement by decisions | reasons of all constraints | the clause follows from the reasons and asserts |
| Clauses (`clause.rs`, `constraint/clause_head.rs`) | two watched literals and a tail, contracted or shared; loop formulas | create, integrate, propagate, strengthen, simplify, detach | watch lists and reasons of the solver | no unit or falsified clause is overlooked |
| Short implication graph (`shared_context.rs`) | arcs by literal, counts | `add`, `remove`, `remove_true`, `propagate`, `preprocess_short` | all solvers share it | keeps the meaning of the clauses |
| Post propagators (`constraint.rs`) | list by priority, the place of each pass | `add_post`, `remove_post`, `post_propagate`, `propagate_from` | unit propagation, each other | cheap ones first; a pass without a conflict leaves no work |
| Learnt constraints (`constraint.rs`, `solver_strategies.rs`) | database, activities, lbd, auxiliary variables, tag | `reduce_learnts`, `remove_conditional`, `pop_vars` | trail and reasons | no reason is deleted, the worst go first |
| Shared context (`shared_context.rs`) | variables, solvers, step literal, list of constraints, domain table | `start_add_constraints`, `end_init`, `attach`, `detach`, `pop_vars`, ... | owner of the solvers and the graph | each solver gets the same problem, in every step |
| Preprocessing (`satelite.rs`, `asp_preprocessor.rs`) | clauses, units, watches and marks, variables seen | `add_clause`, `preprocess`, `propagate`, `subsumed`, `subsumes` | context and master solver | the models stay the same |
| Minimize constraint (`minimize_constraint.rs`) | literals, weights, shared bounds | builder, `set_mode`, `set_optimum`, `inc_lower` | threads | costs are kept; bounds only improve |
| Enumerators (`enumerator.rs`, `model_enumerators.rs`, `cb_enumerator.rs`) | flags per literal, the clause for the next model | `start`, `add_current`, `set_strategy` | search loop | brave and cautious consequences are exact |
| Schedules, configurations, heuristics (`solver_strategies.rs`, `heuristics.rs`, `lookahead.rs`) | limits, moving averages, options, scores | `next`, `advance_to`, `prepare`, `decay`, `bump`, ... | search loop | lazily computed values are the ones computed at every step |
| Queues (`util/multi_queue.rs`) | nodes, heads, tails, free stack, reference counts | `publish`, `try_consume`, ...; `push`, `pop` | any number of threads | every message once, in order; a node is in one hand |
| Parallel solving (`mt/`) | options, peer sets; wrappers of threads | `set_solvers`, `init_peer_set` | clause exchange | nobody is cut off, nobody its own peer |
| Application (`potassco/application.rs`) | base object, blocked count, pending signal, alarm | `main`, `set_alarm`, `kill_alarm`, `block_signals`, `process_signal` | signals, threads | a handler finds its application; an error is reported |
| Options and command line (`potassco/program_opts/`, `cli/`) | groups, index, values; words and keys | declare, parse, assign defaults, print, walk keys | application | first source wins; printed words mean the same |
| Program formats (`potassco/aspif.rs`, `aspif_text.rs`, `smodels.rs`, `convert.rs`, `theory_data.rs`, `reify.rs`) | per-step tables of names, terms, atoms | read, write, convert, reify | each other | what is read is what was written |
| Program types, graphs (`logic_program_types.rs`, `dependency_graph.rs`, `potassco/graph.rs`) | supports, values, arcs, marks | add, remove, normalise; components; `finalize` | program translation | what was added is there, once |
| Containers (`util/`) | heap and index, two stacks in one buffer | push, pop, update, erase | heuristics, watch lists | order and contents are kept |
| Statistics, utilities | counters, conversions | - | - | data without control of its own |

The hard parts are: state that several routines reset behind each other's back
(queue, conflict, backtrack level, implied list); calls of an application in any
order; clauses that arrive for an assignment they were not made for; marks and
flags that outlive the call they were set for; tables that are cleared at the end of
a step, or not; signals and alarms that race `main`; and, in the queues, threads that
interleave at every access to memory. `PROJECT.json` lists the hazards with the line at
which each bites and the properties that cover it; section 7 lists those for which
there was no room there.

## 2. Modules

| Module | Models |
|---|---|
| `SolverState` | the solver's assignment state as a record and its methods as operators from state to state |
| `SolverKernel` | the actions: propagation, search loop, conflict analysis, learning, simplification, integration of clauses, and an application's calls |
| `SearchService` | abstract: what a caller may rely on, without levels, trails or clauses |
| `SolverCorrectness` | the properties of the solver, against the truth table of the problem |
| `SolverProofs`, `SoundnessProofs`, `PropagationProofs`, `ServiceProofs`, `SplitProofs` | theorems about the solver and their proofs: types and levels; soundness of reasons, clauses and assignment; propagation overlooks nothing; the clauses keep their meaning, and the refinement of `SearchService`; splitting and enumerating lose nothing |
| `MultiQueue`, `BroadcastLog` | the queue and its free stack, one atomic access to shared memory per step; abstract: a log that every consumer reads from its own position; the properties, and a symmetry for TLC |
| `MultiQueueProofs` | theorems about the queue and their proofs: ownership, reference counts, the drop; the refinement of `BroadcastLog` |
| `MpScQueue` | the queue with one consumer, one access to shared memory per step |
| `MpScProofs` | theorems about it and their proofs: order, ownership, the refinement of `BroadcastLog` |
| `ConflictAnalysis` | one conflict, over every shape of implications: uips, minimisation, reverse arcs, strengthening, replacement, `resolve_to_core` |
| `LearntDb` | scores, three reductions, tagged clauses, auxiliary variables |
| `LoopFormula` | one loop formula with its shared cell, propagation, reasons, simplification |
| `ClauseShape` | one learnt clause that is contracted, shared, strengthened, simplified, deleted |
| `PostList` | the list of post propagators and the nested passes over it |
| `PostProofs` | theorems about them and their proofs: places in a list that changes under nested passes |
| `SatElite` | subsumption and strengthening with one watch per clause |
| `SatPreprocess` | the preprocessor between the clauses that are given and the solver, over several steps |
| `ShortGraph` | arcs and counts of the short implication graph, simplification, probing |
| `ContextSteps` | the shared context over several steps |
| `Minimize` | builder, weights by level, and the shared bounds with a concurrent `inc_lower` |
| `Enumerators` | consequences and the choice of a strategy |
| `SolverStrategies`, `HeuristicScores` | schedules and the dynamic limit, preparing configurations; decayed scores and lookahead |
| `PeerSets` | the peers of every solver in each topology |
| `OptionParse` | option contexts, sources in any order, defaults |
| `ConfigText`, `ConfigKeys` | the words of the command line, their printing and parsing, the tree of keys |
| `AppSignals` | `main`, signals, alarms on threads of their own |
| `AspifFormat`, `TextFormat`, `SmodelsFormat` | writer and reader of each format, over several steps |
| `SmodelsConvert`, `TheoryTables`, `ReifyFacts` | conversion to smodels; theory data; the reifier |
| `ProgramTables`, `DepGraphs` | an atom with its supports, and the table of domain modifications; components and the external dependency graph |
| `Containers` | the indexed heap and the heap functions; the two stacks in one buffer |
| `MCSolver` | small problems for TLC |
| `MCReasoning`, `MCSetup`, `MCFrontEnd` | the components that are modelled on their own, each a *unit*, for TLC |

### Units

A component that no code connects with the others yet is a unit: a behaviour of
`MCReasoning`, `MCSetup` or `MCFrontEnd` chooses one (`unit`), starts it and takes only
its steps, and the variables of the others stay idle. The three modules INSTANCE the
components and say per property which units it is about (`unit = "graph" => ...`). Two
units that theorems are about, `post` and `mpsc`, are extended instead, so that TLC and
the prover read the same `CheapFirst`, `FixpointReached` and `MpSafe`; their variables
stay as at the start while another unit runs. So each of them checks what as many runs of
their own would, and no state is a product of two components.

### Solver

A literal is an integer, as in DIMACS; a clause is a set of literals; an
antecedent is the clause that forced the literal. `sol` is the record of
`SolverState`. The Rust methods are sequential and nested, so each is one
operator on this record; an action of `SolverKernel` is a stretch of code between
two points at which something is chosen, looped over or returned from. `pc`
names the point and `ret` where a running `propagate()` goes on (its success
and failure exits, which differ by caller).

* Propagation: `ForceByShort` is one clause of
  `ShortImplicationsGraph::propagate`; `MoveWatch` and `ForceByWatch` are one
  clause of `clause_head_propagate`; `Dequeue` takes the next literal;
  `PropagateReturns` includes `cancel_propagation`. The order of the clauses in a
  watch list is left open, so a run covers every order.
* Search: `SearchTop`, `SearchSimplify`, `Decide`, `ModelFound`, `GiveUp`,
  `StartAnalysis`, `BacktrackOnly`, `Analyze` (one antecedent), `Learn`, `Refute`,
  `SimplifyTop`, `LimitReached`, `Continue` follow the search loop, `resolve_conflict`,
  `analyze_conflict` and `ClauseCreator`.
  The heuristic may choose any free literal and a limit may be reached after
  any conflict.
* Calls: `Search`, `Propagate`, `Choose` (`assume`), `Restart`, `PushRoot`,
  `PopRoot`, `SetStop`, `ClearStop`, `SetBacktrack`, `BacktrackStep`, `Split`,
  `Integrate`. The constant `Api` says which a run makes.
* `NothingToLose` keeps `restart` and `pop_root_level(0)` to where a solving loop
  makes them: not over an unresolved conflict or a queue that is not empty.
  (`restart()` on the top level forgets a conflict there, `constraint.rs:1890`.)
  `Batches = TRUE` lets several clauses be integrated before they are propagated.

What the kernel leaves out has a module of its own where it is control: options of the
conflict analysis (`ConflictAnalysis`), contracted and shared clauses (`ClauseShape`),
loop formulas (`LoopFormula`), auxiliary variables, tags and reductions (`LearntDb`),
post propagators (`PostList`), arcs of the short graph (`ShortGraph`). Each of these
reduces the solver around it to what its constraint sees: assignments, propagation,
backjumps, facts.

### MultiQueue and MpScQueue

Each thread has a program counter, and a step is one load, store, exchange or
fetch-and-add of the code (`Step` is their disjunction); `Publish`, `Reserve`
(nodes prepared on the free stack), `UnsafePublish`, `Consume` and `DropQueue`
begin a call. The caller of `unsafe_publish` has promised that no other thread
publishes meanwhile: `alone` is that promise. Nodes come from the free stack or, when
it is empty, from the unused members of `Nodes`, the heap. A weak compare-and-exchange
may fail for no reason. The memory is sequentially consistent: the code's acquire and
release orderings are at least as weak, so reorderings that they allow are not covered.
In `MpScQueue` a node that was popped may be pushed again by any producer, as the
documentation of `push` allows ("remains allocated until the consumer pops it again").

### The other components

Their modules say at their heads what stands for what. Common to them:

* A history variable (`given`, `said`, `asked`, `fed`, `lefts`, ...) holds what the
  caller has told the component, in the caller's terms; the property compares what the
  component says now with it. The reference is a truth table, a set, a direct
  recomputation or a second reading, never the component's own definition.
* Names, strings and payloads are small numbers or records of what their syntax says.
* Sequences of calls are those the documentation and the callers in `src/` allow; where
  a call must not be made in a state, the guard says so.

## 3. Runs

All runs set `CHECK_DEADLOCK FALSE`: the number of calls, messages or steps is
bounded, and afterwards the system stops, as it does when an application makes no
further call.

| Run | Question | Shows |
|---|---|---|
| `MCSolverSearch` | searches with restarts and manual decisions, under root paths that grow and shrink, with stop conflicts set, cleared and popped | answers refine `SearchService`; the clauses stay equivalent to the problem (`DbExact`); levels and queue are consistent and nothing is overlooked (`QueueExact`); analysis sees a conflict of its level and learns an asserting clause; the root path is the caller's; each search and each backtracking returns (`Termination`) |
| `MCSolverEnum` | enumeration by `search` and `backtrack_step` until no model is left, with `split` at any time | flipped decisions stay in force (`ImpliedHeld`); guiding paths and the kept root path partition what is left (`SplitPartitions`) |
| `MCSolverExplicit` | clauses of four and five literals, one of them learnt | false watches are harmless when a decision is taken (`WatchesExact`); literals hold on the premises of their level |
| `MCSolverIntegrate` | any consequence of the problem arrives at any level, one or several at a time, also unit below the current or the backtrack level | every reason stands before its literal on the trail (`TrailSound`) |
| `MCReasoning` | six units: analysis, learnts, loop, clause, subsume, post | learnt clauses are sound and asserting; reductions and removal of variables are safe, and the worst go first; loop formulas and reshaped clauses propagate exactly what follows; subsumption is exact; propagators run in order and leave no work |
| `MCSetup` | thirteen units: graph, context, preprocess, peers, minimize, enum, sched, config, score, look, options, keys, words | arcs and meaning of the short graph; variables, constraints and preprocessing over several steps; peers; costs and bounds; consequences; lazily computed limits and scores; what the command line was told |
| `MCFrontEnd` | fifteen units: app, convert, aspif, text, smodels, reify, theory, program, domain, sccs, ext, queue, heap, sequence, mpsc | signals and alarms; formats read back, conversions and facts mean the same; tables, graphs and containers hold what was put into them; the second queue |
| `MultiQueueSafe` | two threads, each publishing and consuming | ownership, reference counts, destructor (`QueueSafe`), refinement of `BroadcastLog` |
| `MultiQueueLive` | the same under fairness | messages are delivered to who keeps asking and publishing returns |

Three runs are expected to be violated; each is a finding in `PROJECT.json`:

* `MCSolverFlipConflict`: `resolve_conflict` on the backtrack level forgets the
  conflict it should resolve, and the next search answers with an assignment
  that is not a model.
* `MCReasoningCollapse`: `LoopFormula::simplify` replaces a formula by short clauses
  that lack its last body.
* `MultiQueueFreeTwice`: with a producer that is not one of the counted
  consumers a node can be released under it. The passing runs keep to producers
  that are consumers.

The first also limits what the passing runs ask for: `MCSolverEnum` makes no manual
decisions, which would drive `backtrack_step` into a conflict on the backtrack level.
In the passing runs learning is switched on; with `Learning = FALSE` conflicts above
the backtrack level are only backtracked from, which may go on for ever.

### Bounds

The solver: three variables are enough for a conflict on level two or three with a
reason chain, for a learnt clause with a literal to minimise and for a root path below
a search; explicit clauses need four, and a learnt explicit clause five. The
formulas are chosen for the case named beside each in `MCSolver`. `MaxCalls` is
large enough for each run's longest story: enumeration of all six models of
`Free2` and the refutation at its end takes 15 calls, going in and out of a root
path around searches takes six. Three nodes and messages let the free stack be
refilled and a node be used again while another thread still holds a stale
pointer; four let this happen behind a list of two. `NodeSymmetry` permutes nodes,
which are interchangeable; it is used for safety only.

The units:

| Unit | Bounds | Reached by them |
|---|---|---|
| analysis | 4 variables on 3 levels, every reason a set of earlier ones, every option | a uip behind a chain, a literal removed recursively, a reverse arc, two levels replaced by decisions |
| learnts | 2 variables and an auxiliary one, 2 clauses, `ActMax` 3, `LbdMax` 4 | a reason that is the worst clause, scores that saturate, a variable popped under a clause |
| loop | 2 atoms, 3 bodies, 4 facts, decisions and simplifications | the cell exchanged while the other atom waits, the collapse to short clauses |
| clause | 4 literals, 3 decisions or facts | a hidden tail that comes back, a strengthened and a shared clause |
| subsume | 3 variables, 2 watched clauses, abstractions of 2 bits | a clause strengthened twice, a watch moved to a list read later, abstractions that collide |
| post | 3 propagators, 1 forced literal, 6 calls | a pass inside a pass, removal of the propagator that runs |
| graph | 3 variables, 3 clauses or facts | a ternary clause shortened and found again as a binary one |
| context | 2 variables, 1 more solver, 2 constraints, 2 steps | a solver that has half of the constraints when the step ends |
| preprocess | 2 variables, 3 clauses, added in any step | units that falsify a clause, a step without preprocessing |
| peers | up to 20 solvers | every cube with missing corners up to 16 solvers, and the first ones of the next dimension |
| minimize | 2 variables, 3 literals, 2 threads | weights that cancel, `inc_lower` racing itself over two levels |
| enum | 2 variables, every set of models, 3 calls | a consequence that is given up and one that is confirmed by the last model |
| sched, score | 40 steps, 16 samples; 34 steps and 2 bumps | every schedule wraps; a shift of 32 and more |
| config | 2 solvers, 2 searches, 4 changes | two solvers that share a search |
| look | 2 variables, 1 call | dependencies scored before the literal |
| options, keys, words | 2 options, 2 tokens, 2 sources; 2 solvers, 3 calls; 1 edit | a name that is the beginning of another, an error between two sources, a disabled schedule |
| app | 2 runs, 2 alarms, 1 call | an alarm of the first run that fires in the second |
| convert | 2 atoms, 3 steps; statements up to a weight of 6, where one that shows an atom or a term weighs 2 and any other 3 | a term with several conditions and in three steps, a name given in a step after its use or refused, an external that gets a rule, a heuristic of an atom without a name |
| aspif, smodels, text, reify | 2 atoms, 2 (text: 3) statements, 2 steps | a name given in a step after its use, tuples of a step that is over |
| theory, program, domain | 5 operations, 2 steps; 2 edges; 2 modifications | a list that grew and shrank, equal priorities |
| sccs, ext | 3 nodes, 3 edges, 2 calls | a graph that grew between two calls |
| queue, heap, sequence | 5 keys with 2 scores, slices of 4; cells of two sizes, 7 operations | ties, the last element moved into a hole, a buffer that grows and is cut back |
| mpsc | 2 producers, 3 spare nodes, 4 pushes | a node pushed again while the other producer has not linked its own |

### Fairness

The solver: weak fairness of `Running`, as the thread that is in a call goes on;
the application need not call anything. The queue: weak fairness of each thread's
step, strong fairness of a *successful* exchange (a weak exchange does not fail
for ever while the comparison would hold again and again; the code's retry
loops rely on this), and of `Consume` (`MultiQueueLive` asks what consumers that
keep polling receive). The units are checked for safety: their operations are
straight-line code or loops over a list, each a single step, so none can be left
half done except by a thread that has stopped.

## 4. Proofs

The theorems about the solver are about any number of variables, any problem and any
bound on the calls. Assumptions are `NumVarsAssumption` and `KernelAssumption` (clauses are
non-empty sets of literals), and for some theorems which calls the program makes:

| Theorem | States | Calls |
|---|---|---|
| `TypeCorrect` | `[]TypeOK` | any |
| `LevelsOrdered` | `[]LevelInv` | any |
| `RootPathIsKept` | `RootPathKept` | any |
| `ReasonsComeFirst` | `[]TrailSound` | `CallsFit` |
| `AssignmentFollows` | `[]AssignmentSound` | `CallsFit` |
| `ClausesFollow` | `[]DbEntailed` | `CallsFit` |
| `QueueInBounds` | `[]QueueInv` | `CallsFit` |
| `LearntIsAsserting` | `[]LearntAsserting` | `CallsFit` |
| `ConflictIsAsserting` | `[]ConflictAsserting` | `CallsFit`, no `integrate` |
| `QueueNeverSkips` | `[]QueueExact` | `CallsAlone` |
| `WatchesNeverBlind` | `[]WatchesExact` | `CallsAlone` |
| `DbNeverDrifts` | `[]DbExact` | `CallsAlone` |
| `AnswersAsPromised` | `ImplementsService` | `CallsAlone` |
| `SplitNeverOverlaps` | `[]SplitPartitions` | `CallsEnum` |
| `ImpliedStaysTrue` | `[]ImpliedHeld` | `CallsEnum` |

Those about the queue are for any number of threads, nodes and messages
(`QueueAssumption`), if every producer is one of the counted consumers
(`ProducersRead`); both are met by `MultiQueueSafe`, and `MultiQueueFreeTwice` shows
that the condition is needed:

| Theorem | States | Calls |
|---|---|---|
| `QueueStaysSafe` | `[]QueueSafe` | `ProducersRead` |
| `QueueIsALog` | `ImplementsLog` | `ProducersRead` |

Those about the queue with one consumer ask nothing of the calls, for any number of
producers, nodes and pushes (`Sizes`: two natural numbers):

| Theorem | States |
|---|---|
| `SingleQueueSafe` | `[]MpSafe` |
| `SingleQueueIsALog` | `DeliversInOrder`: it refines `BroadcastLog` |

Those about the post propagators are for any number of them (`Sizes`: a natural number),
and any bound on what they assign and on the calls:

| Theorem | States |
|---|---|
| `CheapGoesFirst` | `[]CheapFirst` |
| `CallsReachFixpoint` | `FixpointReached` |

`CallsFit`: no `set_backtrack_level`, and not both `integrate` and `backtrack_step`. A
lowered backtrack level can bring a flipped decision above it that is not the first
literal of its level, and analysis would then resolve on a literal without a reason;
`integrate` next to `backtrack_step` can leave a clause that is false above the
backtrack level while the list of implied literals is active there.
`CallsAlone`: neither `integrate` nor `backtrack_step` nor `set_backtrack_level`. A
unit clause integrated below a root path may be overlooked, since `force_implied`
resets the queue past it (the hazard at `constraint.rs:1508`), and `backtrack_step`
may forget a conflict on the backtrack level (the finding of `MCSolverFlipConflict`).
These are programs in which one solver searches alone, with any mixture of searches,
restarts, manual decisions, root paths, stop conflicts and splits: the calls of
`MCSolverSearch` and `MCSolverExplicit`.
`CallsEnum`: `search`, `propagate`, `assume`, `restart`, `split`, `backtrack_step`: one
enumerating solver, the calls of `MCSolverEnum` with restarts and manual decisions. It
has no `push_root_level` or `pop_root_level`, as the paths handed out are counted by
the root levels that `split` has pushed, and no stop conflict, which would hide the
assignment the paths are compared with. The conditions are about the constant `Api`,
and each is met by passing runs.

**Types and levels** (`SolverProofs`). `TypeOK` and `LevelInv` are inductive only
together: cutting the trail and the decisions at a level gives sequences only when
`root <= bt <= DL`, and the comparison is about numbers only in a well-typed state.
`Good(s)` is their common part for a solver state, and each operator of `SolverState`
has a lemma that it preserves `Good`. The walk over the implied literals is a
recursive function, and its value is shown to exist and to be typed by induction over
positions, which `NatSetInduction` derives from well-foundedness of `<`. For the root
path the same lemmas show `Keeps(s, t)`: the root does not sink and the decisions up
to it are the same; `PopRootLevel` and `ClearStopConflict` are exactly the operators
without it, and only calls use them.

**Soundness** (`SoundnessProofs`). None of the properties is inductive, nor are they
together; the invariant `Sound` has five parts. `SolverInv`: the trail is ordered by
level, holds a variable once, its reasons are clauses that may be used and stand
before their literal (`TrailOk`), the conflict is false, the list of implied
literals holds what a clause forces. It is about the state as it is and about the
state that `clear_stop_conflict` would put back (`Base`), since a stop conflict hides
a conflict and a queue that come back. `ControlInv`: what the program counter says
about levels, conflict and queue. `AnalysisInv`: the literals collected so far
with those of the current level are what is left of the conflict. `DbInv`: clauses,
reasons and conflicts follow from the problem and the top level (`SureOf`).
`WatchInv`: two watches of the clause. A reason follows at its own level only because
`undo_until` removes it together with the last literal it needs, so soundness of the
assignment goes by the position on the trail, over `TrailShape` and `Reasoned`.
That the learnt clause follows is resolution, one antecedent per `Analyze`.

**Completeness of propagation** (`PropagationProofs`). "No clause is unit when the
search decides" says nothing about the states between decisions, so the invariant
`Propagated` says what has been settled in every one of them. `Closure`: if all but
one of the literals of a short clause are false by a level and have been taken off
the queue (`Done`), the last is true by that level or remembered as implied there
(`Answered`); likewise for a false watch of an explicit clause. A conflict
leaves the queue in the middle of a level, so this is asked of the levels below it
only (`Settled`). `Ordered`: what waits on the queue belongs to the decision level,
and remembered literals are true where the list was last forced. Backjumps, learning,
simplification and a changed root path are compared with the state before through
`Follows(s, t)`: each level settled in `t` has a level settled in `s` with at least
the same propagated literals and no answer that `t` lacks. It is transitive, keeps
`Closure` (`FollowsClosure`), and each operator has a lemma that it holds. A literal
that is remembered instead of true is what makes the level of a watch meaningful
after `undo_until`; this is why `WatchesExact` accepts a literal that is true late but
remembered for the level of the watch (`HeldBy`).

**Meaning and answers** (`ServiceProofs`). That the clauses follow from the problem is not
enough for "false", nor that nothing is overlooked for "true". Three more invariants say
what is missing; with the earlier ones they are `Orderly`. `Ledger`: a literal without a
reason is a unit of the problem or the decision of a level that is still open, each
decision is true by its level, and a conflict is a valid clause that the assignment
falsifies. As before, the operators that move the solver are compared with the state
before, by `Moves(s, t)`: what belongs to the levels left open stays, and what is new
belongs to the last one. `Flow`: where the thread stands only with no level open (setting
up, `giveup`) or with a conflict on the root level (`after`). `Tidy`: the clauses that are
left, with the top level, say all that the problem says (`Said`). `Solver::simplify` drops
a ternary clause that cannot shrink to two free literals; on the top level `OneFalse`
shows from `Closure` that it always can, and above it there is none to shrink, since the
top level has been drained and cleaned before a level was opened (`Clean`, `Drained`).
None of it survives units that contradict each other, for what comes after them is not
added (`Refuted`); hence the form of `DbComplete`. The refinement follows step by step:
`ShownTrue` reads the complete assignment as a truth table in which `NoMissedPropagation`
satisfies every clause and `Said` the problem; `ShownFalse` follows the trail from the
root path to the falsified clause (`NoneLeft`); every other step is a call to the service,
or nothing (`ShownCall`).

**Splitting and enumeration** (`SplitProofs`). `backtrack_step` may forget a conflict on
the backtrack level, so neither `Propagated` nor `Orderly` survives it; what does is said
model by model, in `SplitInv`. `Excluded(m)` says that `backtrack_step` has gone past a
model. One that it has not is still reached (`TracksLeft`): as long as the model makes the
decisions, it has all that is assigned or remembered up to their levels (`Tracks`). One
that it has gone past is falsified at a level that is not undone any more (`LeavesPast`,
`Leaves`), or the solver is refuted, or a flip is under way, when the decisions that are
left lead to such models only (`FlipsPast`). For this every literal must have a source
(`Sourced`: a unit of the problem, a decision, a remembered literal) and every decision be
true by its level (`Seated`). `ListHolds`: the remembered literals are true where the list
was last forced, or are just being forced. `Guided`: the `i`-th guiding path goes the
other way at the `i`-th decision of the root path, and has every model that makes the
decisions before it and is not past, and none that is past. Then `SplitCovers` looks at
the first decision of the root path that a model misses (`LeastMissed`), and
`SplitDisjoint` at the decision two paths disagree on, with `AssignmentSound` for the path
that is kept. `ImpliedHeld` is `ListHolds` where there is no conflict. The theorems show
that even the forgotten conflict costs no model: it may only let one through that is none.

**The queue** (`MultiQueueProofs`). `QueueSafe` speaks of the nodes that a chain of
pointers reaches; a step that writes one pointer may change all of them, so it is
not inductive. `QueueInv` names the nodes instead: there are sequences `at` (the node
of each message that was linked, recycled or not) and `stk` (the free stack), and a
position `n` of the tail, of which the state is the image (`Listed`). A message is
`Kept` while a consumer has not released it, and kept messages have different nodes
(`NodeInv`), whose count of references is the number of those consumers; the sentinel
points to the first of them except while it is being returned (`FirstInv`); the tail
lags by one node at most, whose publisher is about to move it (`TailInv`); every node
is in the heap, on the stack, in the list or owned by one thread (`OwnInv`, `PlaceInv`).
The hard part is what a thread has read and may be stale. A popping thread compares
the top of the stack with a node it read earlier: the node may have been popped, used
and pushed again meanwhile (`PopInv`). It cannot, as the thread is a consumer too: a
node that left the stack and was linked stays referenced until this thread has passed
it, which it does not while it is in a call. For the same reason the tail that a
publisher read is not behind its own position and still in the list (`AppendInv`).
`ListFromChain` then shows that `ListFrom` finds just these nodes,
by induction on the number of steps, and `QueueSafe` and `BroadcastLog` are
read off: a step links `log[n + 1]`, moves a consumer, drops the queue, or is hidden.

**The queue with one consumer** (`MpScProofs`). `MpSafe` is `MpOrdered` and `MpOwned`.
`MpOrdered` says where messages are only when the consumer finds nothing, and `MpOwned`
speaks of the nodes behind the tail, of which a push that has swapped the head but not
linked its node cuts off the rest. So the invariant, `MpInv`, names the nodes as above:
`at[j]` is the node of the `j`-th message in the order of the swaps, and `at[0]` the
sentinel. Those from the position of the tail to that of the head are different nodes
(`Shape`); each points to the next, or to nothing while the push that swapped it out is
still to link it (`LinkInv`), and each such push has its place there (`PendInv`), also
when several of them wait at the same time. A message lies in its node until it is taken
(`DataInv`); no node of the list is free (`FreeInv`) or in a push before its swap
(`OwnInv`); and while `pop` moves the payload, the old tail is still its own (`PopInv`).
`at` grows at its end with each swap and never changes elsewhere, although a node that was
popped is used again at once. The nodes behind the tail are the least set that is closed
under the successor, and lie in the list because the list is such a set (`ChainInList`).
The refinement takes a message as published when its push swaps the head, before the node
is linked.

**The post propagators** (`PostProofs`). `CheapFirst` is about the pass that runs. When it
returns, the pass that called it goes on at a link it has kept, in a list that may have
grown shorter, and nothing in the property says where that is. The invariant, `PostInv`,
gives places instead: `at[i]` is the propagator at place `i` of the list, `n` their
number, `pl[i]` the place behind which the `i`-th pass stands. The links lead through the
places (`PlaceInv`), which are sorted (`SortInv`); what has work is listed (`TodoInv`).
Each pass stands on a link of the list and what it stops at lies ahead (`FrameInv`); a
pass inside another stops where the caller runs, has no bound on the priority, and has not
come further (`NestInv`); the innermost pass has left no work behind it, and unit
propagation nothing in its queue (`TopInv`). That is asked of the innermost pass only: a
propagator that assigns something wakes others that its callers have passed, and these get
their turn because the new pass starts from the head and does not return "yes" before it
has come to its caller. It cannot end early, having no bound, nor miss its end, as a
propagator leaves only while no outer pass stands on its link; so the place a caller finds
on return is the place it left, with nothing to do before it. `Behind(l)` is the least set
closed under the successor. That it is the places after that of `l` (`BehindIs`) is by
induction on the place, from the well-foundedness of `<`. Insertion and removal shift the
places behind the one that changes, and each has a lemma that the new places are again
those of the new links.

**Only model-checked:** liveness (out of the prover's reach), and all units but `mpsc`
and `post`: several of them compute with recursive operators or folds over data, which
the prover cannot do induction over. `DeliversInOrder` is the other way round: it is proved, and
`MpSafe` checks the part of it that is about what was popped.

## 5. Disagreements that have no run

Beside the three runs above, these were met while modelling. A cfg that names the
property with the bounds given here shows each of them. They have no run of their own:
the property of the passing run that reaches the case sets it aside by name, and says so
in its comment. For three of them something in the repository does promise otherwise;
it is quoted.

| Property | Bounds | What happens |
|---|---|---|
| `ConvertedHidden` (`SmodelsFormat`) | as in `MCFrontEnd` | with `lpconvert -p -f` heuristic predicates are converted and still shown, where the option says "Hide converted potassco predicates" (`potassco/app/lpconvert.rs:309`): `map_symbol` answers false for them (`potassco/smodels.rs:388`); `LpReadBack` asks nothing of the names of heuristic predicates in this case |
| `TernaryStrengthened` (`ShortGraph`) | three variables | `preprocess_short` may drop a ternary clause of which the premise refutes one literal (`shared_context.rs:2383`), where the test `shared_context_preprocess_short_strengthens_ternary_implications` (`src/tests/clasp_shared_context.rs:303`) sees one replaced by its binary rest; `GraphKept` sets this case aside (`dropped`) |
| `CopiesApart` (`Containers`) | two operations | `erase_right_unordered` of the newest right element copies it onto itself with `ptr::copy_nonoverlapping` (`util/left_right_sequence.rs:293`), which is undefined; its comment argues only that both pointers are in the region, and the left variant has a guard (263). A build that checks it aborts, another leaves the buffer as it is: both are outcomes of the action, and `BothKept` asks nothing after the abort |
| `NamesTaken` (`SmodelsConvert`) | as in `MCFrontEnd` | an atom that has a name, was then the condition of a term and is given another name is refused ("Redefinition", a panic): `make_atom` for the term resets `show` (`potassco/convert.rs:332`), so that no second atom is made; `ShownExactly` says that nothing else is refused |
| `TermOnce` (`SmodelsConvert`) | as in `MCFrontEnd` | a term that is output in three steps may be shown twice: the atom of the third step is false when that of the second is, not that of the first (`potassco/convert.rs:495`); `ShownExactly` speaks of steps that follow each other |
| `TextKept` without `Unkept` (`ConfigText`) | as in `MCSetup` | a disabled schedule is written "0", which the parser refuses (`cli/clasp_options.rs:425`, 533); a dynamic one without a fast average loses its keep word (548), one without a slow average its window; a luby limit above two grows |
| `SupportsExact` (`ProgramTables`) | as in `MCFrontEnd` | a list of supports that grew and was emptied brings back edges that were removed (`logic_program_types.rs:464`), until it is cleared |
| `TopLevelMarked` (`SolverCorrectness`) | `TopFalseFormula`, five variables, `search` | a literal false on the top level reaches the walk of `analyze_conflict`, which marks no such literal (`constraint.rs:2552`) |
| `ModelSound` (`SolverCorrectness`) | `RefutedFormula`, `search`, `push_root`, `integrate`, five calls | a unit clause integrated under a root path is taken from the queue before it is propagated (`constraint.rs:1508`) |
| `FastExitAsked` (`AppSignals`) | one run, one alarm, no call | `main` may leave by the fast exit although no option, error or handler has asked for it |
| `TermsKeepTheirName` (`TextFormat`) | two statements, two steps | a term of an earlier step that is named again is refused ("Redefinition: term already defined") |
| `ElementOnce` (`TheoryTables`) | as in `MCFrontEnd` | `add_element` sizes the table by the number of terms: an element with an id below that may be redefined in the step that introduced it (`potassco/theory_data.rs:383`) |
| `PreprocessReturns` (`SatPreprocess`) | as in `MCSetup` | units that falsify all literals of a clause: `attach_clauses` asks the empty clause for its first literal and panics (`asp_preprocessor.rs:285`) |

Two more are exceptions in a property: a ring of one solver makes it its own peer
(`PeersConnected`), and the numbers of reified components start again in every step even
if steps are not reified (`ReifiedMeans`). In reified tuples a weighted literal that
occurs twice with the same weight is one element, as the tuple is a set.

## 6. What is not modelled, and why

* Logic program front end (`logic_program.rs`, `program_builder.rs`, `parser.rs`): options,
  statistics and accessors; the translation of rules is not ported.
* Unfounded set checks (`unfounded_check.rs`): nodes, queues and flags with accessors; the
  propagator is not ported.
* Facade, solve algorithms, weight constraints: types and stubs.
* Statistics, `util/pod_vector.rs`, `util/misc_types.rs` (but its averages, `SolverStrategies`),
  basic types, formatting and errors of potassco: data handling without control.
* Thread wrappers (`mt/thread.rs`): calls of the standard library.
* In modelled parts: the memory layout of clauses, the choice of sign and the domain
  heuristic, on-the-fly subsumption, occurrence lists of Satelite, `extend_model`, the
  tokenizer of the readers, the output of answers, the text of named configurations;
  of the command line `--` and `--name=`, and the options of the runs leave no
  abbreviation ambiguous; the block of externals before the number of models of a
  smodels program, which the port never writes; that `new_unshared` leaves out the
  literals that are false on the top level when a clause is integrated
  (`clause.rs:2186`), which the clauses of the runs do not have.
* Merged steps: the stores with which `AppSignals` makes an application ready for a run
  (`potassco/application.rs:184` to 190), and the two with which it handles an exception
  (647 and 648), are one step each.
* Weak memory: all threads see one order of the accesses.

## 7. Hazards beyond those in PROJECT.json

* `add_to_index` enters an alias before it finds the name taken
  (`potassco/program_opts/program_options.rs:787`); a context that failed is not used on.
* A configuration file's value is applied when the next line is read
  (`potassco/program_opts/program_options.rs:1446`); `ToldFirst` covers it.
* Between `add_edge` and `finalize` the external graph's offsets point into arcs that are
  cleared (`dependency_graph.rs:392`); nothing reads it then.
* With all-uip learning a level may be resolved past its uip to its decision
  (`constraint.rs:2799`): the clause stays sound.
* The recursive minimisation never remembers a result, its epoch does not move
  (`constraint.rs:2874`): time, not outcome.
* `resolve_to_flagged` clears only the marks of what it returns (`constraint.rs:563`); only
  tests call it.
* A loop formula with one atom left and more than three bodies is attached again with one
  watch (`clause.rs:1552`); `LoopsSound` speaks of formulas with a current atom.
* Strengthening may watch a literal false on a lower level (`clause.rs:1154`); the learnt
  clause that caused it finds the unit.
* `simplify` removes clauses by one solver's top level from the graph all share
  (`constraint.rs:1807`); no two solvers of `src/` search one context yet.
* `set_mode` of the minimize constraint stores part of its changes before it fails
  (`minimize_constraint.rs:274`); what a caller may rely on then is said nowhere.
* A signal that finds the application blocked may be stored after `unblock_signals` has
  looked, and is delivered by nobody (`potassco/application.rs:558`).
* The field of an atom's component is also the goal it is equivalent to
  (`logic_program_types.rs:639`); an element that fills a gap may shrink the table of
  elements (`potassco/theory_data.rs:384`); the largest bias stands for none
  (`shared_context.rs:565`).
* Numbers in words: a legacy number overflows (`cli/clasp_options.rs:381`),
  undefined bits pass (`cli/clasp_options.rs:147`).

## 8. Plan for the proofs

1. The sequence of `Containers`: the two ends never cross, for every size of cells. It
   shares its module with the queue, whose recursive operators the prover does not
   take, and needs a module of its own.
2. The bounds of `Minimize`, for any number of threads and levels.

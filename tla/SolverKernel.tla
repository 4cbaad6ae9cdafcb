---------------------------- MODULE SolverKernel ---------------------------
(***************************************************************************)
(* The conflict-driven search of clasp::Solver over a clause database: the *)
(* short implication graph (clauses of two or three literals), the watched *)
(* explicit clauses, unit propagation, conflict analysis, learning,        *)
(* backjumping and the chronological fallback, and the calls an            *)
(* application makes between two searches.                                 *)
(*                                                                         *)
(* The solver is one thread. Its nondeterminism is the heuristic's choice, *)
(* the order in which a literal's clauses are visited, the moment at which *)
(* a search limit is reached, and the order of the calls. "pc" is the      *)
(* place in the code the thread has reached; a call of propagate() leaves  *)
(* in "ret" where to go on when it succeeds and when it fails.             *)
(***************************************************************************)
EXTENDS SolverState

CONSTANTS
  Formulas,   \* the clause sets a run starts from
  Api,        \* names of the calls the application may make
  Learning,   \* FALSE: the search strategy is NoLearning
  Batches,    \* TRUE: several clauses may be integrated before propagating
  MaxCalls    \* bound on the number of calls

ASSUME KernelAssumption ==
  /\ \A f \in Formulas : f \subseteq ((SUBSET Lit) \ {{}})
  /\ Learning \in BOOLEAN /\ Batches \in BOOLEAN
  /\ MaxCalls \in Nat

VARIABLES
  formula,    \* the problem, as it was given
  imps,       \* clauses of the short implication graph
  watches,    \* explicit clause -> the two literals it watches
  sol,        \* the assignment state, see SolverState
  pc, ret,    \* where the thread is, and where propagate() returns to
  an,         \* the state of a running conflict analysis
  arg,        \* the literal of a running push_root
  result,     \* what the last search returned
  given,      \* the guiding paths handed out by split, as literal sets
  excluded,   \* history: the models that backtrack_step has left behind
  calls       \* number of calls made

vars == <<formula, imps, watches, sol, pc, ret, an, arg, result, given, excluded, calls>>
db   == <<imps, watches>>

NoAnalysis == [lits |-> {}, seen |-> {}, on |-> 0, cur |-> {}, uip |-> 0]
Explicit   == DOMAIN watches
Clauses    == imps \cup Explicit
Idle       == pc = "idle"

(***************************************************************************)
(* The problem is added before anything is assigned: short clauses to the  *)
(* graph, longer ones with two watches, units as pending top-level facts.  *)
(***************************************************************************)
UnitLits(f) == {l \in Lit : {l} \in f}

(* A clause watches its first two literals; which these are depends on how *)
(* it was written down, here any two.                                      *)
FirstTwo(c) ==
  LET first == CHOOSE l \in c : TRUE
  IN {first, CHOOSE l \in c \ {first} : TRUE}

Init ==
  /\ formula \in Formulas
  /\ imps = {c \in formula : Cardinality(c) \in {2, 3}}
  /\ watches = [c \in {k \in formula : Cardinality(k) > 3} |-> FirstTwo(c)]
  /\ sol = NewSolver
  /\ pc = "init" /\ ret = [ok |-> "idle", fail |-> "idle"]
  /\ an = NoAnalysis /\ arg = 0 /\ result = "none" /\ given = <<>> /\ excluded = {} /\ calls = 0

(***************************************************************************)
(* Unit propagation.                                                       *)
(***************************************************************************)
Call(ok, fail) == pc' = "prop" /\ ret' = [ok |-> ok, fail |-> fail]
QueueEmpty == sol.front = Len(sol.trail)

QHead == sol.trail[sol.front + 1].lit

(* The literals of a clause that are not false.                            *)
NotFalse(c) == {l \in c : ~IsFalse(sol, l)}
Satisfied(c) == \E l \in c : IsTrue(sol, l)

(* A clause in which at most one literal is not false and none is true     *)
(* forces that literal, or, when there is none, any of its other literals  *)
(* and so raises a conflict.                                               *)
Forcing(c) == ~Satisfied(c) /\ Cardinality(NotFalse(c)) <= 1
Forced(c, others) == IF NotFalse(c) = {} THEN others ELSE NotFalse(c)

\* Slip: only the binary clauses of the literal are visited.
ShortPendingBinary == {c \in imps : Cardinality(c) = 2 /\ -QHead \in c /\ Forcing(c)}

\* Slip: only falsified clauses are looked at.
WatchPendingConflict == {c \in Explicit : -QHead \in watches[c] /\ NotFalse(c) = {}}

ShortPending == {c \in imps : -QHead \in c /\ Forcing(c)}
WatchPending == {c \in Explicit : -QHead \in watches[c] /\ ~Satisfied(c)}

Propagating == pc = "prop" /\ ~sol.conflict.has /\ ~QueueEmpty

(* ShortImplicationsGraph::propagate, one clause.                          *)
ForceByShort ==
  /\ Propagating
  /\ \E c \in ShortPending : \E l \in Forced(c, c \ {-QHead}) :
       sol' = ForceLit(sol, l, c)
  /\ UNCHANGED <<formula, db, pc, ret, an, arg, result, given, excluded, calls>>

(* clause_head_propagate, one clause: find a new literal to watch, or      *)
(* force the other watched literal.                                        *)
MoveWatch ==
  /\ Propagating /\ ShortPending = {}
  /\ \E c \in WatchPending : \E l \in NotFalse(c) \ watches[c] :
       watches' = [watches EXCEPT ![c] = (@ \ {-QHead}) \cup {l}]
  /\ UNCHANGED <<formula, imps, sol, pc, ret, an, arg, result, given, excluded, calls>>

ForceByWatch ==
  /\ Propagating /\ ShortPending = {}
  /\ \E c \in WatchPending :
       /\ NotFalse(c) \subseteq watches[c]
       /\ \E l \in watches[c] \ {-QHead} : sol' = ForceLit(sol, l, c)
  /\ UNCHANGED <<formula, db, pc, ret, an, arg, result, given, excluded, calls>>

Dequeue ==
  /\ Propagating /\ ShortPending = {} /\ WatchPending = {}
  /\ sol' = [sol EXCEPT !.front = @ + 1]
  /\ UNCHANGED <<formula, db, pc, ret, an, arg, result, given, excluded, calls>>

(* propagate() returns; after a conflict cancel_propagation empties the    *)
(* queue.                                                                  *)
PropagateReturns ==
  /\ pc = "prop" /\ (sol.conflict.has \/ QueueEmpty)
  /\ sol' = [sol EXCEPT !.front = Len(sol.trail)]
  /\ pc' = IF sol.conflict.has THEN ret.fail ELSE ret.ok
  /\ UNCHANGED <<formula, db, ret, an, arg, result, given, excluded, calls>>

Propagation == ForceByShort \/ MoveWatch \/ ForceByWatch \/ Dequeue \/ PropagateReturns

(***************************************************************************)
(* Simplification.                                                         *)
(***************************************************************************)
\* Slip: literals of every level count as top-level facts.
TopLitsAll(s) == TrueLits(s)

TopLits(s) == {s.trail[i].lit : i \in {j \in DOMAIN s.trail : s.trail[j].level = 0}}

\* Slip: a ternary clause with a false literal is dropped altogether.
SimplifiedDrop(clauses, s) ==
  {c \in clauses : c \cap TopLits(s) = {}
                   /\ ~(Cardinality(c) = 3 /\ c \cap Neg(TopLits(s)) # {})}

(* simplify: satisfied short clauses leave the graph, a ternary clause     *)
(* with a literal that is false at the top level becomes binary when its   *)
(* two other literals are free and is dropped otherwise. Explicit clauses  *)
(* and binary clauses with a false literal stay.                           *)
Simplified(clauses, s) ==
  LET top == TopLits(s)
      open == {c \in clauses : c \cap top = {}}
      shrinks(c) == Cardinality(c) = 3 /\ c \cap Neg(top) # {}
  IN {c \in open : ~shrinks(c)} \cup
     {c \ Neg(top) : c \in {k \in open : shrinks(k) /\ Cardinality(k \ Neg(top)) = 2
                                          /\ k \ Neg(top) \subseteq FreeLits(s)}}

(* A problem clause of one literal is a top-level fact.                    *)
AddFact ==
  /\ pc = "init" /\ ~sol.conflict.has
  /\ \E l \in UnitLits(formula) \ TrueLits(sol) : sol' = ForceLit(sol, l, NoAnte)
  /\ UNCHANGED <<formula, db, pc, ret, an, arg, result, given, excluded, calls>>

(* end_init: the units are propagated and the graph is simplified before   *)
(* the first call.                                                         *)
EndInit ==
  /\ pc = "init" /\ (sol.conflict.has \/ UnitLits(formula) \subseteq TrueLits(sol))
  /\ IF sol.conflict.has THEN pc' = "idle" /\ UNCHANGED ret ELSE Call("ready", "idle")
  /\ UNCHANGED <<formula, db, sol, an, arg, result, given, excluded, calls>>

Ready ==
  /\ pc = "ready"
  /\ imps' = Simplified(imps, sol)
  /\ pc' = "idle"
  /\ UNCHANGED <<formula, watches, sol, ret, an, arg, result, given, excluded, calls>>

(***************************************************************************)
(* The search loop.                                                        *)
(***************************************************************************)
SearchTop ==
  /\ pc = "top"
  /\ IF sol.conflict.has THEN pc' = "resolve" /\ UNCHANGED ret
     ELSE Call("simplify", "resolve")
  /\ UNCHANGED <<formula, db, sol, an, arg, result, given, excluded, calls>>

SearchSimplify ==
  /\ pc = "simplify"
  /\ imps' = Simplified(imps, sol)
  /\ pc' = "decide"
  /\ UNCHANGED <<formula, watches, sol, ret, an, arg, result, given, excluded, calls>>

(* decide_next_branch: the heuristic picks any free literal.               *)
Decide ==
  /\ pc = "decide" /\ FreeLits(sol) # {}
  /\ \E l \in FreeLits(sol) : sol' = Assume(sol, l)
  /\ Call("top", "resolve")
  /\ UNCHANGED <<formula, db, an, arg, result, given, excluded, calls>>

Return(v) == result' = v /\ pc' = "idle"

ModelFound ==
  /\ pc = "decide" /\ FreeLits(sol) = {}
  /\ Return("true")
  /\ UNCHANGED <<formula, db, sol, ret, an, arg, given, excluded, calls>>

(* resolve_conflict: give up at the root level, learn from the conflict,   *)
(* or, when the conflict level is the backtrack level or learning is off,  *)
(* only backtrack.                                                         *)
\* Slip: the two cases are swapped.
MustLearnSwapped == DL(sol) = sol.bt /\ Learning

MustLearn == DL(sol) # sol.bt /\ Learning

\* Slip: a conflict one level above the root path is taken for final.
GiveUpEarly ==
  /\ pc = "resolve" /\ (~sol.conflict.has \/ DL(sol) <= sol.root + 1)
  /\ pc' = "after"
  /\ UNCHANGED <<formula, db, sol, ret, an, arg, result, given, excluded, calls>>

GiveUp ==
  /\ pc = "resolve" /\ (~sol.conflict.has \/ DL(sol) <= sol.root)
  /\ pc' = "after"
  /\ UNCHANGED <<formula, db, sol, ret, an, arg, result, given, excluded, calls>>

StartAnalysis ==
  /\ pc = "resolve" /\ sol.conflict.has /\ DL(sol) > sol.root /\ MustLearn
  /\ an' = [NoAnalysis EXCEPT !.cur = sol.conflict.lits]
  /\ pc' = "analyze"
  /\ UNCHANGED <<formula, db, sol, ret, arg, result, given, excluded, calls>>

BacktrackOnly ==
  /\ pc = "resolve" /\ sol.conflict.has /\ DL(sol) > sol.root /\ ~MustLearn
  /\ sol' = Backtrack(sol, DL(sol) - 1)
  /\ Call("after", "resolve")
  /\ UNCHANGED <<formula, db, an, arg, result, given, excluded, calls>>

(***************************************************************************)
(* analyze_conflict, one antecedent per step. A reason literal of level 0  *)
(* that is not yet seen stops the program: mark_level asserts a level      *)
(* above 0.                                                                *)
(***************************************************************************)
NewReasons == {l \in an.cur : Var(l) \notin an.seen}

\* Slip: the level below the conflict level counts as well.
OnLevelOrBelow(ls) == {l \in ls : LevelOf(sol, l) >= DL(sol) - 1}

OnLevel(ls)  == {l \in ls : LevelOf(sol, l) = DL(sol)}
SeenVars(ls) == {Var(l) : l \in ls}
IsLastSeen(i, seen) ==
  /\ Var(sol.trail[i].lit) \in seen
  /\ \A j \in DOMAIN sol.trail : j > i => Var(sol.trail[j].lit) \notin seen

Panics == \E l \in NewReasons : LevelOf(sol, l) = 0

AnalysisPanics ==
  /\ pc = "analyze" /\ Panics
  /\ pc' = "panic"
  /\ UNCHANGED <<formula, db, sol, ret, an, arg, result, given, excluded, calls>>

Analyze ==
  /\ pc = "analyze" /\ ~Panics
  /\ LET seen  == an.seen \cup SeenVars(NewReasons)
         on    == an.on + Cardinality(OnLevel(NewReasons))
         lits  == an.lits \cup Neg(NewReasons \ OnLevel(NewReasons))
     IN \E last \in DOMAIN sol.trail :
          LET pivot == sol.trail[last]
          IN /\ IsLastSeen(last, seen)
             /\ sol' = [sol EXCEPT !.trail = SubSeq(@, 1, last)]
             /\ an' = [lits |-> lits, seen |-> seen \ {Var(pivot.lit)},
                       on   |-> IF on = 1 THEN 1 ELSE on - 1,
                       cur  |-> IF on = 1 THEN {} ELSE Neg(pivot.ante \ {pivot.lit}),
                       uip  |-> IF on = 1 THEN pivot.lit ELSE 0]
             /\ pc' = IF on = 1 THEN "learn" ELSE "analyze"
  /\ UNCHANGED <<formula, db, ret, arg, result, given, excluded, calls>>

(***************************************************************************)
(* Learning: the literals of lower levels whose reasons were all seen may  *)
(* be left out (cc_minimize_clause with local antecedents); the solver     *)
(* jumps back to the highest level of the rest, and the clause is created. *)
(***************************************************************************)
\* Slip: every implied literal is left out, whatever implies it.
RemovableImplied == {l \in an.lits : AnteOf(sol, l) # NoAnte}

Removable == {l \in an.lits :
  AnteOf(sol, l) # NoAnte /\ SeenVars(AnteOf(sol, l) \ {-l}) \subseteq an.seen}

(* ClauseCreator::watch_order: false literals by level, then free, then    *)
(* true literals, the later the lower (the code takes the bitwise          *)
(* complement of their level, which is above the order of all others).     *)
WatchOrder(s, l) ==
  IF IsFree(s, l) THEN DL(s) + 1
  ELSE IF IsTrue(s, l) THEN 2 * DL(s) + 2 - LevelOf(s, l) ELSE LevelOf(s, l)

\* Slip: the literals keep the order the sender gave them.
HighestAny(s, c) == c

(* A literal of a clause that is highest in the watch order.               *)
Highest(s, c) == {l \in c : \A k \in c : WatchOrder(s, k) <= WatchOrder(s, l)}

(* status_prepared, for first literal l0 and second literal l1 (or 0).     *)
SecondOrder(s, l1) == IF l1 = 0 THEN 0 ELSE WatchOrder(s, l1)
FirstOrder(s, l0) == IF IsTrue(s, l0) THEN LevelOf(s, l0) ELSE WatchOrder(s, l0)
Subsumed(s, l0) == IsTrue(s, l0) /\ LevelOf(s, l0) = 0

\* Slip: a free second literal does not keep the clause from being unit.
IsUnitFree(s, l0, l1) ==
  SecondOrder(s, l1) <= DL(s) + 1 /\ FirstOrder(s, l0) >= SecondOrder(s, l1)

IsUnit(s, l0, l1) == SecondOrder(s, l1) <= DL(s) /\ FirstOrder(s, l0) > SecondOrder(s, l1)
IsEmpty(s, l0) == IsFalse(s, l0) /\ LevelOf(s, l0) = 0
MustAssert(s, l0, l1) == IsUnit(s, l0, l1) \/ (IsFalse(s, l0) /\ ~IsEmpty(s, l0))

(* assert_clause_literal, for a clause whose status was taken in state s   *)
(* and that has since been stored (state t): its first literal is forced   *)
(* at the level of its second.                                             *)
Asserted(s, t, c, l0, l1) ==
  IF ~MustAssert(s, l0, l1) THEN t
  ELSE ForceAtLevel(t, l0, IF l1 = 0 THEN 0 ELSE LevelOf(t, l1), c)

(* Solver::add for a clause of one literal: it is forced where the solver  *)
(* stands.                                                                 *)
AddUnit(s, l) == ForceLit(s, l, {l})

StoreImp(c) == IF Cardinality(c) \in {2, 3} THEN imps \cup {c} ELSE imps

\* Slip: the clause watches its first two literals, whatever their levels.
StoreExplicitUnsorted(c, w) ==
  IF Cardinality(c) > 3 /\ c \notin Explicit
  THEN [k \in Explicit \cup {c} |-> IF k = c THEN FirstTwo(c) ELSE watches[k]] ELSE watches

StoreExplicit(c, w) ==
  IF Cardinality(c) > 3 /\ c \notin Explicit
  THEN [k \in Explicit \cup {c} |-> IF k = c THEN w ELSE watches[k]] ELSE watches

(* create_prepared for a learnt clause with first literal l0, second l1.   *)
Created(s, c, l0, l1) ==
  IF Subsumed(s, l0) THEN s
  ELSE IF Cardinality(c) = 1 THEN AddUnit(s, l0)
  ELSE Asserted(s, s, c, l0, l1)

(* The level to jump back to is that of a highest literal of the rest.     *)
Second(s, c) ==
  IF c = {} THEN {0} ELSE {l \in c : \A k \in c : LevelOf(s, k) <= LevelOf(s, l)}

Learn ==
  /\ pc = "learn"
  /\ \E removed \in {{}, Removable} :
       LET l0   == -an.uip
           tail == an.lits \ removed
           c    == {l0} \cup tail
       IN \E l1 \in Second(sol, tail) :
            LET back == UndoUntil(sol, IF l1 = 0 THEN 0 ELSE LevelOf(sol, l1))
            IN /\ sol' = Created(back, c, l0, l1)
               /\ imps' = IF Subsumed(back, l0) THEN imps ELSE StoreImp(c)
               /\ watches' = IF Subsumed(back, l0) THEN watches ELSE StoreExplicit(c, {l0, l1})
               /\ IF sol'.conflict.has \/ (IsEmpty(back, l0) /\ Cardinality(c) > 1)
                  THEN pc' = "after" /\ UNCHANGED ret
                  ELSE Call("after", "resolve")
  /\ an' = NoAnalysis
  /\ UNCHANGED <<formula, arg, result, given, excluded, calls>>

(***************************************************************************)
(* After a conflict: a conflict that is left is final; a top-level state   *)
(* is simplified; a limit may end the search; otherwise it goes on.        *)
(***************************************************************************)
Refute ==
  /\ pc \in {"after", "giveup"} /\ sol.conflict.has
  /\ Return("false")
  /\ UNCHANGED <<formula, db, sol, ret, an, arg, given, excluded, calls>>

SimplifyTop ==
  /\ pc = "after" /\ ~sol.conflict.has
  /\ IF DL(sol) = 0 /\ ~QueueEmpty
     THEN Call("after", "giveup") /\ UNCHANGED imps
     ELSE /\ imps' = IF DL(sol) = 0 THEN Simplified(imps, sol) ELSE imps
          /\ pc' = "limit" /\ UNCHANGED ret
  /\ UNCHANGED <<formula, watches, sol, an, arg, result, given, excluded, calls>>

LimitReached ==
  /\ pc = "limit" /\ FreeLits(sol) # {}
  /\ Return("free")
  /\ UNCHANGED <<formula, db, sol, ret, an, arg, given, excluded, calls>>

Continue ==
  /\ pc = "limit"
  /\ pc' = "decide"
  /\ UNCHANGED <<formula, db, sol, ret, an, arg, result, given, excluded, calls>>

SearchStep ==
  \/ SearchTop \/ SearchSimplify \/ Decide \/ ModelFound
  \/ GiveUp \/ StartAnalysis \/ BacktrackOnly
  \/ AnalysisPanics \/ Analyze \/ Learn
  \/ Refute \/ SimplifyTop \/ LimitReached \/ Continue

(***************************************************************************)
(* The calls an application makes between searches.                        *)
(***************************************************************************)
Counted(name) ==
  /\ name \in Api /\ calls < MaxCalls
  /\ calls' = calls + 1 /\ result' = "none"
Begin(name) == Idle /\ Counted(name)

(* A conflict that no level explains is final: the solving loop restarts   *)
(* only a search that a limit has stopped, when everything is propagated,  *)
(* and leaves a conflict on the root path by popping at least one of its   *)
(* levels.                                                                 *)
NothingToLose == ~sol.conflict.has /\ QueueEmpty

Search ==
  /\ Begin("search") /\ pc' = "top"
  /\ UNCHANGED <<formula, db, sol, ret, an, arg, given, excluded>>

Propagate ==
  /\ Begin("propagate") /\ Call("idle", "idle")
  /\ UNCHANGED <<formula, db, sol, an, arg, given, excluded>>

(* assume, called as the program does: with everything propagated before.  *)
Choose ==
  /\ Begin("assume") /\ NothingToLose
  /\ \E l \in FreeLits(sol) : sol' = Assume(sol, l)
  /\ Call("idle", "idle")
  /\ UNCHANGED <<formula, db, an, arg, given, excluded>>

Restart ==
  /\ Begin("restart") /\ NothingToLose
  /\ sol' = UndoUntil(sol, 0)
  /\ UNCHANGED <<formula, db, pc, ret, an, arg, given, excluded>>

(* push_root: go back to the root level, propagate what is pending, then   *)
(* make the literal a decision of the root path and propagate it.          *)
PushRoot ==
  /\ Begin("push_root")
  /\ \E l \in Lit :
       LET back == IF DL(sol) # sol.root THEN PopRootLevel(sol, 0) ELSE sol
       IN IF sol.conflict.has THEN UNCHANGED <<sol, pc, ret, arg>>
          ELSE /\ sol' = back /\ arg' = l
               /\ IF back.conflict.has THEN UNCHANGED <<pc, ret>>
                  ELSE IF back.front # Len(back.trail) THEN Call("push", "idle")
                  ELSE pc' = "push" /\ UNCHANGED ret
  /\ UNCHANGED <<formula, db, an, given, excluded>>

PushRootAssume ==
  /\ pc = "push"
  /\ IF arg \in FreeLits(sol)
     THEN sol' = PushRootLevel(Assume(sol, arg), 1) /\ Call("idle", "idle")
     ELSE pc' = "idle" /\ UNCHANGED <<sol, ret>>
  /\ arg' = 0
  /\ UNCHANGED <<formula, db, an, result, given, excluded, calls>>

PopRoot ==
  /\ Begin("pop_root")
  /\ \E n \in 0..sol.root : (n > 0 \/ NothingToLose) /\ sol' = PopRootLevel(sol, n)
  /\ UNCHANGED <<formula, db, pc, ret, an, arg, given, excluded>>

SetStop ==
  /\ Begin("set_stop_conflict")
  /\ sol' = SetStopConflict(sol)
  /\ UNCHANGED <<formula, db, pc, ret, an, arg, given, excluded>>

ClearStop ==
  /\ Begin("clear_stop_conflict")
  /\ sol' = ClearStopConflict(sol)
  /\ UNCHANGED <<formula, db, pc, ret, an, arg, given, excluded>>

SetBacktrack ==
  /\ Begin("set_backtrack_level")
  /\ \E n \in 0..DL(sol) : sol' = SetBacktrackLevel(sol, n)
  /\ UNCHANGED <<formula, db, pc, ret, an, arg, given, excluded>>

(* backtrack_step: levels are undone until the complement of the last      *)
(* decision can be forced one level lower; it is remembered as implied     *)
(* there. At the root level the solver stops instead. Enumerators call it   *)
(* for a model just found.                                                 *)
BacktrackStep ==
  /\ result = "true" /\ Begin("backtrack_step") /\ pc' = "flip"
  /\ excluded' = excluded \cup {TrueLits(sol)}
  /\ UNCHANGED <<formula, db, sol, ret, an, arg, given>>

Flipped(s) ==
  LET target == MaxOf(DL(s) - 1, s.root)
      undone == UndoUntil([s EXCEPT !.bt = target], target)
      flip   == -Decision(s, DL(s))
      back   == SetBacktrackLevel(undone, DL(undone))
  IN IF back.conflict.has THEN back ELSE ForceLit(back, flip, NoAnte)

Flip ==
  /\ pc = "flip"
  /\ IF DL(sol) = sol.root
     THEN sol' = SetStopConflict(sol) /\ pc' = "idle"
     ELSE \E next \in {Flipped(sol)} :
            LET flip == [lit |-> -Decision(sol, DL(sol)), level |-> DL(next), ante |-> NoAnte]
            IN IF next.conflict.has THEN sol' = next /\ UNCHANGED pc
               ELSE sol' = AddImplied(next, flip) /\ pc' = "idle"
  /\ UNCHANGED <<formula, db, ret, an, arg, result, given, excluded, calls>>

(* split: the first level above the root is given away negated, after the  *)
(* root path and the literals implied on it.                               *)
\* Slip: the literals implied on the root path are not handed over.
GuidingPathDecisions(s) == {Decision(s, k) : k \in 1..s.root}

GuidingPath(s) ==
  {Decision(s, k) : k \in 1..s.root} \cup
  {s.implied.lits[i].lit : i \in {j \in DOMAIN s.implied.lits :
                                    s.implied.lits[j].level <= s.root}}

\* Slip: the path is copied after the level has been made part of the root.
SplitAfterPush ==
  /\ Begin("split") /\ DL(sol) > sol.root
  /\ sol' = PushRootLevel(sol, 1)
  /\ given' = Append(given, GuidingPath(sol') \cup {-Decision(sol, sol.root + 1)})
  /\ UNCHANGED <<formula, db, pc, ret, an, arg, excluded>>

Split ==
  /\ Begin("split") /\ DL(sol) > sol.root
  /\ sol' = PushRootLevel(sol, 1)
  /\ given' = Append(given, GuidingPath(sol) \cup {-Decision(sol, sol.root + 1)})
  /\ UNCHANGED <<formula, db, pc, ret, an, arg, excluded>>

(* ClauseCreator::integrate of a clause another solver has learnt: the two *)
(* literals highest in the watch order come first. Clauses arrive one or   *)
(* several at a time, and are propagated when they have all been added.    *)
Consequences == {c \in (SUBSET Lit) \ {{}} :
  /\ \A l \in c : -l \notin c
  /\ \A m \in [Vars -> BOOLEAN] :
       (\A k \in formula : \E l \in k : m[Var(l)] = (l > 0)) => \E l \in c : m[Var(l)] = (l > 0)}

Integrate ==
  /\ Idle \/ (pc = "integrate" /\ Batches)
  /\ Counted("integrate") /\ ~sol.conflict.has
  /\ \E c \in Consequences :
       /\ \A l \in c : ~(IsTrue(sol, l) /\ LevelOf(sol, l) = 0)
       /\ \E l0 \in Highest(sol, c) :
          \E l1 \in IF c = {l0} THEN {0} ELSE Highest(sol, c \ {l0}) :
            LET added == IF Cardinality(c) = 1 THEN AddUnit(sol, l0) ELSE sol
            IN /\ sol' = Asserted(sol, added, c, l0, l1)
               /\ imps' = StoreImp(c)
               /\ watches' = StoreExplicit(c, {l0, l1})
  /\ pc' = "integrate"
  /\ UNCHANGED <<formula, ret, an, arg, given, excluded>>

Integrated ==
  /\ pc = "integrate" /\ Call("idle", "idle")
  /\ UNCHANGED <<formula, db, sol, an, arg, result, given, excluded, calls>>

ApiCall ==
  \/ Search \/ Propagate \/ Choose \/ Restart \/ PushRoot \/ PopRoot
  \/ SetStop \/ ClearStop \/ SetBacktrack \/ BacktrackStep \/ Split \/ Integrate

Running == AddFact \/ EndInit \/ Ready \/ Propagation \/ SearchStep \/ PushRootAssume \/ Flip \/ Integrated

Next == Running \/ ApiCall

(* The thread that runs the solver keeps running.                          *)
Spec == Init /\ [][Next]_vars
FairSpec == Spec /\ WF_vars(Running)
=============================================================================

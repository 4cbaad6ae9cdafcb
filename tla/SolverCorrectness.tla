------------------------- MODULE SolverCorrectness -------------------------
(***************************************************************************)
(* What SolverKernel must guarantee, stated against the truth table of the *)
(* problem.                                                                *)
(***************************************************************************)
EXTENDS SolverKernel

Assignments  == [Vars -> BOOLEAN]
Holds(m, l)  == m[Var(l)] = (l > 0)
AllHold(m, ls) == \A l \in ls : Holds(m, l)
Fulfils(m, f) == \A c \in f : \E l \in c : Holds(m, l)
Models == {m \in Assignments : Fulfils(m, formula)}

Entries(s) == {s.trail[i] : i \in DOMAIN s.trail}

(* The literals up to a level that is still open and that nothing implies: *)
(* decisions, flipped decisions and the units of the problem.              *)
Premises(level) ==
  {e.lit : e \in {f \in Entries(sol) : f.ante = NoAnte /\ f.level <= MinOf(level, DL(sol))}}

(* Every part of the state has the shape the code's types give it.         *)
Returns  == {"idle", "ready", "simplify", "resolve", "top", "after", "push", "giveup"}
Analysis == [lits : SUBSET Lit, seen : SUBSET Vars, on : Int, cur : SUBSET Lit, uip : Lit \cup {0}]
TypeOK ==
  /\ formula \subseteq SUBSET Lit
  /\ sol \in State
  /\ imps \subseteq SUBSET Lit
  /\ Explicit \subseteq SUBSET Lit /\ watches \in [Explicit -> SUBSET Lit]
  /\ ret \in [ok : Returns, fail : Returns]
  /\ an \in Analysis /\ (pc = "learn" => an.uip \in Lit)
  /\ arg \in Lit \cup {0}
  /\ result \in {"none", "true", "false", "free"}

(***************************************************************************)
(* Levels and queue.                                                       *)
(***************************************************************************)
(* The root level is never above the backtrack level, nor that above the   *)
(* decision level, and the levels a stop conflict has saved can be put     *)
(* back without breaking this: undo_until, push_root_level,                *)
(* clear_stop_conflict and backtrack_step rely on it.                      *)
LevelInv ==
  /\ sol.root <= sol.bt /\ sol.bt <= DL(sol)
  /\ sol.stop.set => sol.stop.root <= sol.stop.bt /\ sol.stop.bt <= sol.root

(* The propagation queue, and the queue position a stop conflict has       *)
(* saved, never point behind the trail: q_pop and clear_stop_conflict      *)
(* index the trail with them. Conflict analysis pops the trail and leaves  *)
(* the queue to the undo_until that follows, unless it panics.             *)
QueueInv ==
  /\ pc \notin {"analyze", "learn", "panic"} => sol.front <= Len(sol.trail)
  /\ sol.stop.set => sol.stop.front <= Len(sol.trail)

(* No step of a search or of another running call undoes a level of the    *)
(* root path: only the caller pops it.                                     *)
RootPathKept ==
  [][~Idle => /\ sol'.root >= sol.root
              /\ \A k \in 1..sol.root : /\ k \in DOMAIN sol'.decisions
                                        /\ sol'.decisions[k] = sol.decisions[k]]_vars

(***************************************************************************)
(* The assignment.                                                         *)
(***************************************************************************)
(* A reason explains its literal by literals assigned earlier, whatever    *)
(* force_implied and set_reason have re-assigned in between: conflict      *)
(* analysis walks the trail backwards on this ground.                      *)
TrailSound ==
  \A i \in DOMAIN sol.trail :
    LET e == sol.trail[i] IN
    e.ante # NoAnte =>
      /\ e.lit \in e.ante
      /\ \A k \in e.ante \ {e.lit} : \E j \in 1..(i - 1) : sol.trail[j].lit = -k

(* Each literal holds in every model of the problem in which the premises  *)
(* of its level hold: undo_until removes a literal together with the last  *)
(* level it depends on.                                                    *)
AssignmentSound ==
  \A e \in Entries(sol) : \A m \in Models : AllHold(m, Premises(e.level)) => Holds(m, e.lit)

(* A literal remembered as implied at a level (a flipped decision, or the  *)
(* head of a clause that became unit below the backtrack level) is true    *)
(* whenever the solver is at that level or above.                          *)
ImpliedHeld ==
  \A i \in DOMAIN sol.implied.lits :
    LET e == sol.implied.lits[i] IN
    e.level <= DL(sol) /\ ~sol.conflict.has => IsTrue(sol, e.lit)

(* When the search takes a decision no clause is left that is unit or      *)
(* falsified: everything put on the queue has been propagated.             *)
NoMissedPropagation == pc = "decide" => \A c \in Clauses : ~Forcing(c)

(* The propagation queue of Solver: it never points behind the trail, and  *)
(* nothing on it is passed over.                                           *)
QueueExact == QueueInv /\ NoMissedPropagation

(* A literal that is true by a level, or that is true and remembered as    *)
(* implied there: undo_until then forces it again.                         *)
HeldBy(l, level) ==
  /\ IsTrue(sol, l)
  /\ \/ LevelOf(sol, l) <= level
     \/ \E i \in DOMAIN sol.implied.lits : /\ sol.implied.lits[i].lit = l
                                           /\ sol.implied.lits[i].level <= level

(* A false watch of an explicit clause is harmless when the search decides:*)
(* the clause has a true literal that is not lost before the watch is.     *)
WatchesSafe ==
  pc = "decide" =>
    \A c \in Explicit : \A w \in watches[c] :
      IsFalse(sol, w) => \E t \in c : HeldBy(t, LevelOf(sol, w))

(* An explicit clause that asserts is found through its watches, now and   *)
(* after backtracking.                                                     *)
WatchesExact == WatchesSafe /\ NoMissedPropagation

(***************************************************************************)
(* The clause database.                                                    *)
(***************************************************************************)
(* Learnt, integrated and simplified clauses follow from the problem (and  *)
(* from what enumeration has fixed at the top level).                      *)
DbEntailed == \A m \in Models : AllHold(m, Premises(0)) => Fulfils(m, Clauses)

(* A conflict that no decision explains: the solver is in conflict for     *)
(* good (hasConflict at level 0), and no model is left.                    *)
Refuted == sol.conflict.has /\ ~sol.stop.set /\ DL(sol) = 0
DbRefuted == Refuted => \A m \in Models : ~AllHold(m, Premises(0))

(* Simplification never loses a constraint: the clauses that are left,     *)
(* with the top-level literals, still say all that the problem says. Units *)
(* that contradict each other are no longer added once one of them is in   *)
(* conflict.                                                               *)
DbComplete ==
  pc # "init" /\ ~Refuted =>
    \A m \in Assignments : Fulfils(m, Clauses) /\ AllHold(m, TopLits(sol)) => m \in Models

(* Learning, integration and Solver::simplify change the clauses, never    *)
(* what they say.                                                          *)
DbExact == DbEntailed /\ DbComplete /\ DbRefuted

(* What the conflict is resolved on is true, and some of it belongs to the *)
(* conflict level: the assertions of analyze_conflict.                     *)
ConflictOnLevel ==
  pc = "analyze" => /\ \A l \in an.cur : IsTrue(sol, l)
                    /\ an.on + Cardinality(OnLevel(NewReasons)) > 0

(* The learnt clause is asserting: one literal of the conflict level, and  *)
(* the others false at lower levels above the top level.                   *)
LearntAsserting ==
  pc = "learn" => /\ IsTrue(sol, an.uip) /\ LevelOf(sol, an.uip) = DL(sol)
                  /\ \A l \in an.lits : IsFalse(sol, l) /\ LevelOf(sol, l) \in 1..(DL(sol) - 1)

(* analyze_conflict starts on the conflict level and ends with a clause    *)
(* that asserts on a lower one.                                            *)
ConflictAsserting == ConflictOnLevel /\ LearntAsserting

(***************************************************************************)
(* What the caller sees.                                                   *)
(***************************************************************************)
(* Splitting loses no part of the search space and hands none out twice:   *)
(* every model of the problem that has not been backtracked over lies      *)
(* under the root path the solver keeps or under a guiding path it has     *)
(* given away; a guiding path shares no model with another one, with the   *)
(* kept root path, or with what has been backtracked over.                 *)
Given(m) == {i \in DOMAIN given : AllHold(m, given[i])}
Excluded(m) == \E e \in excluded : AllHold(m, e)
SplitCovers ==
  \A m \in Models : AllHold(m, Premises(sol.root)) \/ Given(m) # {} \/ Excluded(m)
SplitDisjoint ==
  \A m \in Models : /\ Cardinality(Given(m)) <= 1
                    /\ Given(m) # {} => ~AllHold(m, Premises(sol.root)) /\ ~Excluded(m)

(* split and copy_guiding_path partition the models that are left.         *)
SplitPartitions == SplitCovers /\ SplitDisjoint

(* A search always returns, and so does backtracking over a model, which   *)
(* goes on for as long as the flipped decision meets a conflict.           *)
Termination == (pc \in {"top", "flip"}) ~> (Idle \/ pc = "panic")

(* Searches answer as the service specification says: a returned model is  *)
(* a model under the root path and is not returned again once it has been  *)
(* backtracked over, and "false" means that no such model is left.         *)
Service == INSTANCE SearchService WITH
  path     <- {Decision(sol, k) : k \in 1..sol.root},
  stopped  <- sol.stop.set,
  answer   <- result,
  model    <- IF result = "true" THEN TrueLits(sol) ELSE {}
ImplementsService == Service!Spec

(***************************************************************************)
(* Claims of the repository's own tests and assertions that some runs      *)
(* refute.                                                                 *)
(***************************************************************************)
(* A search that returns true has completed a model.                       *)
ModelSound ==
  result = "true" => /\ FreeLits(sol) = {}
                     /\ \A m \in Assignments : AllHold(m, TrueLits(sol)) => m \in Models

(* No top-level literal takes part in conflict analysis.                   *)
TopLevelMarked == pc = "analyze" => \A l \in NewReasons : LevelOf(sol, l) > 0
=============================================================================

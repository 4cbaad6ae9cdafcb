---------------------------- MODULE MCReasoning -----------------------------
(***************************************************************************)
(* The parts of the reasoning that are modelled on their own, each a unit  *)
(* with its own constraint and a solver reduced to what the constraint     *)
(* sees of it: conflict analysis, the database of learnt constraints, loop *)
(* formulas, the watches of a clause, subsumption, the post propagators.   *)
(* The post propagators' module is extended, so that its own properties    *)
(* are those that are checked; they idle as a solver without propagators.  *)
(***************************************************************************)
EXTENDS PostList

CONSTANTS Units, AnaVars, AnaLevels, DbVars, DbAux, DbLearnts, ActMax, LbdMax,
          LoopAtoms, LoopBodies, LoopSteps, ShapeVars, ShapeSteps, SatVars, AbsBits, WatchBound

ASSUME UnitsAssumption == Units \subseteq {"analysis", "learnts", "loop",
    "clause", "post", "subsume"}

VARIABLES
  unit,   \* the unit whose steps this behaviour takes
  imp, opts, cc,
  learnts, dbTrail, levels, auxs, tag, loose, lasting, learned,
  form, loopw, asg, short, lsteps,
  cls, strail, sfront, sconfl, sundo, ssteps,
  watched, watches, checked

Analysis == INSTANCE ConflictAnalysis
Learnts == INSTANCE LearntDb
Loop == INSTANCE LoopFormula
Shape == INSTANCE ClauseShape
Elite == INSTANCE SatElite

analysisState == <<imp, opts, cc>>
learntsState == <<learnts, dbTrail, levels, auxs, tag, loose, lasting, learned>>
loopState == <<form, loopw, asg, short, lsteps>>
clauseState == <<cls, strail, sfront, sconfl, sundo, ssteps>>
subsumeState == <<watched, watches, checked>>

\* The variables of a unit that is not taken stay idle.
Init ==
  /\ unit \in Units
  /\ IF unit = "analysis" THEN Analysis!AnaInit
     ELSE /\ imp = "idle" /\ opts = "idle" /\ cc = "idle"
  /\ IF unit = "learnts" THEN Learnts!DbInit
     ELSE /\ learnts = "idle" /\ dbTrail = "idle" /\ levels = "idle"
          /\ auxs = "idle" /\ tag = "idle" /\ loose = "idle"
          /\ lasting = "idle" /\ learned = "idle"
  /\ IF unit = "loop" THEN Loop!LoopInit
     ELSE /\ form = "idle" /\ loopw = "idle" /\ asg = "idle" /\ short = "idle"
          /\ lsteps = "idle"
  /\ IF unit = "clause" THEN Shape!ShapeInit
     ELSE /\ cls = "idle" /\ strail = "idle" /\ sfront = "idle"
          /\ sconfl = "idle" /\ sundo = "idle" /\ ssteps = "idle"
  /\ PostInit
  /\ IF unit = "subsume" THEN Elite!SatInit
     ELSE /\ watched = "idle" /\ watches = "idle" /\ checked = "idle"

Analyze ==
  /\ unit = "analysis" /\ Analysis!AnaNext
  /\ UNCHANGED <<unit, learntsState, loopState, clauseState, postVars,
                 subsumeState>>

KeepLearnts ==
  /\ unit = "learnts" /\ Learnts!DbNext
  /\ UNCHANGED <<unit, analysisState, loopState, clauseState, postVars,
                 subsumeState>>

PropagateLoop ==
  /\ unit = "loop" /\ Loop!LoopNext
  /\ UNCHANGED <<unit, analysisState, learntsState, clauseState, postVars,
                 subsumeState>>

PropagateClause ==
  /\ unit = "clause" /\ Shape!ShapeNext
  /\ UNCHANGED <<unit, analysisState, learntsState, loopState, postVars,
                 subsumeState>>

RunPosts ==
  /\ unit = "post" /\ PostNext
  /\ UNCHANGED <<unit, analysisState, learntsState, loopState, clauseState,
                 subsumeState>>

Subsume ==
  /\ unit = "subsume" /\ Elite!SatNext
  /\ UNCHANGED <<unit, analysisState, learntsState, loopState, clauseState,
                 postVars>>

Next == Analyze \/ KeepLearnts \/ PropagateLoop \/ PropagateClause \/ RunPosts
     \/ Subsume

vars == <<unit, analysisState, learntsState, loopState, clauseState,
          postVars, subsumeState>>

Spec == Init /\ [][Next]_vars

(***************************************************************************)
(* Properties. What each part says is stated with its definition in the    *)
(* module of the component.                                                *)
(***************************************************************************)

(* Conflict analysis: the clause that is learnt follows from the reasons,  *)
(* is false on the trail and asserts its first literal.                    *)
LearntSound ==
  unit = "analysis" => Analysis!LearntSound

(* Reduction of learnt constraints and removal of auxiliary variables: the *)
(* reason of an assigned literal is still in the database, and no learnt   *)
(* clause speaks of a variable that is gone.                               *)
LearntsSafe ==
  unit = "learnts" => Learnts!ReasonsLive /\ Learnts!VarsLive

(* A reduction keeps no learnt clause that is worse than one it removes.   *)
WorstGoFirst ==
  unit = "learnts" => Learnts!WorstGoFirst

(* Loop formulas: what a formula propagates follows from it, and once the  *)
(* queue is empty it has propagated everything.                            *)
LoopsSound ==
  unit = "loop" => Loop!LoopReasons /\ Loop!LoopMisses

(* Contraction and simplification of a clause: the literals that are       *)
(* hidden are false, and once the queue is empty the clause has            *)
(* propagated. Subsumption by watches and marks finds exactly the clauses  *)
(* that are subsumed.                                                      *)
ClausesKept ==
  /\ unit = "clause" => Shape!TailHidden /\ Shape!NothingMissed
  /\ unit = "subsume" => Elite!SubsumptionExact

(* "loop_formula_simplify_false_bodies_collapse_into_learnt_short_clauses" *)
(* (the test in tests/ported/clasp/clause_test.rs): what replaces a loop   *)
(* formula at the top level says all the formula said.                     *)
CollapseKeeps ==
  unit = "loop" => Loop!CollapseKeeps
=============================================================================

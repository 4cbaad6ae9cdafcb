----------------------------- MODULE ContextSteps -----------------------------
(***************************************************************************)
(* SharedContext: the problem's variables, the master solver, the solvers  *)
(* attached to it and the constraint database they cloned, over the steps  *)
(* of a multi-shot run. Each step opens the program (start_add_constraints,*)
(* which undoes the last step), adds to it, closes it (end_init) and lets  *)
(* solvers be attached. An optional step variable lives for one step: it   *)
(* is added behind the problem's variables when the program is closed,     *)
(* made false, and removed again when it is reopened.                      *)
(***************************************************************************)
EXTENDS Integers, Sequences, FiniteSets, SequencesExt, Functions

CONSTANTS
  CtxVars,      \* bound on the number of variables
  CtxSolvers,   \* solvers besides the master
  CtxCons,      \* constraints ever added
  CtxStepBound  \* how often the program is closed

VARIABLES ctx, master, solver, db, cons

ctxVars == <<ctx, master, solver, db, cons>>

NoStep  == -1     \* step_literal = lit_true: no step variable
Wanted  == 0      \* step_literal = lit_false: one is added by end_init
HasStep(c) == c.step > 0
StepCount(c) == IF HasStep(c) THEN 1 ELSE 0

(* A solver: whether it was pushed, its variables, its top-level trail,    *)
(* the variables eliminated in it, whether it is attached for this step,   *)
(* its db_index and the constraints it has cloned.                         *)
NoSolver == [made |-> FALSE, n |-> 0, trail |-> <<>>, elim |-> {}, att |-> FALSE, idx |-> 0, has |-> {}]
FreshSolver == [NoSolver EXCEPT !.made = TRUE]

(* The context's fields; dead counts step variables left behind and closed *)
(* the steps so far (history).                                             *)
CtxInit ==
  /\ ctx = [n |-> 0, fz |-> {}, num |-> 0, nfrozen |-> 0, nelim |-> 0,
            frozen |-> FALSE, step |-> NoStep, top |-> 0, dead |-> 0, closed |-> 0]
  /\ master = [n |-> 0, trail |-> <<>>, elim |-> {}]
  /\ solver = [s \in 1..CtxSolvers |-> NoSolver]
  /\ db = <<>> /\ cons = 0

Assigned(s) == Range(s.trail)
CtxMin(a, b) == IF a <= b THEN a ELSE b
CtxMax(a, b) == IF a >= b THEN a ELSE b

(***************************************************************************)
(* Variables.                                                              *)
(***************************************************************************)
AddVar ==
  /\ ctx.n < CtxVars
  /\ ctx' = [ctx EXCEPT !.n = @ + 1, !.num = ctx.n + 1 - StepCount(ctx)]
  /\ master' = [master EXCEPT !.n = ctx.n + 1]
  /\ UNCHANGED <<solver, db, cons>>

SetFrozen ==
  /\ ~ctx.frozen
  /\ \E v \in 1..ctx.n \ {ctx.step} :
       ctx' = IF v \in ctx.fz THEN [ctx EXCEPT !.fz = @ \ {v}, !.nfrozen = @ - 1]
              ELSE [ctx EXCEPT !.fz = @ \cup {v}, !.nfrozen = @ + 1]
  /\ UNCHANGED <<master, solver, db, cons>>

(* The preprocessor eliminates variables that are not frozen.              *)
Eliminate ==
  /\ ~ctx.frozen
  /\ \E v \in 1..ctx.n \ (ctx.fz \cup Assigned(master) \cup master.elim) :
       /\ ctx' = [ctx EXCEPT !.nelim = @ + 1]
       /\ master' = [master EXCEPT !.elim = @ \cup {v}]
  /\ UNCHANGED <<solver, db, cons>>

RequestStepVar ==
  /\ ctx.step = NoStep /\ ctx' = [ctx EXCEPT !.step = Wanted]
  /\ UNCHANGED <<master, solver, db, cons>>

(* require_step_var: the variable is not among the counted ones but is     *)
(* frozen.                                                                 *)
WithStepVar(c) ==
  IF c.step # Wanted THEN c
  ELSE [c EXCEPT !.n = @ + 1, !.fz = @ \cup {c.n + 1}, !.nfrozen = @ + 1, !.step = c.n + 1]

(* update_vars: a solver is cut to n variables, or grows to n.             *)
CutTo(s, n) ==
  [s EXCEPT !.n = n, !.trail = SelectSeq(@, LAMBDA v : v <= n), !.elim = {v \in @ : v <= n}]

(* pop_vars, the committed case: the counts lose what the popped variables *)
(* contributed, every solver is cut.                                       *)
PoppedCtx(c, m, k) ==
  LET gone == c.n - k + 1..c.n IN
  [c EXCEPT !.n = @ - k,
            !.nelim = @ - Cardinality(gone \cap m.elim),
            !.nfrozen = @ - Cardinality(gone \cap c.fz),
            !.num = @ - k, !.fz = @ \ gone,
            !.top = CtxMin(@, Len(CutTo(m, c.n - k).trail))]

PopVars ==
  /\ ~ctx.frozen /\ ~HasStep(ctx) /\ ctx.n > 0
  /\ ctx' = PoppedCtx(ctx, master, 1)
  /\ master' = CutTo(master, ctx.n - 1)
  /\ solver' = [s \in 1..CtxSolvers |-> CutTo(solver[s], ctx.n - 1)]
  /\ UNCHANGED <<db, cons>>

(***************************************************************************)
(* The constraint database.                                                *)
(***************************************************************************)
AddConstraint ==
  /\ ~ctx.frozen /\ cons < CtxCons
  /\ db' = Append(db, cons + 1) /\ cons' = cons + 1
  /\ UNCHANGED <<ctx, master, solver>>

\* Slip: every solver loses all that was removed.
NewIndexAll(idx, gone) == CtxMax(0, idx - Cardinality(gone))

(* A solver loses what was removed from its prefix of the database.        *)
NewIndex(idx, gone) == idx - Cardinality({i \in gone : i <= idx})

(* simplify drops any of the constraints, remove_constraint one of them.   *)
RemoveFromDb ==
  /\ ctx.frozen
  /\ \E gone \in SUBSET DOMAIN db :
       /\ gone # {}
       /\ db' = LET kept == SetToSortSeq(DOMAIN db \ gone, <) IN [i \in DOMAIN kept |-> db[kept[i]]]
       /\ solver' = [s \in 1..CtxSolvers |-> [solver[s] EXCEPT !.idx = NewIndex(@, gone)]]
  /\ UNCHANGED <<ctx, master, cons>>

(***************************************************************************)
(* Steps.                                                                  *)
(***************************************************************************)
(* end_step of an attached solver: its top-level literals behind the first *)
(* top ones go to the master, the step variable stays behind.              *)
Forwarded(s) ==
  SelectSeq(SubSeq(s.trail, CtxMin(ctx.top, Len(s.trail)) + 1, Len(s.trail)),
            LAMBDA v : v # ctx.step)
Learnt(m, s) ==
  [m EXCEPT !.trail = @ \o SelectSeq(Forwarded(s), LAMBDA v : v \notin Assigned(m))]

(* unfreeze_step: the master and every solver that knows the step variable *)
(* end the step; the variable is popped unless others were added behind it.*)
Collected ==
  FoldLeft(LAMBDA m, s : IF solver[s].made /\ solver[s].n >= ctx.step THEN Learnt(m, solver[s]) ELSE m,
           master, [s \in 1..CtxSolvers |-> s])
Cut(s, n) == IF s.made THEN CutTo(s, n) ELSE s

UnfreezeStepVar ==
  LET c == [ctx EXCEPT !.fz = @ \ {ctx.step}, !.frozen = FALSE]
      p == PoppedCtx(c, Collected, 1)
  IN  IF ctx.step = ctx.n
      THEN /\ ctx' = [p EXCEPT !.num = @ + 1, !.step = Wanted]
           /\ master' = CutTo(Collected, ctx.n - 1)
           /\ solver' = [s \in 1..CtxSolvers |-> [Cut(solver[s], ctx.n - 1) EXCEPT !.att = FALSE]]
      ELSE /\ ctx' = [ctx EXCEPT !.frozen = FALSE, !.step = Wanted, !.dead = @ + 1]
           /\ master' = Collected
           /\ solver' = [s \in 1..CtxSolvers |-> [solver[s] EXCEPT !.att = FALSE]]

StartAddConstraints ==
  /\ ctx.frozen
  /\ IF HasStep(ctx) THEN UnfreezeStepVar
     ELSE /\ ctx' = [ctx EXCEPT !.frozen = FALSE]
          /\ solver' = [s \in 1..CtxSolvers |-> [solver[s] EXCEPT !.att = FALSE]]
          /\ UNCHANGED master
  /\ UNCHANGED <<db, cons>>

(* attach: a solver starts from scratch with the master's trail and a clone*)
(* of every constraint; variables the master eliminated are eliminated too,*)
(* from the first one on that the solver did not know before.              *)
Attached(s, m) ==
  [s EXCEPT !.att = TRUE, !.n = m.n, !.trail = m.trail, !.idx = Len(db), !.has = Range(db),
            !.elim = {v \in m.elim : v > s.n}]

Attach ==
  /\ ctx.frozen
  /\ \E s \in 1..CtxSolvers :
       /\ solver[s].made
       /\ solver' = [solver EXCEPT ![s] = Attached(@, master)]
  /\ UNCHANGED <<ctx, master, db, cons>>

Detach ==
  /\ \E s \in 1..CtxSolvers : solver[s].att /\ solver' = [solver EXCEPT ![s] = FreshSolver]
  /\ UNCHANGED <<ctx, master, db, cons>>

(* end_init: the step variable is added, made false in the master, units   *)
(* may follow; last_top_level does not count the step variable.            *)
EndInit ==
  /\ ~ctx.frozen /\ ctx.closed < CtxStepBound
  /\ ctx.n + (IF ctx.step = Wanted THEN 1 ELSE 0) <= CtxVars
  /\ \E all \in BOOLEAN, units \in SUBSET (1..ctx.n \ (Assigned(master) \cup master.elim)) :
       LET c == WithStepVar(ctx)
           step == IF HasStep(c) /\ c.step \notin Assigned(master) THEN <<c.step>> ELSE <<>>
           m == [master EXCEPT !.n = c.n, !.trail = @ \o step \o SetToSeq(units)]
       IN  /\ Cardinality(units) <= 1
           /\ ctx' = [c EXCEPT !.frozen = TRUE, !.closed = @ + 1, !.top = Len(m.trail) - StepCount(c)]
           /\ master' = m
           /\ solver' = [s \in 1..CtxSolvers |->
                           IF all /\ solver[s].made THEN Attached(solver[s], m) ELSE solver[s]]
  /\ UNCHANGED <<db, cons>>

(* While the program is closed an attached solver may find a top-level     *)
(* literal.                                                                *)
FindUnit ==
  /\ ctx.frozen
  /\ \E s \in 1..CtxSolvers : \E v \in 1..solver[s].n \ (Assigned(solver[s]) \cup solver[s].elim \cup master.elim) :
       solver[s].att /\ solver' = [solver EXCEPT ![s].trail = Append(@, v)]
  /\ UNCHANGED <<ctx, master, db, cons>>

SetConcurrency ==
  /\ ~ctx.frozen
  /\ \E k \in 0..CtxSolvers :
       solver' = [s \in 1..CtxSolvers |-> IF s > k THEN NoSolver
                                          ELSE IF solver[s].made THEN solver[s] ELSE FreshSolver]
  /\ UNCHANGED <<ctx, master, db, cons>>

CtxNext ==
  \/ AddVar \/ SetFrozen \/ Eliminate \/ RequestStepVar \/ PopVars
  \/ AddConstraint \/ RemoveFromDb
  \/ StartAddConstraints \/ EndInit \/ Attach \/ Detach \/ FindUnit \/ SetConcurrency

(***************************************************************************)
(* Properties.                                                             *)
(***************************************************************************)
(* The counts of SharedContext kept by hand over adding, freezing,         *)
(* eliminating and popping variables are those of the variables: the step  *)
(* variable is not counted (one that was left behind may be), eliminated   *)
(* ones are; the frozen count never falls below the frozen variables, so   *)
(* taking them back never underflows.                                      *)
VarsCounted ==
  /\ ctx.num \in (ctx.n - StepCount(ctx) - ctx.dead)..(ctx.n - StepCount(ctx))
  /\ ctx.nelim = Cardinality(master.elim)
  /\ ctx.nfrozen >= Cardinality(ctx.fz)

(* No solver keeps a popped variable: what is assigned or eliminated in it *)
(* is a variable of the context, also after the step variable's number has *)
(* been taken by a variable of the next step.                              *)
NoPoppedVar ==
  /\ master.n <= ctx.n /\ Assigned(master) \cup master.elim \subseteq 1..ctx.n
  /\ \A s \in 1..CtxSolvers : Assigned(solver[s]) \cup solver[s].elim \subseteq 1..ctx.n
  /\ ctx.step > 0 /\ ~ctx.frozen => ctx.step \notin Assigned(master)

(* db_index counts the constraints of the database a solver has cloned: it *)
(* has those before the index and none behind it.                          *)
DbIndexPrefix ==
  \A s \in 1..CtxSolvers, i \in DOMAIN db : db[i] \in solver[s].has <=> i <= solver[s].idx

(* Reopening the program loses no top-level literal an attached solver     *)
(* found, when there was a step variable.                                  *)
CollectStep ==
  ctx.frozen /\ ~ctx'.frozen /\ HasStep(ctx) =>
    \A s \in 1..CtxSolvers :
      solver[s].att => Assigned(solver[s]) \ {ctx.step} \subseteq Assigned(master')
UnitsCollected == [][CollectStep]_ctxVars
===============================================================================

------------------------------ MODULE Enumerators ------------------------------
(***************************************************************************)
(* CbConsequences, which turns a sequence of models into the brave or the  *)
(* cautious consequences, and ModelEnumerator, which selects a strategy.   *)
(* For every model add_current updates a flag per literal, writes what is  *)
(* known of each literal into the model, and builds the clause that the    *)
(* next model has to satisfy.                                              *)
(***************************************************************************)
EXTENDS Integers, FiniteSets

CONSTANTS
  EnumVars,    \* problem variables
  EnumCalls    \* calls on the model enumerator

VARIABLES
  world,    \* the models of the program, the literals known at top and at root level
  cons,     \* the consequence finder: mode, literals with flag, clause
  status,   \* per variable the bits of the model's value
  reported, \* the models found so far (history)
  menum,    \* the model enumerator
  ecalls    \* calls on it so far

enumVars == <<world, cons, status, reported, menum, ecalls>>

EnumLits == 1..EnumVars \cup {-v : v \in 1..EnumVars}
Interpretations == {A \in SUBSET EnumLits : \A v \in 1..EnumVars : (v \in A) # (-v \in A)}
Common(models) == {l \in EnumLits : \A A \in models : l \in A}

Opt == [simple |-> 1, heuristic |-> 2, save |-> 4, shown |-> 8, dom |-> 16]
Fresh == [algo |-> "auto", proj |-> {}]

(* The literals of interest get their flag when the finder is set up: all  *)
(* for cautious, none for brave consequences.                              *)
EnumInit ==
  /\ \E models \in SUBSET Interpretations \ {{}} : \E top \in SUBSET Common(models) :
       \E root \in SUBSET (Common(models) \ top) :
          world = [models |-> models, top |-> top, root |-> root]
  /\ \E mode \in {"brave", "cautious"}, lits \in {1..EnumVars, {1, -2}} :
       cons = [mode |-> mode, lits |-> lits, flags |-> IF mode = "cautious" THEN lits ELSE {},
               clause |-> {}, open |-> FALSE]
  /\ status = [v \in 1..EnumVars |-> {}]
  /\ reported = {}
  /\ menum = [opts |-> Fresh, saved |-> Fresh, trivial |-> FALSE, conc |-> 1, ready |-> FALSE]
  /\ ecalls = 0

(***************************************************************************)
(* add_current.                                                            *)
(***************************************************************************)
Level(l) == IF {l, -l} \cap world.top # {} THEN 0 ELSE IF {l, -l} \cap world.root # {} THEN 1 ELSE 2
RootLevel == 1
Sign(l) == IF l < 0 THEN 1 ELSE 0
Abs(l) == IF l < 0 THEN -l ELSE l

Flags(A) == IF cons.mode = "brave" THEN cons.flags \cup (cons.lits \cap A) ELSE cons.flags \cap A

(* The literals whose status the next model has to change.                 *)
OpenLits(A) ==
  LET open == IF cons.mode = "brave" THEN cons.lits \ Flags(A) ELSE Flags(A)
  IN  {l \in open : Level(l) # 0}

(* The value of a literal in the model: the bit of its flag, and a bit for *)
(* an estimate that a later model may still revise.                        *)
\* Slip: what a later model may take away is not marked.
EstimatedOnlyMissing(A, l) == Level(l) > RootLevel /\ l \notin Flags(A)

Estimated(A, l) ==
  /\ Level(l) > RootLevel
  /\ IF cons.mode = "brave" THEN l \notin Flags(A) ELSE l \in Flags(A)
Bits(A, v) ==
  {<<"true", Sign(l)>> : l \in {x \in cons.lits : Abs(x) = v /\ x \in Flags(A)}}
  \cup {<<"est", Sign(l)>> : l \in {x \in cons.lits : Abs(x) = v /\ Estimated(A, x)}}

Satisfied(A) == ~cons.open \/ cons.clause \cap A # {}
AddCurrent ==
  /\ \E A \in world.models :
       /\ Satisfied(A)
       /\ cons' = [cons EXCEPT !.flags = Flags(A), !.open = TRUE,
                     !.clause = IF cons.mode = "brave" THEN OpenLits(A) ELSE {-l : l \in OpenLits(A)}]
       /\ status' = [v \in 1..EnumVars |-> Bits(A, v)]
       /\ reported' = reported \cup {A}
  /\ ecalls = 0
  /\ UNCHANGED <<world, menum, ecalls>>

(* Model::is_cons.                                                         *)
IsTrue(l) == <<"true", Sign(l)>> \in status[Abs(l)]
IsEst(l) == <<"est", Sign(l)>> \in status[Abs(l)]
IsCons(l) == IF IsEst(l) THEN "free" ELSE IF IsTrue(l) THEN "true" ELSE "false"

(***************************************************************************)
(* ModelEnumerator.                                                        *)
(***************************************************************************)
(* The two do not touch: its calls are interleaved with nothing, and made  *)
(* for one program only.                                                   *)
EnumCall ==
  /\ ecalls < EnumCalls /\ ecalls' = ecalls + 1
  /\ world.models = Interpretations /\ cons.mode = "brave" /\ cons.lits = 1..EnumVars /\ reported = {}
  /\ UNCHANGED <<world, cons, status, reported>>

SetStrategy ==
  /\ EnumCall
  /\ \E algo \in {"auto", "backtrack", "record"}, proj \in {{}, {Opt.simple}, {Opt.heuristic}, {Opt.dom}, {Opt.shown}} :
       LET opts == [algo |-> algo,
                    proj |-> proj \cup IF proj \cap {1, 2, 4} # {} THEN {Opt.simple} ELSE {}]
       IN  menum' = [menum EXCEPT !.opts = opts, !.saved = opts, !.ready = FALSE]

Projects(o) == o.proj # {}
DomRec(o) == Opt.dom \in o.proj
SupportsParallel(o) == ~Projects(o) \/ o.algo # "backtrack"

\* Slip: the strategy of the step before is kept.
FromLastStep(o, saved, conc) == IF conc > 1 /\ ~SupportsParallel(o) THEN [o EXCEPT !.algo = "auto"] ELSE o

FromSaved(o, saved, conc) ==
  IF conc > 1 /\ ~SupportsParallel(saved) THEN [saved EXCEPT !.algo = "auto"] ELSE saved

(* prepare_for_init: backtracking over a projection is for one thread; a   *)
(* strategy that was not asked for is chosen anew in every step.           *)
Choice(o, trivial, conc) ==
  IF o.algo # "auto" THEN o.algo
  ELSE IF trivial \/ (Projects(o) /\ conc > 1) THEN "record" ELSE "backtrack"
Trivial(o, optimize, num, projTrivial) ==
  /\ (optimize /\ ~DomRec(o)) \/ num = 1
  /\ optimize /\ Projects(o) => projTrivial
PrepareForInit ==
  /\ EnumCall
  /\ \E optimize, projTrivial \in BOOLEAN, num \in {0, 1}, conc \in {1, 2} :
       LET o == FromSaved(menum.opts, menum.saved, conc)
           trivial == Trivial(o, optimize, num, projTrivial)
       IN  menum' = [menum EXCEPT !.opts = [o EXCEPT !.algo = Choice(o, trivial, conc)],
                                  !.trivial = trivial, !.conc = conc, !.ready = TRUE]

EnumNext == AddCurrent \/ SetStrategy \/ PrepareForInit

(***************************************************************************)
(* Properties.                                                             *)
(***************************************************************************)
Consequence(l) ==
  IF cons.mode = "brave" THEN \E A \in world.models : l \in A ELSE \A A \in world.models : l \in A

(* What a model says of a consequence is final unless it is marked as an   *)
(* estimate, and when no model satisfies the clause any more the flags are *)
(* exactly the consequences: no model that matters was excluded by it.     *)
ConsequencesExact ==
  reported # {} =>
    /\ \A l \in cons.lits :
         /\ IsCons(l) = "true" => Consequence(l)
         /\ IsCons(l) = "false" => ~Consequence(l)
    /\ (\A A \in world.models : ~Satisfied(A)) => cons.flags = {l \in cons.lits : Consequence(l)}

(* Several threads never get a strategy that cannot be run in parallel,    *)
(* and one thread gets the strategy that was asked for, whatever the steps *)
(* before were prepared for.                                               *)
StrategyFits ==
  menum.ready =>
    /\ menum.opts.algo # "auto"
    /\ menum.conc > 1 => SupportsParallel(menum.opts)
    /\ menum.conc = 1 /\ menum.saved.algo # "auto" => menum.opts.algo = menum.saved.algo
===============================================================================

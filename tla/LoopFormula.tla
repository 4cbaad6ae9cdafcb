---------------------------- MODULE LoopFormula -----------------------------
(***************************************************************************)
(* The loop formula constraint (clasp/clause.rs, LoopFormulaState and      *)
(* LoopFormulaConstraint): one constraint stands for the clauses           *)
(* {~a} \union B, one for every atom a of a loop, B the external bodies.   *)
(* One cell of the active clause holds the literal of the current atom and *)
(* is exchanged as the search goes on, so the watches of all atoms share   *)
(* that position.                                                          *)
(*                                                                         *)
(* The literals of the formula are numbered, atoms first, and stand for    *)
(* themselves as they occur in it; 0 is the sentinel. The solver around it *)
(* assigns, propagates, backtracks and simplifies.                         *)
(***************************************************************************)
EXTENDS Integers, Sequences, FiniteSets, SequencesExt, FiniteSetsExt

CONSTANTS LoopAtoms,  \* atoms of the loop
          LoopBodies, \* external bodies
          LoopSteps   \* bound on the decisions, facts and top-level simplifications

VARIABLES form,   \* LoopFormulaState
          loopw,  \* its watches: <<literal, position, direction>>
          asg,    \* the solver: trail, first unpropagated position, conflict
          short,  \* the short clauses that replaced the formula
          lsteps

loopVars == <<form, loopw, asg, short, lsteps>>

LoopAtomLits == 1..LoopAtoms
LoopBodyLits == LoopAtoms + 1..LoopAtoms + LoopBodies
LoopLits == 1..LoopAtoms + LoopBodies

PosOf(p) == CHOOSE i \in DOMAIN asg.trail : asg.trail[i].lit = p
Given(p) == \E i \in DOMAIN asg.trail : asg.trail[i].lit = p
TrueLit(p) == p = 0 \/ (Given(p) /\ asg.trail[PosOf(p)].val)
FalseLit(p) == p # 0 /\ Given(p) /\ ~asg.trail[PosOf(p)].val
LoopDL == IF asg.trail = <<>> THEN 0 ELSE asg.trail[Len(asg.trail)].level

-----------------------------------------------------------------------------
\* positions of the vector start at 0, as in the code
Cell(f, i) == f.lits[i + 1]
XBegin(f) == f.end + 1
XAtoms(f) == {Cell(f, i) : i \in XBegin(f)..Len(f.lits) - 1}
ActiveCells(f) == 1..f.end - 1

NewFormula ==
  [lits |-> <<0, 1>> \o [i \in 1..LoopBodies |-> LoopAtoms + i] \o <<0>>
            \o [i \in 1..LoopAtoms |-> i],
   flagged |-> {1, 2}, end |-> LoopBodies + 2, x |-> 1, other |-> 1, gone |-> FALSE]

\* LoopFormulaState::init: the active clause watches its first body, and every
\* atom watches the cell of the current atom
FirstWatches == {<<LoopAtoms + 1, 2, 1>>} \union {<<a, 1, 1>> : a \in LoopAtomLits}

LoopInit ==
  /\ form = NewFormula /\ loopw = FirstWatches
  /\ asg = [trail |-> <<>>, front |-> 1, confl |-> FALSE]
  /\ short = {} /\ lsteps = 0

-----------------------------------------------------------------------------
\* other_is_sat: is the clause of the last literal seen true satisfied? If that
\* is the current atom's, the cell is given to an atom that is not true yet.
OtherSatByActive(f) == TrueLit(Cell(f, f.other))
OtherSat(f) ==
  /\ TrueLit(Cell(f, f.other))
  /\ f.other = f.x => \A a \in XAtoms(f) : TrueLit(a)
NextAtom(f) ==
  LET i == Min({k \in XBegin(f)..Len(f.lits) - 1 : ~TrueLit(Cell(f, k))})
  IN [f EXCEPT !.lits[f.x + 1] = Cell(f, i)]
Rotated(f) ==
  IF f.other = f.x /\ TrueLit(Cell(f, f.x)) /\ \E a \in XAtoms(f) : ~TrueLit(a)
  THEN NextAtom(f) ELSE f

\* from a position to the sentinel: flagged literals are remembered, the first
\* other one that is not false is the next watch
Way(f, i, dir) == IF dir = 1 THEN i + 1..f.end - 1 ELSE 1..i - 1
Nearer(i, j, k) == (i < j /\ j < k) \/ (k < j /\ j < i)
Usable(f, i, dir) == {k \in Way(f, i, dir) : ~FalseLit(Cell(f, k))}
NextWatch(f, i, dir) ==
  LET free == Usable(f, i, dir) \ f.flagged
  IN IF free = {} THEN 0 ELSE IF dir = 1 THEN Min(free) ELSE Max(free)
SeenOther(f, i, dir) ==
  LET next == NextWatch(f, i, dir)
      seen == {k \in Usable(f, i, dir) \cap f.flagged : next = 0 \/ Nearer(i, k, next)}
  IN IF seen = {} THEN f
     ELSE [f EXCEPT !.other = IF dir = 1 THEN Max(seen) ELSE Min(seen)]

\* Solver::force for a sequence of literals with this constraint as reason
RECURSIVE ForcedAll(_, _)
ForcedAll(s, lits) ==
  IF lits = <<>> \/ s.confl THEN s
  ELSE LET p == Head(lits)
           entry == [lit |-> p, val |-> TRUE, level |-> LoopDL, why |-> "loop"]
       IN IF TrueLit(p) \/ \E i \in DOMAIN s.trail : s.trail[i].lit = p /\ s.trail[i].val
          THEN ForcedAll(s, Tail(lits))
          ELSE IF FalseLit(p) THEN [s EXCEPT !.confl = TRUE]
               ELSE ForcedAll([s EXCEPT !.trail = Append(@, entry)], Tail(lits))
Forces(f) ==
  <<Cell(f, f.other)>>
  \o (IF f.other = f.x THEN SubSeq(f.lits, XBegin(f) + 1, Len(f.lits)) ELSE <<>>)

\* the search for a watch, in the watch's direction first
Search(f, w, s) ==
  LET i == w[2]
      there == SeenOther(f, i, w[3])
      back == SeenOther(there, i, -w[3])
      dir == IF NextWatch(f, i, w[3]) # 0 THEN w[3] ELSE -w[3]
      next == NextWatch(f, i, dir)
      kept == IF dir = w[3] THEN loopw ELSE (loopw \ {w}) \union {<<w[1], i, dir>>}
  IN IF next # 0
     THEN /\ form' = [(IF dir = w[3] THEN there ELSE back)
                        EXCEPT !.flagged = (@ \ {i}) \union {next}]
          /\ loopw' = (IF i = f.x THEN kept ELSE kept \ {<<w[1], i, dir>>})
                      \union (IF next # f.x
                              THEN {<<Cell(f, next), next, IF dir = 1 THEN 1 ELSE -1>>} ELSE {})
          /\ asg' = s
     ELSE /\ form' = back
          /\ loopw' = kept
          /\ asg' = ForcedAll(s, Forces(back))

\* a literal of the active clause, or the literal of an atom, became false
PropagateWatch(p, s) ==
  LET w == CHOOSE x \in loopw : x[1] = p
      f == Rotated(form)
      head == w[2] = f.x
      taken == [f EXCEPT !.lits[w[2] + 1] = p]
  IN IF OtherSat(form) THEN form' = f /\ loopw' = loopw /\ asg' = s
     ELSE IF head /\ Cell(f, w[2]) # p /\ FalseLit(Cell(f, w[2]))
     THEN form' = f /\ loopw' = loopw /\ asg' = s
     ELSE IF head /\ w[2] \notin f.flagged THEN form' = taken /\ loopw' = loopw /\ asg' = s
     ELSE Search(IF head THEN taken ELSE f, w, s)

PropagateNext ==
  /\ ~asg.confl /\ asg.front <= Len(asg.trail)
  /\ LET p == asg.trail[asg.front]
         s == [asg EXCEPT !.front = @ + 1]
     IN IF ~p.val /\ ~form.gone /\ \E w \in loopw : w[1] = p.lit THEN PropagateWatch(p.lit, s)
        ELSE asg' = s /\ UNCHANGED <<form, loopw>>
  /\ UNCHANGED <<short, lsteps>>

-----------------------------------------------------------------------------
Quiet == ~asg.confl /\ asg.front > Len(asg.trail)

\* the solver decides, or learns a literal of the top level
Assign ==
  /\ Quiet /\ lsteps < LoopSteps
  /\ \E p \in LoopLits, val \in BOOLEAN, level \in {LoopDL + 1} \union ({0} \cap {LoopDL}) :
       /\ ~Given(p)
       /\ asg' = [asg EXCEPT !.trail = Append(@, [lit |-> p, val |-> val, level |-> level,
                                                  why |-> "solver"])]
  /\ lsteps' = lsteps + 1
  /\ UNCHANGED <<form, loopw, short>>

Backtrack ==
  /\ (asg.confl \/ Quiet) /\ LoopDL > 0
  /\ \E level \in 0..LoopDL - 1 :
       LET kept == SelectSeq(asg.trail, LAMBDA e : e.level <= level)
       IN asg' = [trail |-> kept, front |-> Len(kept) + 1, confl |-> FALSE]
  /\ UNCHANGED <<form, loopw, short, lsteps>>

\* is_open: all that is not satisfied, the true literal found is remembered
Open(f) ==
  LET true == {i \in f.x + 1..f.end - 1 : TrueLit(Cell(f, i))}
  IN IF true = {} THEN f ELSE [f EXCEPT !.other = Min(true)]
IsOpen ==
  /\ Quiet /\ ~form.gone
  /\ form' = IF OtherSat(form) THEN form ELSE Open(Rotated(form))
  /\ UNCHANGED <<loopw, asg, short, lsteps>>

-----------------------------------------------------------------------------
\* simplify, at the top level: true formulas go, false literals are removed
Gone(f) == [f EXCEPT !.gone = TRUE, !.flagged = @ \cap {f.x}]
Detached == /\ form' = Gone(form) /\ loopw' = {} /\ UNCHANGED short

AssignedCells(f) == {i \in ActiveCells(f) : Given(Cell(f, i))}
\* the current atom is false or true: nothing is left of the atoms
WithoutAtoms(f) ==
  IF AssignedCells(f) # {} /\ Cell(f, Min(AssignedCells(f))) = Cell(f, f.x)
  THEN [f EXCEPT !.x = 0] ELSE f
FreeActive(f) == SetToSortSeq({i \in ActiveCells(f) : ~Given(Cell(f, i))}, <)
Shrunk(f) ==
  LET cells == FreeActive(f)
      active == [k \in DOMAIN cells |-> Cell(f, cells[k])]
      atoms == IF f.x = 0 THEN <<>>
               ELSE SelectSeq(SubSeq(f.lits, XBegin(f) + 1, Len(f.lits)), LAMBDA a : ~Given(a))
      extra == IF Len(atoms) = 1 THEN <<>> ELSE atoms
  IN [f EXCEPT !.lits = <<0>> \o active \o <<0>> \o extra, !.end = Len(active) + 1,
               !.flagged = {k \in DOMAIN cells : cells[k] \in f.flagged},
               !.x = IF Len(atoms) = 1 THEN 0 ELSE @]

\* what is short enough becomes clauses of its own: the code copies the
\* active clause without its last literal
ActiveCopy(f) == [k \in 1..f.end - 2 |-> Cell(f, k)]
ShortClauses(f) ==
  LET heads == IF f.x = 0 THEN {Cell(f, 1)} ELSE XAtoms(f)
  IN {{a} \union {ActiveCopy(f)[k] : k \in 2..Len(ActiveCopy(f))} : a \in heads}

\* new watches after literals were removed: the body cell that follows
Reattached(f) ==
  LET body == f.x + 2
      flagged == ({f.x} \ {0}) \union ({body} \cap ActiveCells(f))
  IN /\ form' = [f EXCEPT !.flagged = (@ \cap {i \in ActiveCells(f) : i <= f.x}) \union flagged]
     /\ loopw' = {<<Cell(f, i), i, 1>> : i \in {k \in flagged : k > f.x}}
                 \union (IF f.x = 0 THEN {} ELSE {<<a, f.x, 1>> : a \in XAtoms(f)})

Simplify ==
  /\ Quiet /\ LoopDL = 0 /\ ~form.gone /\ lsteps < LoopSteps
  /\ LET rot == Rotated(form)
         f == Rotated([rot EXCEPT !.other = rot.x])
         g == Shrunk(WithoutAtoms(f))
         h == [g EXCEPT !.other = g.x + 1]
         bodyTrue == AssignedCells(f) # {} /\ \E i \in AssignedCells(f) : TrueLit(Cell(f, i))
     IN IF OtherSat(form) \/ OtherSat([rot EXCEPT !.other = rot.x]) \/ bodyTrue
        THEN Detached
        ELSE IF Len(ActiveCopy(h)) <= 3
        THEN /\ form' = Gone(h) /\ loopw' = {} /\ short' = ShortClauses(h)
        ELSE /\ short' = short
             /\ IF h.lits = f.lits THEN form' = h /\ loopw' = loopw ELSE Reattached(h)
  /\ lsteps' = lsteps + 1
  /\ UNCHANGED asg

LoopNext ==
  \/ PropagateNext \/ Assign \/ Backtrack \/ IsOpen \/ Simplify

-----------------------------------------------------------------------------
\* the clauses of the formula, and the literals a forced one follows from
LoopClauses == {{a} \union LoopBodyLits : a \in LoopAtomLits}
ReasonWithAtom(p) == {Cell(form, i) : i \in 1..form.end - 1} \ {p}
ReasonOf(p) ==
  {Cell(form, i) : i \in (IF form.other = form.x THEN 2 ELSE 1)..form.end - 1} \ {p}
LoopLocked ==
  IF form.other # form.x \/ ~TrueLit(Cell(form, form.other))
  THEN TrueLit(Cell(form, form.other)) /\ Cell(form, form.other) # 0
       /\ asg.trail[PosOf(Cell(form, form.other))].why = "loop"
  ELSE \E a \in XAtoms(form) : TrueLit(a) /\ asg.trail[PosOf(a)].why = "loop"
ForcedByLoop == {i \in DOMAIN asg.trail : asg.trail[i].why = "loop"}

(* While a literal the formula forced is assigned, the formula is locked   *)
(* against deletion, and the reason it gives is the rest of a clause of    *)
(* the formula, false before the literal was assigned, although the        *)
(* current atom and the remembered literal have been exchanged meanwhile.  *)
TopFalse == {p \in LoopLits : FalseLit(p) /\ asg.trail[PosOf(p)].level = 0}
LoopReasons ==
  \A i \in ForcedByLoop :
    LET p == asg.trail[i].lit
    IN ~form.gone =>
         /\ LoopLocked
         /\ \A q \in ReasonOf(p) : FalseLit(q) /\ PosOf(q) < i
         /\ \E C \in LoopClauses : C \ TopFalse \subseteq ReasonOf(p) \union {p}
                                  /\ ReasonOf(p) \union {p} \subseteq C

(* At the fixpoint no clause of the formula is false, and none has all but *)
(* one literal false and that one unassigned: the shared watch misses no   *)
(* atom, as long as there is a current atom.                               *)
LoopMisses ==
  (Quiet /\ ~form.gone /\ form.x # 0) =>
    \A C \in LoopClauses :
      (\E p \in C : TrueLit(p)) \/ Cardinality({p \in C : ~FalseLit(p)}) > 1

(* `loop_formula_simplify_false_bodies_collapse_into_learnt_short_clauses` *)
(* (tests/ported/clasp/clause_test.rs): what simplification leaves of the  *)
(* formula says what its clauses say under the top-level assignment.       *)
Says(M, clauses) == \A C \in clauses : M \cap C # {}
TopAgrees(M) == \A i \in DOMAIN asg.trail : asg.trail[i].level = 0 =>
                  (asg.trail[i].lit \in M <=> asg.trail[i].val)
CollapseKeeps ==
  (form.gone /\ LoopDL = 0 /\ short # {}) =>
    \A M \in SUBSET LoopLits : TopAgrees(M) =>
      (Says(M, LoopClauses) <=> Says(M, short))
=============================================================================

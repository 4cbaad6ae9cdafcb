----------------------------- MODULE TheoryTables -----------------------------
(***************************************************************************)
(* The theory data of a program: terms, elements and atoms in tables that  *)
(* grow with the ids used, a frame that marks what the current step added, *)
(* and the traversal of all of it or of the current step only              *)
(* (potassco/theory_data.rs).                                              *)
(***************************************************************************)
EXTENDS Integers, Sequences, FiniteSets, SequencesExt

CONSTANTS ThTerms, ThElems, \* ids
          ThSteps,          \* bound on the operations
          ThUpdates         \* bound on the steps of the program

VARIABLES thTerms,  \* the terms that each term is made of, "none" if there is none
          thElems,  \* the terms and the condition of each element, or "none"
          thAtoms,  \* the atoms
          thFrame,  \* where the current step starts in each table
          thBorn,   \* the program step in which each id was first defined
          thCount   \* program step and operations so far; whether an id was defined twice

thVars == <<thTerms, thElems, thAtoms, thFrame, thBorn, thCount>>

Absent == [terms |-> <<>>, cond |-> "absent"]
Deferred == "deferred"

ThInit ==
  /\ thTerms = <<>> /\ thElems = <<>> /\ thAtoms = <<>>
  /\ thFrame = [atom |-> 0, term |-> 0, elem |-> 0]
  /\ thBorn = [term |-> [i \in 0..ThTerms - 1 |-> 0], elem |-> [i \in 0..ThElems - 1 |-> 0]]
  /\ thCount = [step |-> 1, ops |-> 0, redefined |-> FALSE]

\* tables are numbered from 0
Present(table, id) == id < Len(table) /\ table[id + 1] # Absent
HasTerm(id) == Present(thTerms, id)
HasElem(id) == Present(thElems, id)
IsLaterTerm(id) == HasTerm(id) /\ id > thFrame.term
IsNewTerm(id) == HasTerm(id) /\ id >= thFrame.term
IsNewElem(id) == HasElem(id) /\ id >= thFrame.elem

Resized(table, n) == [i \in 1..n |-> IF i <= Len(table) THEN table[i] ELSE Absent]
AtLeast(a, b) == IF a > b THEN a ELSE b

OpThat(redefines) ==
  /\ thCount.ops < ThSteps
  /\ thCount' = [thCount EXCEPT !.ops = @ + 1, !.redefined = @ \/ redefines]
Op == OpThat(FALSE)
FirstIn(born) == IF born = 0 THEN thCount.step ELSE born

-----------------------------------------------------------------------------
(* TheoryData *)

\* a new term is not redefined; a term of an earlier step is
SetTerm(id, parts) ==
  /\ OpThat(thBorn.term[id] > 0) /\ ~IsNewTerm(id) /\ \A p \in ToSet(parts) : HasTerm(p)
  /\ thTerms' = [Resized(thTerms, AtLeast(Len(thTerms), id + 1)) EXCEPT
                   ![id + 1] = [terms |-> parts, cond |-> "term"]]
  /\ thBorn' = [thBorn EXCEPT !.term[id] = FirstIn(@)]
  /\ UNCHANGED <<thElems, thAtoms, thFrame>>
RemoveTerm(id) ==
  /\ OpThat(TRUE) /\ HasTerm(id)
  /\ thTerms' = [thTerms EXCEPT ![id + 1] = Absent]
  /\ UNCHANGED <<thElems, thAtoms, thFrame, thBorn>>

\* an element without its place in the table makes room: the table gets the
\* length of the table of terms, if that is longer, or the length it needs
ElemRoom(id) == AtLeast(Len(thTerms), id + 1)
AddElement(id, term) ==
  /\ OpThat(thBorn.elem[id] > 0) /\ ~IsNewElem(id) /\ HasTerm(term)
  /\ thElems' = [(IF HasElem(id) THEN thElems ELSE Resized(thElems, ElemRoom(id))) EXCEPT
                   ![id + 1] = [terms |-> <<term>>, cond |-> Deferred]]
  /\ thBorn' = [thBorn EXCEPT !.elem[id] = FirstIn(@)]
  /\ UNCHANGED <<thTerms, thAtoms, thFrame>>
SetCondition(id) ==
  /\ Op /\ HasElem(id) /\ thElems[id + 1].cond = Deferred
  /\ thElems' = [thElems EXCEPT ![id + 1].cond = "cond"]
  /\ UNCHANGED <<thTerms, thAtoms, thFrame, thBorn>>

\* atom 0 is a directive; a guarded atom has a right-hand side
AddTheoryAtom(a, term, elems, guarded) ==
  /\ Op /\ HasTerm(term) /\ \A e \in ToSet(elems) : HasElem(e)
  /\ thAtoms' = Append(thAtoms, [atom |-> a, term |-> term, elems |-> elems,
                                 rhs |-> IF guarded THEN <<term>> ELSE <<>>])
  /\ UNCHANGED <<thTerms, thElems, thFrame, thBorn>>
CurrAtoms == SubSeq(thAtoms, thFrame.atom + 1, Len(thAtoms))
\* the atoms of the current step are filtered, directives stay
FilterAtoms(a) ==
  /\ Op /\ CurrAtoms # <<>>
  /\ thAtoms' = SubSeq(thAtoms, 1, thFrame.atom)
                \o SelectSeq(CurrAtoms, LAMBDA x : x.atom = 0 \/ x.atom # a)
  /\ UNCHANGED <<thTerms, thElems, thFrame, thBorn>>
Update ==
  /\ thCount.step < ThUpdates
  /\ thFrame' = [atom |-> Len(thAtoms), term |-> Len(thTerms), elem |-> Len(thElems)]
  /\ thCount' = [thCount EXCEPT !.step = @ + 1]
  /\ UNCHANGED <<thTerms, thElems, thAtoms, thBorn>>
Reset ==
  /\ Op /\ thTerms # <<>>
  /\ thTerms' = <<>> /\ thElems' = <<>> /\ thAtoms' = <<>>
  /\ thFrame' = [atom |-> 0, term |-> 0, elem |-> 0]
  /\ thBorn' = [term |-> [i \in 0..ThTerms - 1 |-> 0], elem |-> [i \in 0..ThElems - 1 |-> 0]]

\* accept: a visitor that follows every reference it is shown; with Current it
\* is shown the atoms of the step, and of what they refer to the new ones
VisitTerm(id, all) == HasTerm(id) /\ (all \/ IsNewTerm(id))
VisitElem(id, all) == HasElem(id) /\ (all \/ IsNewElem(id))
ElemsSeen(atoms, all) ==
  {e \in 0..ThElems - 1 : VisitElem(e, all) /\ \E a \in atoms : e \in ToSet(a.elems)}
Direct(atoms, all) ==
  {t \in 0..ThTerms - 1 : VisitTerm(t, all) /\
     \/ \E a \in atoms : t = a.term \/ t \in ToSet(a.rhs)
     \/ \E e \in ElemsSeen(atoms, all) : t \in ToSet(thElems[e + 1].terms)}
Below(ts, all) ==
  ts \union {t \in 0..ThTerms - 1 : VisitTerm(t, all) /\
               \E u \in ts : t \in ToSet(thTerms[u + 1].terms)}
TermsSeen(atoms, all) ==
  LET f[n \in 0..ThTerms] == IF n = 0 THEN Direct(atoms, all) ELSE Below(f[n - 1], all)
  IN f[ThTerms]

ThNext ==
  \/ \E id \in 0..ThTerms - 1 : RemoveTerm(id) \/ SetTerm(id, <<>>)
  \/ \E id, p \in 0..ThTerms - 1 : p # id /\ SetTerm(id, <<p>>)
  \/ \E id \in 0..ThElems - 1 : SetCondition(id) \/ \E t \in 0..ThTerms - 1 : AddElement(id, t)
  \/ \E a \in {0, 1}, t \in 0..ThTerms - 1, guarded \in BOOLEAN :
       AddTheoryAtom(a, t, <<>>, guarded) \/ \E e \in 0..ThElems - 1 : AddTheoryAtom(a, t, <<e>>, guarded)
  \/ FilterAtoms(1) \/ Update \/ Reset

-----------------------------------------------------------------------------
(* Properties *)

InOrder == \A i, j \in 0..ThTerms - 1 :
  i < j /\ thBorn.term[j] > 0 => thBorn.term[i] > 0 /\ thBorn.term[i] <= thBorn.term[j]

\* If nothing is redefined or removed, the ids of terms are used without gaps
\* and no element of the step got an id below the end of the table, a term is
\* new exactly in the step that introduced it, and the traversal of the current
\* step shows a visitor exactly the new terms among all those that the atoms of
\* the step stand on.
StepSeen ==
  ~thCount.redefined /\ InOrder
  /\ (\A e \in 0..ThElems - 1 : thBorn.elem[e] = thCount.step => e >= thFrame.elem)
  => /\ \A t \in 0..ThTerms - 1 : HasTerm(t) => (IsNewTerm(t) <=> thBorn.term[t] = thCount.step)
     /\ TermsSeen(ToSet(CurrAtoms), FALSE) =
          {t \in TermsSeen(ToSet(CurrAtoms), TRUE) : thBorn.term[t] = thCount.step}

\* "Redefinition of theory element" is an error (the check in add_element): an
\* element is not replaced in the step that introduced it. It can be, if its id
\* is below the number of terms: the table was made as long as that before.
ElementOnce ==
  [][\A e \in 0..ThElems - 1 :
       HasElem(e) /\ thBorn.elem[e] = thCount.step /\ e < Len(thElems')
       => thElems'[e + 1].terms = thElems[e + 1].terms]_thVars
=============================================================================

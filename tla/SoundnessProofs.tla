--------------------------- MODULE SoundnessProofs --------------------------
EXTENDS SolverProofs

(***************************************************************************)
(* Proofs that SolverKernel reasons soundly, for any number of variables   *)
(* and any problem: reasons stand before what they explain, conflict       *)
(* analysis learns an asserting clause, every clause of the database       *)
(* follows from the problem, and so does every assigned literal from the   *)
(* premises of its level.                                                  *)
(*                                                                         *)
(* The first part states the inductive invariant. The second has a lemma   *)
(* per operator of SolverState, the third one per group of actions.        *)
(***************************************************************************)

(***************************************************************************)
(* The invariant. R stands for the set of clauses a reason may come from.  *)
(***************************************************************************)
(* The trail is ordered by level and assigns each variable once.           *)
TrailShape(s) ==
  /\ \A i \in DOMAIN s.trail : s.trail[i].level <= DL(s)
  /\ \A i, j \in DOMAIN s.trail : i <= j => s.trail[i].level <= s.trail[j].level
  /\ \A i, j \in DOMAIN s.trail : Var(s.trail[i].lit) = Var(s.trail[j].lit) => i = j

Reasoned(s, R) ==
  \A i \in DOMAIN s.trail :
    s.trail[i].ante # NoAnte =>
      /\ s.trail[i].ante \in R /\ s.trail[i].lit \in s.trail[i].ante
      /\ \A k \in s.trail[i].ante \ {s.trail[i].lit} : \E j \in 1..(i - 1) : s.trail[j].lit = -k

(* Above the backtrack level only the first literal of a level has no      *)
(* reason, so conflict analysis never resolves on such a literal.          *)
DecisionsFirst(s) ==
  \A i \in DOMAIN s.trail :
    s.trail[i].level > s.bt /\ s.trail[i].ante = NoAnte =>
      \A j \in 1..(i - 1) : s.trail[j].level < s.trail[i].level

TrailOk(s, R) == TrailShape(s) /\ Reasoned(s, R) /\ DecisionsFirst(s)

AtLevel(s, l, n) == \E j \in DOMAIN s.trail : s.trail[j].lit = l /\ s.trail[j].level = n
TrueBy(s, l, n)  == \E j \in DOMAIN s.trail : s.trail[j].lit = l /\ s.trail[j].level <= n

(* The list of implied literals: none above the backtrack level, those the *)
(* list has passed on the root path, and the reasons false where the       *)
(* literal is implied.                                                     *)
EntryOk(s, R, e) ==
  e.ante # NoAnte => /\ e.ante \in R /\ e.lit \in e.ante
                     /\ \A k \in e.ante \ {e.lit} : TrueBy(s, -k, e.level)
ImpliedOk(s, R) ==
  /\ s.implied.front <= Len(s.implied.lits)
  /\ s.implied.lits = <<>> => s.implied.level = 0
  /\ \A i \in DOMAIN s.implied.lits :
       /\ s.implied.lits[i].level <= s.implied.level /\ s.implied.lits[i].level <= s.bt
       /\ i <= s.implied.front => s.implied.lits[i].level <= s.root
       /\ EntryOk(s, R, s.implied.lits[i])

(* Going back to a level above the backtrack level forces nothing: the     *)
(* list is not active there, or what it has to force is true. The second   *)
(* case only comes up when backtrack_step lowers the backtrack level.      *)
LiveHeld(s) ==
  \/ s.implied.level <= s.bt
  \/ /\ "backtrack_step" \in Api
     /\ \A i \in DOMAIN s.implied.lits :
          i > s.implied.front => TrueBy(s, s.implied.lits[i].lit, s.bt)

Core(s, R) == TrailOk(s, R) /\ ImpliedOk(s, R) /\ LiveHeld(s)

(* Above the backtrack level, what is still to be propagated belongs to    *)
(* the decision level, and a conflict is a clause of R that this level has *)
(* falsified (or, after integrate, one the top level falsifies).           *)
QueueOk(s) ==
  /\ s.front <= Len(s.trail)
  /\ DL(s) > s.bt => \A i \in DOMAIN s.trail : i > s.front => s.trail[i].level = DL(s)
Current(s, ls) == \/ \E l \in ls : AtLevel(s, l, DL(s))
                  \/ "integrate" \in Api /\ \E l \in ls : AtLevel(s, l, 0)
ConflictOk(s, R) ==
  s.conflict.has /\ DL(s) > s.bt =>
    /\ \A l \in s.conflict.lits : IsTrue(s, l)
    /\ Neg(s.conflict.lits) \in R
    /\ Current(s, s.conflict.lits)
Calm(s, R) == QueueOk(s) /\ ConflictOk(s, R)

(***************************************************************************)
(* Literals, positions and levels.                                         *)
(***************************************************************************)
LEMMA Typed ==
  ASSUME NEW s \in State
  PROVE  /\ DOMAIN s.trail = 1..Len(s.trail) /\ Len(s.trail) \in Nat
         /\ \A i \in DOMAIN s.trail : /\ s.trail[i] \in Entry /\ s.trail[i].lit \in Lit
                                      /\ s.trail[i].level \in Nat
                                      /\ s.trail[i].ante \in SUBSET Lit
         /\ DL(s) \in Nat /\ s.front \in Nat /\ s.bt \in Nat /\ s.root \in Nat
         /\ DOMAIN s.implied.lits = 1..Len(s.implied.lits) /\ Len(s.implied.lits) \in Nat
         /\ \A i \in DOMAIN s.implied.lits : /\ s.implied.lits[i] \in Entry
                                             /\ s.implied.lits[i].lit \in Lit
                                             /\ s.implied.lits[i].level \in Nat
                                             /\ s.implied.lits[i].ante \in SUBSET Lit
         /\ s.implied.level \in Nat /\ s.implied.front \in Nat
<1>1. \A e \in Entry : e.lit \in Lit /\ e.level \in Nat /\ e.ante \in SUBSET Lit
  BY DEF Entry
<1>2. s.trail \in Seq(Entry) /\ s.implied.lits \in Seq(Entry)
  BY DEF State
<1>3. DOMAIN s.trail = 1..Len(s.trail) /\ Len(s.trail) \in Nat
      /\ \A i \in DOMAIN s.trail : s.trail[i] \in Entry
  BY <1>2
<1>4. DOMAIN s.implied.lits = 1..Len(s.implied.lits) /\ Len(s.implied.lits) \in Nat
      /\ \A i \in DOMAIN s.implied.lits : s.implied.lits[i] \in Entry
  BY <1>2
<1>5. DL(s) \in Nat /\ s.front \in Nat /\ s.bt \in Nat /\ s.root \in Nat
      /\ s.implied.level \in Nat /\ s.implied.front \in Nat
  BY DEF State, DL
<1> QED
  BY <1>1, <1>3, <1>4, <1>5

LEMMA Complements ==
  /\ \A l \in Lit : -l \in Lit /\ -(-l) = l /\ l # -l /\ Var(-l) = Var(l)
  /\ \A k, l \in Lit : Var(k) = Var(l) => k = l \/ k = -l
BY NumVarsAssumption DEF Lit, Vars, Var

LEMMA NegNeg ==
  ASSUME NEW c \in SUBSET Lit
  PROVE  Neg(c) \in SUBSET Lit /\ Neg(Neg(c)) = c
<1>1. Neg(c) \in SUBSET Lit
  BY LitFacts
<1>2. \A x : x \in Neg(Neg(c)) <=> \E l \in c : x = -(-l)
  BY DEF Neg
<1>3. Neg(Neg(c)) = c
  BY <1>2, Complements
<1> QED
  BY <1>1, <1>3

LEMMA LevelAt ==
  ASSUME NEW s \in State, TrailShape(s), NEW i \in DOMAIN s.trail, NEW l,
         Var(s.trail[i].lit) = Var(l)
  PROVE  LevelOf(s, l) = s.trail[i].level /\ AnteOf(s, l) = s.trail[i].ante
<1>1. PositionsOf(s, l) = {i}
  BY DEF PositionsOf, TrailShape
<1> QED
  BY <1>1 DEF LevelOf, AnteOf

LEMMA TrueAt ==
  ASSUME NEW s \in State, TrailShape(s), NEW l \in Lit
  PROVE  /\ IsTrue(s, l) => AtLevel(s, l, LevelOf(s, l)) /\ LevelOf(s, l) <= DL(s) /\ ~IsFalse(s, l)
         /\ IsFalse(s, l) => AtLevel(s, -l, LevelOf(s, l)) /\ LevelOf(s, l) <= DL(s)
         /\ \A n : AtLevel(s, l, n) => IsTrue(s, l) /\ LevelOf(s, l) = n
         /\ \A n : AtLevel(s, -l, n) => IsFalse(s, l) /\ LevelOf(s, l) = n
<1>1. \A i \in DOMAIN s.trail : Var(s.trail[i].lit) = Var(l) => LevelOf(s, l) = s.trail[i].level
  BY LevelAt
<1>2. Var(-l) = Var(l) /\ l # -l
  BY Complements
<1>3. IsTrue(s, l) <=> \E i \in DOMAIN s.trail : s.trail[i].lit = l
  BY DEF IsTrue, TrueLits
<1>4. IsFalse(s, l) <=> \E i \in DOMAIN s.trail : s.trail[i].lit = -l
  BY DEF IsFalse, TrueLits
<1>5. ~(IsTrue(s, l) /\ IsFalse(s, l))
  BY <1>2, <1>3, <1>4 DEF TrailShape
<1> QED
  BY <1>1, <1>2, <1>3, <1>4, <1>5 DEF AtLevel, TrailShape

(***************************************************************************)
(* Cutting the trail at a level.                                           *)
(***************************************************************************)
(* A downward closed set of positions is an interval from 1.               *)
Closed(P) == \A i \in P : \A j \in 1..i : j \in P
Interval(P) == P = 1..Cardinality(P) /\ Cardinality(P) \in Nat

LEMMA PrefixSet ==
  ASSUME NEW n \in Nat
  PROVE  \A P \in SUBSET (1..n) : Closed(P) => Interval(P)
<1> DEFINE S == {k \in Nat : \A P \in SUBSET (1..k) : Closed(P) => Interval(P)}
<1>1. 0 \in S
  <2> SUFFICES ASSUME NEW P \in SUBSET (1..0) PROVE Interval(P)
    OBVIOUS
  <2>1. P = {}
    OBVIOUS
  <2>2. Cardinality({}) = 0
    BY FS_EmptySet
  <2> QED
    BY <2>1, <2>2 DEF Interval
<1>2. \A k \in Nat : k \in S => k + 1 \in S
  <2> SUFFICES ASSUME NEW k \in Nat, k \in S, NEW P \in SUBSET (1..(k + 1)), Closed(P)
               PROVE  Interval(P)
    OBVIOUS
  <2>1. CASE k + 1 \in P
    <3>1. P = 1..(k + 1)
      BY <2>1 DEF Closed
    <3>2. Cardinality(1..(k + 1)) = k + 1
      BY FS_Interval, k + 1 \in Int, 1 \in Int
    <3> QED
      BY <3>1, <3>2 DEF Interval
  <2>2. CASE k + 1 \notin P
    <3>1. P \in SUBSET (1..k)
      BY <2>2
    <3> QED
      BY <3>1
  <2> QED
    BY <2>1, <2>2
<1> HIDE DEF S
<1>3. Nat \subseteq S
  BY <1>1, <1>2, NatSetInduction
<1> QED
  BY <1>3 DEF S

(* What is assigned up to a level stays. *)
Stays(s, t, n) ==
  \A i \in DOMAIN s.trail :
    s.trail[i].level <= n => /\ i \in DOMAIN t.trail
                             /\ t.trail[i].lit = s.trail[i].lit
                             /\ t.trail[i].level = s.trail[i].level
Grown(s, t) ==
  \A i \in DOMAIN s.trail : /\ i \in DOMAIN t.trail
                            /\ t.trail[i].lit = s.trail[i].lit
                            /\ t.trail[i].level = s.trail[i].level

(* The trail of t begins the trail of s and has all of it up to a level.   *)
Cut(s, t, n) ==
  /\ \A i \in DOMAIN t.trail : i \in DOMAIN s.trail /\ t.trail[i] = s.trail[i]
  /\ \A i \in DOMAIN s.trail : s.trail[i].level <= n => i \in DOMAIN t.trail

(* The facts: what the top level has without a reason.                     *)
Facts(s) == {s.trail[i].lit : i \in {j \in DOMAIN s.trail : s.trail[j].ante = NoAnte
                                                            /\ s.trail[j].level = 0}}

LEMMA StaysTrue ==
  ASSUME NEW s \in State, NEW t, NEW n \in Nat, Stays(s, t, n)
  PROVE  /\ \A l : \A k \in Nat : k <= n /\ TrueBy(s, l, k) => TrueBy(t, l, k)
         /\ \A l : \A k \in Nat : k <= n /\ AtLevel(s, l, k) => AtLevel(t, l, k)
<1>1. \A i \in DOMAIN s.trail : s.trail[i].level \in Nat
  BY Typed
<1>2. \A l : \A k \in Nat : k <= n /\ TrueBy(s, l, k) => TrueBy(t, l, k)
  BY <1>1 DEF TrueBy, Stays
<1>3. \A l : \A k \in Nat : k <= n /\ AtLevel(s, l, k) => AtLevel(t, l, k)
  BY <1>1 DEF AtLevel, Stays
<1> QED
  BY <1>2, <1>3

LEMMA GrownTrue ==
  ASSUME NEW s, NEW t, Grown(s, t)
  PROVE  /\ \A n : Stays(s, t, n)
         /\ \A l, k : TrueBy(s, l, k) => TrueBy(t, l, k)
         /\ \A l, k : AtLevel(s, l, k) => AtLevel(t, l, k)
         /\ \A l : IsTrue(s, l) => IsTrue(t, l)
         /\ \A l : IsFalse(s, l) => IsFalse(t, l)
BY DEF Grown, Stays, TrueBy, AtLevel, IsTrue, IsFalse, TrueLits

LEMMA SameFacts ==
  ASSUME NEW s, NEW t,
         \A i \in DOMAIN s.trail : i \in DOMAIN t.trail /\ t.trail[i] = s.trail[i]
  PROVE  Facts(s) \subseteq Facts(t)
BY DEF Facts

LEMMA UpToCut ==
  ASSUME NEW s \in State, TrailShape(s), NEW n \in Nat, NEW t,
         t.trail = SubSeq(s.trail, 1, UpTo(s, n))
  PROVE  Cut(s, t, n) /\ \A i \in DOMAIN t.trail : t.trail[i].level <= n
<1> DEFINE P == {i \in DOMAIN s.trail : s.trail[i].level <= n}
           m == Cardinality(P)
<1>1. DOMAIN s.trail = 1..Len(s.trail) /\ Len(s.trail) \in Nat
      /\ \A i \in DOMAIN s.trail : s.trail[i].level \in Nat
  BY Typed
<1>2. P \in SUBSET (1..Len(s.trail)) /\ \A i \in P : \A j \in 1..i : j \in P
  BY <1>1 DEF TrailShape
<1>3. P = 1..m /\ m \in Nat
  BY <1>1, <1>2, PrefixSet DEF Closed, Interval
<1>4. UpTo(s, n) = m
  BY DEF UpTo
<1> HIDE DEF m
<1>5. m <= Len(s.trail)
  BY <1>1, <1>2, <1>3
<1>6. s.trail \in Seq(Entry)
  BY DEF State
<1>7. DOMAIN t.trail = 1..m /\ \A i \in 1..m : t.trail[i] = s.trail[i]
  BY <1>1, <1>3, <1>4, <1>5, <1>6
<1> QED
  BY <1>3, <1>7 DEF Cut

LEMMA CutTrail ==
  ASSUME NEW R, NEW s \in State, NEW t \in State, NEW n \in Nat,
         TrailShape(s), Reasoned(s, R), Cut(s, t, n),
         \A i \in DOMAIN t.trail : t.trail[i].level <= DL(t)
  PROVE  /\ TrailShape(t) /\ Reasoned(t, R)
         /\ DL(t) <= t.bt \/ (DecisionsFirst(s) /\ s.bt <= t.bt) => DecisionsFirst(t)
         /\ Stays(s, t, n)
         /\ Facts(s) \subseteq Facts(t)
<1>1. /\ DOMAIN s.trail = 1..Len(s.trail) /\ Len(s.trail) \in Nat
      /\ DOMAIN t.trail = 1..Len(t.trail) /\ Len(t.trail) \in Nat
      /\ \A i \in DOMAIN s.trail : s.trail[i].level \in Nat
      /\ DL(s) \in Nat /\ DL(t) \in Nat /\ s.bt \in Nat /\ t.bt \in Nat
  BY Typed
<1>2. /\ \A i \in DOMAIN t.trail : i \in DOMAIN s.trail /\ t.trail[i] = s.trail[i]
      /\ \A i \in DOMAIN s.trail : s.trail[i].level <= n => i \in DOMAIN t.trail
  BY DEF Cut
<1>3. TrailShape(t)
  <2>1. \A i, j \in DOMAIN t.trail : i <= j => t.trail[i].level <= t.trail[j].level
    BY <1>2 DEF TrailShape
  <2>2. \A i, j \in DOMAIN t.trail : Var(t.trail[i].lit) = Var(t.trail[j].lit) => i = j
    BY <1>2 DEF TrailShape
  <2> QED
    BY <2>1, <2>2 DEF TrailShape
<1>4. \A i \in DOMAIN t.trail : \A j \in 1..(i - 1) : j \in DOMAIN t.trail
  BY <1>1
<1>5. Reasoned(t, R)
  <2> SUFFICES ASSUME NEW i \in DOMAIN t.trail, t.trail[i].ante # NoAnte
               PROVE  /\ t.trail[i].ante \in R /\ t.trail[i].lit \in t.trail[i].ante
                      /\ \A k \in t.trail[i].ante \ {t.trail[i].lit} :
                           \E j \in 1..(i - 1) : t.trail[j].lit = -k
    BY DEF Reasoned
  <2>1. i \in DOMAIN s.trail /\ t.trail[i] = s.trail[i]
    BY <1>2
  <2>2. /\ s.trail[i].ante \in R /\ s.trail[i].lit \in s.trail[i].ante
        /\ \A k \in s.trail[i].ante \ {s.trail[i].lit} : \E j \in 1..(i - 1) : s.trail[j].lit = -k
    BY <2>1 DEF Reasoned
  <2>3. \A j \in 1..(i - 1) : t.trail[j] = s.trail[j]
    BY <1>2, <1>4
  <2> QED
    BY <2>1, <2>2, <2>3
<1>6. ASSUME DL(t) <= t.bt \/ (DecisionsFirst(s) /\ s.bt <= t.bt)
      PROVE  DecisionsFirst(t)
  <2> SUFFICES ASSUME NEW i \in DOMAIN t.trail, t.trail[i].level > t.bt, t.trail[i].ante = NoAnte,
                      NEW j \in 1..(i - 1)
               PROVE  t.trail[j].level < t.trail[i].level
    BY DEF DecisionsFirst
  <2>1. i \in DOMAIN s.trail /\ t.trail[i] = s.trail[i] /\ t.trail[i].level <= DL(t)
    BY <1>2
  <2>2. t.trail[j] = s.trail[j]
    BY <1>2, <1>4
  <2>3. DecisionsFirst(s) /\ s.trail[i].level > s.bt
    BY SMTT(40), <1>1, <1>6, <2>1
  <2> QED
    BY <2>1, <2>2, <2>3 DEF DecisionsFirst
<1>7. Stays(s, t, n)
  BY <1>2 DEF Stays
<1>8. \A i \in DOMAIN s.trail : s.trail[i].level = 0 => i \in DOMAIN t.trail /\ t.trail[i] = s.trail[i]
  BY <1>1, <1>2
<1>9. Facts(s) \subseteq Facts(t)
  BY <1>8 DEF Facts
<1> QED
  BY <1>3, <1>5, <1>6, <1>7, <1>9

(***************************************************************************)
(* Operators that assign.                                                  *)
(***************************************************************************)
Justified(s, R, l, ante) ==
  ante # NoAnte => ante \in R /\ l \in ante /\ \A k \in ante \ {l} : IsFalse(s, k)

(* A literal without a reason is forced on a new level, or at most at the  *)
(* backtrack level.                                                        *)
MayAssign(s, ante) ==
  ante # NoAnte \/ DL(s) <= s.bt \/ \A i \in DOMAIN s.trail : s.trail[i].level < DL(s)

LEMMA ForceTrail ==
  ASSUME NEW R, NEW s \in State, TrailOk(s, R), NEW l \in Lit, NEW ante \in SUBSET Lit,
         Justified(s, R, l, ante), MayAssign(s, ante)
  PROVE  LET t == ForceLit(s, l, ante)
         IN /\ TrailOk(t, R) /\ Grown(s, t)
            /\ t.implied = s.implied /\ t.front = s.front /\ t.decisions = s.decisions
            /\ \A i \in DOMAIN t.trail : i \in DOMAIN s.trail \/ t.trail[i].level = DL(s)
            /\ \A i \in DOMAIN s.trail : t.trail[i] = s.trail[i]
            /\ IsFalse(s, l) \/ (TrueBy(t, l, DL(s)) /\ t.conflict = s.conflict)
            /\ Len(s.trail) <= Len(t.trail) /\ Facts(s) \subseteq Facts(t)
<1> DEFINE t == ForceLit(s, l, ante)
           e == [lit |-> l, level |-> DL(s), ante |-> ante]
<1>0. /\ DOMAIN s.trail = 1..Len(s.trail) /\ Len(s.trail) \in Nat
      /\ \A i \in DOMAIN s.trail : s.trail[i].level \in Nat /\ s.trail[i].lit \in Lit
      /\ DL(s) \in Nat
  BY Typed
<1>1. CASE IsTrue(s, l)
  <2>1. t = s
    BY <1>1 DEF ForceLit
  <2>2. TrueBy(s, l, DL(s))
    BY <1>1 DEF IsTrue, TrueLits, TrueBy, TrailOk, TrailShape
  <2> QED
    BY <1>0, <2>1, <2>2, SameFacts DEF Grown
<1>2. CASE IsFalse(s, l) /\ ~IsTrue(s, l)
  <2>1. t = SetConflict(s, l, ante)
    BY <1>2 DEF ForceLit
  <2>2. /\ t.trail = s.trail /\ t.decisions = s.decisions /\ t.bt = s.bt
        /\ t.implied = s.implied /\ t.front = s.front
    BY <2>1 DEF SetConflict, State
  <2>3. TrailOk(t, R)
    BY <2>2 DEF TrailOk, TrailShape, Reasoned, DecisionsFirst, DL
  <2> QED
    BY <1>0, <1>2, <2>2, <2>3, SameFacts DEF Grown
<1>3. CASE ~IsFalse(s, l) /\ ~IsTrue(s, l)
  <2>1. t = [s EXCEPT !.trail = Append(@, e)]
    BY <1>3 DEF ForceLit
  <2>2. /\ t.trail = Append(s.trail, e) /\ t.decisions = s.decisions /\ t.bt = s.bt
        /\ t.implied = s.implied /\ t.front = s.front /\ t.conflict = s.conflict
    BY <2>1 DEF State
  <2>3. s.trail \in Seq(Entry)
    BY DEF State
  <2> DEFINE n == Len(s.trail) + 1
  <2> HIDE DEF t
  <2>4. /\ Len(t.trail) = n /\ DOMAIN t.trail = 1..n /\ t.trail[n] = e
        /\ \A i \in 1..Len(s.trail) : t.trail[i] = s.trail[i]
    BY <2>2, <2>3, <1>0
  <2>5. \A i \in DOMAIN t.trail : (i \in DOMAIN s.trail /\ t.trail[i] = s.trail[i]) \/ i = n
    BY <1>0, <2>4
  <2>6. DL(t) = DL(s)
    BY <2>2 DEF DL
  <2>7. \A i \in DOMAIN s.trail : Var(s.trail[i].lit) # Var(l)
    BY <1>0, <1>3, Complements DEF IsTrue, IsFalse, TrueLits
  <2>8. TrailShape(t)
    <3>1. \A i \in DOMAIN t.trail : t.trail[i].level <= DL(t)
      BY <1>0, <2>4, <2>5, <2>6 DEF TrailOk, TrailShape
    <3>2. ASSUME NEW i \in DOMAIN t.trail, NEW j \in DOMAIN t.trail, i <= j
          PROVE  t.trail[i].level <= t.trail[j].level
      <4>1. CASE j = n
        BY <1>0, <2>4, <2>6, <3>1, <4>1
      <4>2. CASE j # n
        <5>1. i \in DOMAIN s.trail /\ j \in DOMAIN s.trail
          BY <1>0, <2>4, <3>2, <4>2
        <5> QED
          BY <1>0, <2>4, <3>2, <5>1 DEF TrailOk, TrailShape
      <4> QED
        BY <4>1, <4>2
    <3>3. \A i, j \in DOMAIN t.trail : Var(t.trail[i].lit) = Var(t.trail[j].lit) => i = j
      BY <2>4, <2>5, <2>7 DEF TrailOk, TrailShape
    <3> QED
      BY <3>1, <3>2, <3>3 DEF TrailShape
  <2>9. Reasoned(t, R)
    <3>1. \A k \in ante \ {l} : ante # NoAnte => \E j \in 1..(n - 1) : t.trail[j].lit = -k
      BY <1>0, <2>4 DEF Justified, IsFalse, TrueLits
    <3>2. \A i \in DOMAIN s.trail : 1..(i - 1) \subseteq DOMAIN s.trail
      BY <1>0
    <3>3. \A i \in DOMAIN s.trail : t.trail[i] = s.trail[i]
      BY <1>0, <2>4
    <3>4. ASSUME NEW i \in DOMAIN t.trail, t.trail[i].ante # NoAnte
          PROVE  /\ t.trail[i].ante \in R /\ t.trail[i].lit \in t.trail[i].ante
                 /\ \A k \in t.trail[i].ante \ {t.trail[i].lit} :
                      \E j \in 1..(i - 1) : t.trail[j].lit = -k
      <4>1. CASE i \in DOMAIN s.trail
        BY <3>2, <3>3, <3>4, <4>1 DEF TrailOk, Reasoned
      <4>2. CASE i = n
        BY <2>4, <3>1, <3>4, <4>2 DEF Justified
      <4> QED
        BY <4>1, <4>2, <2>5
    <3> QED
      BY <3>4 DEF Reasoned
  <2>10. DecisionsFirst(t)
    <3>1. \A i \in DOMAIN s.trail : 1..(i - 1) \subseteq DOMAIN s.trail
      BY <1>0
    <3>2. 1..(n - 1) = DOMAIN s.trail
      BY <1>0
    <3>3. ASSUME NEW i \in DOMAIN t.trail, t.trail[i].level > t.bt, t.trail[i].ante = NoAnte
          PROVE  \A j \in 1..(i - 1) : t.trail[j].level < t.trail[i].level
      <4>1. CASE i \in DOMAIN s.trail
        BY <1>0, <2>2, <2>4, <3>1, <3>3, <4>1 DEF TrailOk, DecisionsFirst
      <4>2. CASE i = n
        <5>1. DL(s) > s.bt /\ ante = NoAnte
          BY <2>2, <2>4, <3>3, <4>2
        <5>2. s.bt \in Nat
          BY Typed
        <5>3. \A j \in DOMAIN s.trail : s.trail[j].level < DL(s)
          BY <5>1, <5>2, <1>0 DEF MayAssign
        <5> QED
          BY <1>0, <2>4, <3>2, <5>3, <4>2
      <4> QED
        BY <4>1, <4>2, <2>5
    <3> QED
      BY <3>3 DEF DecisionsFirst
  <2>11. TrueBy(t, l, DL(s))
    <3>1. n \in DOMAIN t.trail /\ t.trail[n].lit = l /\ t.trail[n].level <= DL(s)
      BY <1>0, <2>4
    <3> QED
      BY <3>1 DEF TrueBy
  <2>12. Facts(s) \subseteq Facts(t)
    <3>1. \A i \in DOMAIN s.trail : i \in DOMAIN t.trail /\ t.trail[i] = s.trail[i]
      BY <1>0, <2>4
    <3> QED
      BY <3>1, SameFacts
  <2> QED
    BY <1>0, <2>2, <2>4, <2>5, <2>8, <2>9, <2>10, <2>11, <2>12 DEF TrailOk, Grown, t
<1> QED
  BY <1>1, <1>2, <1>3

LEMMA ListKept ==
  ASSUME NEW R, NEW s \in State, NEW t \in State, ImpliedOk(s, R), t.implied = s.implied,
         s.root <= t.root, s.bt <= t.bt, Stays(s, t, s.bt)
  PROVE  ImpliedOk(t, R) /\ (LiveHeld(s) => LiveHeld(t))
<1>1. /\ s.bt \in Nat /\ t.bt \in Nat /\ s.root \in Nat /\ t.root \in Nat /\ s.implied.level \in Nat
      /\ \A i \in DOMAIN s.implied.lits : s.implied.lits[i].level \in Nat
      /\ \A i \in DOMAIN t.trail : t.trail[i].level \in Nat
  BY Typed
<1>2. \A l : \A k \in Nat : k <= s.bt /\ TrueBy(s, l, k) => TrueBy(t, l, k)
  BY <1>1, StaysTrue
<1>3. \A l : TrueBy(s, l, s.bt) => TrueBy(t, l, t.bt)
  <2> SUFFICES ASSUME NEW l, TrueBy(s, l, s.bt) PROVE TrueBy(t, l, t.bt)
    OBVIOUS
  <2>1. TrueBy(t, l, s.bt)
    BY <1>1, <1>2
  <2> QED
    BY <1>1, <2>1 DEF TrueBy
<1>4. ASSUME NEW i \in DOMAIN s.implied.lits
      PROVE  /\ s.implied.lits[i].level <= s.implied.level /\ s.implied.lits[i].level <= t.bt
             /\ i <= s.implied.front => s.implied.lits[i].level <= t.root
             /\ EntryOk(t, R, s.implied.lits[i])
  <2>1. /\ s.implied.lits[i].level <= s.implied.level /\ s.implied.lits[i].level <= s.bt
        /\ i <= s.implied.front => s.implied.lits[i].level <= s.root
        /\ EntryOk(s, R, s.implied.lits[i])
    BY DEF ImpliedOk
  <2>2. EntryOk(t, R, s.implied.lits[i])
    BY <1>1, <1>2, <2>1 DEF EntryOk
  <2> QED
    BY <1>1, <2>1, <2>2
<1>5. ImpliedOk(t, R)
  BY <1>4 DEF ImpliedOk
<1> QED
  BY <1>1, <1>3, <1>5 DEF LiveHeld

(* A conflict a clause meets above the backtrack level belongs to the      *)
(* decision level.                                                         *)
ConflictFits(s, l, ante) ==
  IsFalse(s, l) /\ DL(s) > s.bt => ante # NoAnte /\ Current(s, Neg(ante))

LEMMA ForceCore ==
  ASSUME NEW R, NEW s, Good(s), Core(s, R), NEW l \in Lit, NEW ante \in SUBSET Lit,
         Justified(s, R, l, ante), MayAssign(s, ante)
  PROVE  LET t == ForceLit(s, l, ante)
         IN /\ Good(t) /\ Core(t, R) /\ Facts(s) \subseteq Facts(t) /\ Grown(s, t)
            /\ t.implied = s.implied /\ DL(t) = DL(s) /\ t.bt = s.bt /\ t.root = s.root
            /\ IsFalse(s, l) \/ (TrueBy(t, l, DL(s)) /\ t.conflict = s.conflict)
            /\ QueueOk(s) => QueueOk(t)
            /\ ConflictOk(s, R) /\ ConflictFits(s, l, ante) => ConflictOk(t, R)
<1> DEFINE t == ForceLit(s, l, ante)
<1>0. s \in State /\ t \in State /\ Good(t) /\ LevelsSame(s, t)
  BY ForceGood, ForceType DEF Good
<1>1. /\ TrailOk(t, R) /\ Grown(s, t) /\ t.implied = s.implied /\ t.front = s.front
      /\ \A i \in DOMAIN t.trail : i \in DOMAIN s.trail \/ t.trail[i].level = DL(s)
      /\ \A i \in DOMAIN s.trail : t.trail[i] = s.trail[i]
      /\ IsFalse(s, l) \/ (TrueBy(t, l, DL(s)) /\ t.conflict = s.conflict)
      /\ Len(s.trail) <= Len(t.trail) /\ Facts(s) \subseteq Facts(t)
  BY <1>0, ForceTrail DEF Core
<1>2. IsFalse(s, l) => t = s \/ t = SetConflict(s, l, ante)
  BY DEF ForceLit
<1> HIDE DEF t
<1>3. DL(t) = DL(s) /\ t.bt = s.bt /\ t.root = s.root
  BY <1>0 DEF LevelsSame, DL
<1>4. DL(s) \in Nat /\ s.bt \in Nat /\ s.root \in Nat /\ s.front \in Nat
      /\ Len(s.trail) \in Nat /\ Len(t.trail) \in Nat
  BY <1>0, Typed
<1>5. ImpliedOk(t, R) /\ LiveHeld(t)
  BY <1>0, <1>1, <1>3, <1>4, GrownTrue, ListKept DEF Core
<1>6. ASSUME QueueOk(s) PROVE QueueOk(t)
  BY <1>1, <1>3, <1>4, <1>6 DEF QueueOk
<1>7. ASSUME ConflictOk(s, R), ConflictFits(s, l, ante) PROVE ConflictOk(t, R)
  <2> SUFFICES ASSUME t.conflict.has, DL(s) > s.bt
               PROVE  /\ \A k \in t.conflict.lits : IsTrue(t, k)
                      /\ Neg(t.conflict.lits) \in R
                      /\ Current(t, t.conflict.lits)
    BY <1>3 DEF ConflictOk
  <2>1. CASE t.conflict = s.conflict
    <3>1. /\ \A k \in s.conflict.lits : IsTrue(s, k)
          /\ Neg(s.conflict.lits) \in R /\ Current(s, s.conflict.lits)
      BY <1>7, <2>1 DEF ConflictOk
    <3> QED
      BY <1>1, <1>3, <2>1, <3>1, GrownTrue DEF Current
  <2>2. CASE t.conflict # s.conflict
    <3>1. IsFalse(s, l) /\ t = SetConflict(s, l, ante)
      BY <1>1, <1>2, <2>2
    <3>2. ante # NoAnte /\ Current(s, Neg(ante))
      BY <1>7, <3>1 DEF ConflictFits
    <3>3. ante \in R /\ l \in ante /\ \A k \in ante \ {l} : IsFalse(s, k)
      BY <3>2 DEF Justified
    <3>4. t.conflict = [has |-> TRUE, lits |-> {-l} \cup Neg(ante \ {l})]
      BY <1>0, <3>1 DEF SetConflict, State
    <3>5. t.conflict.lits = Neg(ante)
      BY <3>3, <3>4 DEF Neg
    <3>6. \A k \in Neg(ante) : IsTrue(s, k)
      BY <3>1, <3>3 DEF Neg, IsTrue, IsFalse
    <3>7. Neg(Neg(ante)) = ante
      BY NegNeg
    <3> QED
      BY <1>1, <1>3, <3>2, <3>3, <3>5, <3>6, <3>7, GrownTrue DEF Current
  <2> QED
    BY <2>1, <2>2
<1> QED
  BY <1>0, <1>1, <1>3, <1>5, <1>6, <1>7 DEF Core, t

(* A reason replaced by one whose literals stand before.                   *)
Before(s, l, ante) ==
  \A i \in DOMAIN s.trail :
    s.trail[i].lit = l => \A k \in ante \ {l} : \E j \in 1..(i - 1) : s.trail[j].lit = -k

LEMMA SetReasonCore ==
  ASSUME NEW R, NEW s, Good(s), Core(s, R), NEW l \in Lit, NEW ante \in SUBSET Lit,
         ante # NoAnte, ante \in R, l \in ante, Before(s, l, ante)
  PROVE  LET t == SetReason(s, l, ante)
         IN /\ Good(t) /\ Core(t, R) /\ Facts(s) \ {l} \subseteq Facts(t) /\ Grown(s, t)
            /\ t.implied = s.implied /\ DL(t) = DL(s) /\ t.bt = s.bt /\ t.root = s.root
            /\ QueueOk(s) => QueueOk(t)
            /\ ConflictOk(s, R) => ConflictOk(t, R)
<1> DEFINE t == SetReason(s, l, ante)
           entry(i) == IF s.trail[i].lit = l THEN [s.trail[i] EXCEPT !.ante = ante] ELSE s.trail[i]
<1>0. s \in State /\ t \in State /\ Good(t) /\ LevelsSame(s, t)
  BY SetReasonGood, SetReasonType DEF Good
<1>1. /\ DOMAIN s.trail = 1..Len(s.trail) /\ Len(s.trail) \in Nat
      /\ DOMAIN t.trail = 1..Len(t.trail) /\ Len(t.trail) \in Nat
      /\ \A i \in DOMAIN s.trail : s.trail[i] \in Entry /\ s.trail[i].level \in Nat
      /\ DL(s) \in Nat /\ s.bt \in Nat /\ s.root \in Nat /\ s.front \in Nat
  BY <1>0, Typed
<1>2. /\ t.trail = [i \in DOMAIN s.trail |-> entry(i)]
      /\ t.implied = s.implied /\ t.front = s.front /\ t.conflict = s.conflict
  BY <1>0 DEF SetReason, State
<1> HIDE DEF t
<1>3. DL(t) = DL(s) /\ t.bt = s.bt /\ t.root = s.root
  BY <1>0 DEF LevelsSame, DL
<1>4. DOMAIN t.trail = DOMAIN s.trail /\ Len(t.trail) = Len(s.trail)
  BY <1>1, <1>2
<1>5. \A i \in DOMAIN s.trail :
        /\ t.trail[i].lit = s.trail[i].lit /\ t.trail[i].level = s.trail[i].level
        /\ t.trail[i].ante = IF s.trail[i].lit = l THEN ante ELSE s.trail[i].ante
  BY <1>1, <1>2 DEF Entry
<1>6. Grown(s, t)
  BY <1>4, <1>5 DEF Grown
<1>7. TrailShape(t)
  BY <1>3, <1>4, <1>5 DEF Core, TrailOk, TrailShape
<1>8. Reasoned(t, R)
  <2> SUFFICES ASSUME NEW i \in DOMAIN s.trail, t.trail[i].ante # NoAnte
               PROVE  /\ t.trail[i].ante \in R /\ t.trail[i].lit \in t.trail[i].ante
                      /\ \A k \in t.trail[i].ante \ {t.trail[i].lit} :
                           \E j \in 1..(i - 1) : t.trail[j].lit = -k
    BY <1>4 DEF Reasoned
  <2>1. \A j \in 1..(i - 1) : t.trail[j].lit = s.trail[j].lit
    BY SMTT(40), <1>1, <1>5
  <2>2. CASE s.trail[i].lit = l
    BY <1>5, <2>1, <2>2 DEF Before
  <2>3. CASE s.trail[i].lit # l
    BY <1>5, <2>1, <2>3 DEF Core, TrailOk, Reasoned
  <2> QED
    BY <2>2, <2>3
<1>9. DecisionsFirst(t)
  <2> SUFFICES ASSUME NEW i \in DOMAIN s.trail, t.trail[i].level > t.bt, t.trail[i].ante = NoAnte,
                      NEW j \in 1..(i - 1)
               PROVE  t.trail[j].level < t.trail[i].level
    BY <1>4 DEF DecisionsFirst
  <2>1. s.trail[i].ante = NoAnte /\ s.trail[i].level > s.bt
    BY <1>3, <1>5
  <2>2. j \in DOMAIN s.trail
    BY <1>1
  <2> QED
    BY <1>5, <2>1, <2>2 DEF Core, TrailOk, DecisionsFirst
<1>10. ImpliedOk(t, R) /\ LiveHeld(t)
  BY <1>0, <1>1, <1>2, <1>3, <1>6, GrownTrue, ListKept DEF Core
<1>11. Facts(s) \ {l} \subseteq Facts(t)
  BY <1>4, <1>5 DEF Facts
<1>12. QueueOk(s) => QueueOk(t)
  BY <1>2, <1>3, <1>4, <1>5 DEF QueueOk
<1>13. ConflictOk(s, R) => ConflictOk(t, R)
  BY <1>2, <1>3, <1>6, GrownTrue DEF ConflictOk, Current
<1> QED
  BY <1>0, <1>2, <1>3, <1>6, <1>7, <1>8, <1>9, <1>10, <1>11, <1>12, <1>13 DEF Core, TrailOk, t

(***************************************************************************)
(* ImpliedList::assign. At the backtrack level, what the list forces has a *)
(* reason that is false there, and what it keeps is still in order.        *)
(***************************************************************************)
ListFits(s, R) ==
  /\ s.implied.front <= Len(s.implied.lits)
  /\ \A i \in DOMAIN s.implied.lits :
       /\ i <= s.implied.front => s.implied.lits[i].level <= s.root
       /\ s.implied.lits[i].level <= DL(s) => EntryOk(s, R, s.implied.lits[i])

(* What the walk has done to the state and to the list after i positions.  *)
WalkSol(s, R, acc) ==
  /\ acc.sol \in State /\ LevelsSame(s, acc.sol) /\ TrailOk(acc.sol, R) /\ acc.sol.front = s.front
  /\ Len(s.trail) <= Len(acc.sol.trail)
  /\ \A j \in DOMAIN s.trail : j \in DOMAIN acc.sol.trail /\ acc.sol.trail[j] = s.trail[j]
WalkKept(s, i, acc) ==
  /\ acc.kept \in Seq(Entry) /\ Len(acc.kept) <= i
  /\ \A k \in 1..s.implied.front :
       k <= i => k <= Len(acc.kept) /\ acc.kept[k] = s.implied.lits[k]
  /\ \A k \in DOMAIN acc.kept : \E j \in 1..i : acc.kept[k] = s.implied.lits[j] /\ Kept(s, j)

LEMMA WalkSolStep ==
  ASSUME NEW R, NEW s, Good(s), DL(s) = s.bt, ListFits(s, R),
         NEW i \in DOMAIN s.implied.lits, NEW acc, WalkSol(s, R, acc)
  PROVE  WalkSol(s, R, AssignNext(s, i, acc))
<1> DEFINE e == s.implied.lits[i]
           u == ForceLit(acc.sol, e.lit, e.ante)
<1>1. s \in State /\ acc.sol \in State /\ LevelsSame(s, acc.sol)
  BY DEF Good, WalkSol
<1>2. e.lit \in Lit /\ e.ante \in SUBSET Lit /\ e.level \in Nat
  BY <1>1, Typed
<1>3. DL(acc.sol) = DL(s) /\ acc.sol.bt = s.bt
  BY <1>1 DEF LevelsSame, DL
<1>4. CASE Visited(s, i) /\ ~acc.sol.conflict.has
  <2>1. AssignNext(s, i, acc).sol = u
    BY <1>4 DEF AssignNext
  <2>2. EntryOk(s, R, e)
    BY <1>4 DEF Visited, ListFits
  <2>3. \A l, k : TrueBy(s, l, k) => IsTrue(acc.sol, l)
    BY DEF TrueBy, IsTrue, TrueLits, WalkSol
  <2>4. Justified(acc.sol, R, e.lit, e.ante)
    BY <2>2, <2>3 DEF EntryOk, Justified, IsTrue, IsFalse
  <2>5. MayAssign(acc.sol, e.ante)
    <3>1. DL(s) \in Nat
      BY <1>1, Typed
    <3> QED
      BY <1>3, <3>1 DEF MayAssign
  <2>6. /\ TrailOk(u, R) /\ Grown(acc.sol, u) /\ u.front = acc.sol.front
        /\ \A j \in DOMAIN acc.sol.trail : u.trail[j] = acc.sol.trail[j]
        /\ Len(acc.sol.trail) <= Len(u.trail)
    BY SMTT(40), <1>1, <1>2, <2>4, <2>5, ForceTrail DEF WalkSol
  <2>7. u \in State /\ LevelsSame(acc.sol, u)
    BY <1>1, <1>2, ForceType
  <2> HIDE DEF u
  <2>8. Len(s.trail) \in Nat /\ Len(acc.sol.trail) \in Nat /\ Len(u.trail) \in Nat
    BY <1>1, <2>7, Typed
  <2>9. LevelsSame(s, u) /\ u.front = s.front /\ Len(s.trail) <= Len(u.trail)
    BY <1>1, <2>6, <2>7, <2>8 DEF LevelsSame, WalkSol
  <2>10. \A j \in DOMAIN s.trail : j \in DOMAIN u.trail /\ u.trail[j] = s.trail[j]
    BY <2>6 DEF WalkSol, Grown
  <2> QED
    BY <2>1, <2>6, <2>7, <2>9, <2>10 DEF WalkSol
<1>5. CASE ~(Visited(s, i) /\ ~acc.sol.conflict.has)
  <2>1. AssignNext(s, i, acc).sol = acc.sol
    BY <1>5 DEF AssignNext
  <2> QED
    BY <2>1 DEF WalkSol
<1> QED
  BY <1>4, <1>5

LEMMA WalkKeptStep ==
  ASSUME NEW s \in State, NEW i \in Nat, i + 1 \in DOMAIN s.implied.lits, NEW acc, WalkKept(s, i, acc)
  PROVE  WalkKept(s, i + 1, AssignNext(s, i + 1, acc))
<1> DEFINE e == s.implied.lits[i + 1]
           kept == AssignNext(s, i + 1, acc).kept
<1>1. e \in Entry /\ s.implied.front \in Nat
  BY Typed
<1>2. acc.kept \in Seq(Entry) /\ Len(acc.kept) \in Nat /\ DOMAIN acc.kept = 1..Len(acc.kept)
      /\ Len(acc.kept) <= i
  BY DEF WalkKept
<1>3. CASE Kept(s, i + 1)
  <2>1. kept = Append(acc.kept, e)
    BY <1>3 DEF AssignNext
  <2> HIDE DEF kept
  <2>2. /\ kept \in Seq(Entry) /\ Len(kept) = Len(acc.kept) + 1 /\ DOMAIN kept = 1..(Len(acc.kept) + 1)
        /\ kept[Len(acc.kept) + 1] = e
        /\ \A k \in 1..Len(acc.kept) : kept[k] = acc.kept[k]
    BY <1>1, <1>2, <2>1, AppendProperties
  <2>3. ASSUME NEW k \in 1..s.implied.front, k <= i + 1
        PROVE  k <= Len(kept) /\ kept[k] = s.implied.lits[k]
    <3>1. CASE k <= i
      BY <1>1, <1>2, <2>2, <3>1 DEF WalkKept
    <3>2. CASE k = i + 1
      <4>1. i = 0 \/ i <= Len(acc.kept)
        BY <1>1, <1>2, <3>2 DEF WalkKept
      <4>2. i = Len(acc.kept)
        BY <1>2, <4>1
      <4> QED
        BY <2>2, <3>2, <4>2
    <3> QED
      BY <1>1, <2>3, <3>1, <3>2
  <2>4. ASSUME NEW k \in DOMAIN kept
        PROVE  \E j \in 1..(i + 1) : kept[k] = s.implied.lits[j] /\ Kept(s, j)
    <3>1. CASE k \in 1..Len(acc.kept)
      <4>1. PICK j \in 1..i : acc.kept[k] = s.implied.lits[j] /\ Kept(s, j)
        BY <1>2, <3>1 DEF WalkKept
      <4> QED
        BY <2>2, <3>1, <4>1
    <3>2. CASE k = Len(acc.kept) + 1
      BY <1>3, <2>2, <3>2
    <3> QED
      BY <1>2, <2>2, <3>1, <3>2
  <2> QED
    BY <1>2, <2>2, <2>3, <2>4 DEF WalkKept, kept
<1>4. CASE ~Kept(s, i + 1)
  <2>1. kept = acc.kept
    BY <1>4 DEF AssignNext
  <2>2. ~(i + 1 <= s.implied.front)
    BY <1>4 DEF Kept
  <2>3. \A k \in 1..s.implied.front : k <= i + 1 => k <= i
    BY <1>1, <2>2
  <2>4. \A j \in 1..i : j \in 1..(i + 1)
    OBVIOUS
  <2> QED
    BY <1>2, <2>1, <2>3, <2>4 DEF WalkKept
<1> QED
  BY <1>3, <1>4

LEMMA WalkHere ==
  ASSUME NEW R, NEW s, Good(s), TrailOk(s, R), DL(s) = s.bt, ListFits(s, R)
  PROVE  LET done == AssignUpTo(s)[Len(s.implied.lits)]
         IN WalkSol(s, R, done) /\ WalkKept(s, Len(s.implied.lits), done)
<1> DEFINE n == Len(s.implied.lits)
           f == AssignUpTo(s)
<1>0. s \in State
  BY DEF Good
<1>1. n \in Nat /\ DOMAIN s.implied.lits = 1..n /\ s.implied.front \in Nat
  BY <1>0, Typed
<1>2. f[0] = [sol |-> s, kept |-> <<>>]
  BY <1>0, AssignUpToSteps
<1>3. \A i \in 1..n : f[i] = AssignNext(s, i, f[i - 1])
  BY <1>0, AssignUpToSteps
<1> HIDE DEF f, n
<1> DEFINE S == {i \in Nat : i <= n => WalkSol(s, R, f[i]) /\ WalkKept(s, i, f[i])}
<1>4. 0 \in S
  <2>1. WalkSol(s, R, f[0])
    <3>1. Len(s.trail) \in Nat
      BY <1>0, Typed
    <3> QED
      BY <1>0, <1>2, <3>1 DEF WalkSol, LevelsSame
  <2>2. f[0].kept = <<>> /\ <<>> \in Seq(Entry) /\ Len(<<>>) = 0 /\ DOMAIN <<>> = {}
    BY <1>2
  <2>3. WalkKept(s, 0, f[0])
    BY <1>1, <2>2 DEF WalkKept
  <2> QED
    BY <2>1, <2>3
<1>5. \A i \in Nat : i \in S => i + 1 \in S
  <2> SUFFICES ASSUME NEW i \in Nat, i \in S, i + 1 <= n
               PROVE  WalkSol(s, R, f[i + 1]) /\ WalkKept(s, i + 1, f[i + 1])
    OBVIOUS
  <2>1. WalkSol(s, R, f[i]) /\ WalkKept(s, i, f[i])
    BY <1>1
  <2>2. i + 1 \in DOMAIN s.implied.lits /\ i + 1 \in 1..n /\ (i + 1) - 1 = i
    BY <1>1
  <2>3. f[i + 1] = AssignNext(s, i + 1, f[i])
    BY <1>3, <2>2
  <2> QED
    BY <1>0, <2>1, <2>2, <2>3, WalkSolStep, WalkKeptStep
<1>6. Nat \subseteq S
  <2> HIDE DEF S
  <2> QED
    BY <1>4, <1>5, NatSetInduction
<1> QED
  BY <1>1, <1>6 DEF f, n

LEMMA ImpliedHere ==
  ASSUME NEW R, NEW s, Good(s), TrailOk(s, R), DL(s) = s.bt, ListFits(s, R)
  PROVE  LET t == ImpliedAssign(s)
         IN /\ Core(t, R) /\ t.front = s.front /\ Len(s.trail) <= Len(t.trail)
            /\ \A j \in DOMAIN s.trail : j \in DOMAIN t.trail /\ t.trail[j] = s.trail[j]
            /\ t.implied.level <= t.bt
<1> DEFINE done  == AssignUpTo(s)[Len(s.implied.lits)]
           level == IF done.kept = <<>> THEN 0 ELSE DL(s)
           front == IF level > s.root THEN s.implied.front ELSE Len(done.kept)
           t     == ImpliedAssign(s)
           n     == Len(s.implied.lits)
<1>0. /\ s \in State /\ n \in Nat /\ DOMAIN s.implied.lits = 1..n /\ s.implied.front \in Nat
      /\ DL(s) \in Nat /\ s.root \in Nat /\ s.root <= s.bt
      /\ \A i \in DOMAIN s.implied.lits : s.implied.lits[i].level \in Nat
  BY Typed DEF Good, Levels
<1>1. WalkSol(s, R, done) /\ WalkKept(s, n, done)
  BY WalkHere
<1>2. t = [done.sol EXCEPT !.implied = [lits |-> done.kept, level |-> level, front |-> front]]
  BY DEF ImpliedAssign
<1> HIDE DEF done, t, n
<1>3. /\ done.sol \in State /\ LevelsSame(s, done.sol) /\ TrailOk(done.sol, R) /\ done.sol.front = s.front
      /\ Len(s.trail) <= Len(done.sol.trail)
      /\ \A j \in DOMAIN s.trail : j \in DOMAIN done.sol.trail /\ done.sol.trail[j] = s.trail[j]
  BY <1>1 DEF WalkSol
<1>4. /\ t.trail = done.sol.trail /\ t.front = s.front /\ t.bt = s.bt /\ t.root = s.root /\ DL(t) = DL(s)
      /\ t.implied.lits = done.kept /\ t.implied.level = level /\ t.implied.front = front
      /\ t.decisions = done.sol.decisions /\ done.sol.bt = s.bt
  BY <1>2, <1>3 DEF State, LevelsSame, DL
<1>5. TrailOk(t, R)
  BY <1>3, <1>4 DEF TrailOk, TrailShape, Reasoned, DecisionsFirst, DL
<1>6. /\ done.kept \in Seq(Entry) /\ Len(done.kept) \in Nat /\ DOMAIN done.kept = 1..Len(done.kept)
      /\ Len(done.kept) <= n
      /\ \A k \in 1..s.implied.front :
           k <= n => k <= Len(done.kept) /\ done.kept[k] = s.implied.lits[k]
      /\ \A k \in DOMAIN done.kept : \E j \in 1..n : done.kept[k] = s.implied.lits[j] /\ Kept(s, j)
  BY <1>1 DEF WalkKept
<1>7. s.implied.front <= n
  BY DEF ListFits, n
<1>8. front <= Len(done.kept)
  <2>1. s.implied.front = 0 \/ s.implied.front <= Len(done.kept)
    BY <1>0, <1>6, <1>7
  <2> QED
    BY <1>6, <2>1
<1>9. \A l, k : TrueBy(s, l, k) => TrueBy(t, l, k)
  BY <1>3, <1>4 DEF TrueBy
<1>10. ASSUME NEW k \in DOMAIN done.kept
       PROVE  /\ done.kept[k].level <= level /\ done.kept[k].level <= t.bt
              /\ k <= front => done.kept[k].level <= t.root
              /\ EntryOk(t, R, done.kept[k])
  <2>1. PICK j \in 1..n : done.kept[k] = s.implied.lits[j] /\ Kept(s, j)
    BY <1>6
  <2>2. done.kept # <<>>
    BY <1>6
  <2>3. done.kept[k].level <= DL(s)
    BY <1>0, <2>1 DEF Kept, Visited, ListFits
  <2>4. EntryOk(s, R, done.kept[k])
    BY <1>0, <2>1, <2>3 DEF ListFits
  <2>5. EntryOk(t, R, done.kept[k])
    BY <1>9, <2>4 DEF EntryOk
  <2>6. k <= front => done.kept[k].level <= s.root
    <3>1. CASE level > s.root
      BY <1>0, <1>6, <1>7, <3>1 DEF ListFits
    <3>2. CASE ~(level > s.root)
      <4>1. level = DL(s)
        BY <2>2
      <4>2. done.kept[k].level \in Nat
        BY <1>0, <2>1
      <4> QED
        BY <1>0, <2>3, <3>2, <4>1, <4>2
    <3> QED
      BY <3>1, <3>2
  <2> QED
    BY <1>4, <2>2, <2>3, <2>5, <2>6
<1>11. ImpliedOk(t, R)
  BY <1>4, <1>8, <1>10 DEF ImpliedOk
<1>12. t.implied.level <= t.bt
  BY <1>0, <1>4
<1>13. LiveHeld(t)
  BY <1>12 DEF LiveHeld
<1> QED
  BY <1>3, <1>4, <1>5, <1>11, <1>12, <1>13 DEF Core, t

(* Above the backtrack level the list only finds what is already true.     *)
LEMMA ImpliedAbove ==
  ASSUME NEW R, NEW s, Good(s), ImpliedOk(s, R), DL(s) > s.bt, s.implied.lits # <<>>,
         \A i \in DOMAIN s.implied.lits :
           i > s.implied.front => IsTrue(s, s.implied.lits[i].lit)
  PROVE  LET t == ImpliedAssign(s)
         IN /\ t.trail = s.trail /\ t.front = s.front /\ t.conflict = s.conflict
            /\ t.implied = [lits |-> s.implied.lits, level |-> DL(s), front |-> s.implied.front]
<1> DEFINE n == Len(s.implied.lits)
           f == AssignUpTo(s)
           t == ImpliedAssign(s)
<1>0. s \in State /\ s.root \in Nat /\ s.bt \in Nat /\ DL(s) \in Nat /\ s.root <= s.bt
  BY Typed DEF Good, Levels
<1>1. /\ n \in Nat /\ DOMAIN s.implied.lits = 1..n /\ s.implied.front \in Nat
      /\ s.implied.lits \in Seq(Entry)
      /\ \A i \in 1..n : s.implied.lits[i] \in Entry /\ s.implied.lits[i].level \in Nat
  BY <1>0, Typed DEF State
<1>2. f[0] = [sol |-> s, kept |-> <<>>]
  BY <1>0, AssignUpToSteps
<1>3. \A i \in 1..n : f[i] = AssignNext(s, i, f[i - 1])
  BY <1>0, AssignUpToSteps
<1>4. \A i \in 1..n : s.implied.lits[i].level < DL(s)
  BY <1>0, <1>1 DEF ImpliedOk
<1>5. \A i \in 1..n : Kept(s, i)
  BY <1>0, <1>1, <1>4 DEF Kept, Visited
<1>6. \A i \in 1..n : i > s.implied.front => IsTrue(s, s.implied.lits[i].lit)
  BY <1>1
<1>7. \A i \in 1..n : \A acc : acc.sol = s =>
        /\ AssignNext(s, i, acc).sol = s
        /\ AssignNext(s, i, acc).kept = Append(acc.kept, s.implied.lits[i])
  BY <1>5, <1>6 DEF AssignNext, ForceLit, Visited
<1>8. t = [f[n].sol EXCEPT !.implied =
             [lits  |-> f[n].kept, level |-> IF f[n].kept = <<>> THEN 0 ELSE DL(s),
              front |-> IF (IF f[n].kept = <<>> THEN 0 ELSE DL(s)) > s.root
                        THEN s.implied.front ELSE Len(f[n].kept)]]
  BY DEF ImpliedAssign
<1> HIDE DEF f, n, t
<1> DEFINE Is(kept, i) == /\ kept \in Seq(Entry) /\ Len(kept) = i
                          /\ \A k \in 1..i : kept[k] = s.implied.lits[k]
           S == {i \in Nat : i <= n => f[i].sol = s /\ Is(f[i].kept, i)}
<1>9. 0 \in S
  <2>1. f[0].kept = <<>> /\ f[0].sol = s
    BY <1>2
  <2>2. <<>> \in Seq(Entry) /\ Len(<<>>) = 0
    BY EmptySeq
  <2>3. Is(<<>>, 0)
    BY <2>2
  <2> QED
    BY <2>1, <2>3
<1>10. \A i \in Nat : i \in S => i + 1 \in S
  <2> SUFFICES ASSUME NEW i \in Nat, i \in S, i + 1 <= n
               PROVE  f[i + 1].sol = s /\ Is(f[i + 1].kept, i + 1)
    OBVIOUS
  <2>1. f[i].sol = s /\ Is(f[i].kept, i)
    BY <1>1
  <2>2. i + 1 \in 1..n /\ (i + 1) - 1 = i
    BY <1>1
  <2>3. f[i + 1].sol = s /\ f[i + 1].kept = Append(f[i].kept, s.implied.lits[i + 1])
    BY SMTT(40), <1>3, <1>7, <2>1, <2>2
  <2>4. Is(f[i + 1].kept, i + 1)
    <3>1. s.implied.lits[i + 1] \in Entry
      BY <1>1, <2>2
    <3> QED
      BY <2>1, <2>3, <3>1, AppendProperties
  <2> QED
    BY <2>3, <2>4
<1>11. Nat \subseteq S
  <2> HIDE DEF S
  <2> QED
    BY <1>9, <1>10, NatSetInduction
<1>12. f[n].sol = s /\ Is(f[n].kept, n)
  BY <1>1, <1>11
<1>13. f[n].kept = s.implied.lits
  <2>1. s.implied.lits \in Seq(Entry) /\ Len(s.implied.lits) = n
    BY <1>1 DEF n
  <2>2. \A k \in 1..n : f[n].kept[k] = s.implied.lits[k]
    BY <1>12
  <2>3. f[n].kept \in Seq(Entry) /\ Len(f[n].kept) = n
    BY <1>12
  <2> QED
    BY <2>1, <2>2, <2>3, SeqEqual
<1>14. DL(s) > s.root
  BY <1>0
<1> QED
  BY <1>0, <1>8, <1>12, <1>13, <1>14 DEF State, t

(***************************************************************************)
(* undo_until.                                                             *)
(***************************************************************************)
Reset(s, level) ==
  LET target == MaxOf(level, s.bt)
      popped == IF DL(s) <= target THEN s
                ELSE [s EXCEPT !.trail = SubSeq(@, 1, UpTo(s, target)),
                               !.decisions = SubSeq(@, 1, target)]
  IN [popped EXCEPT !.front = Len(popped.trail), !.conflict = NoConflict]

LEMMA ResetFacts ==
  ASSUME NEW s, Good(s), TrailShape(s), NEW level \in Nat
  PROVE  LET r == Reset(s, level)
             target == MaxOf(level, s.bt)
         IN /\ Good(r) /\ r.root = s.root /\ r.bt = s.bt /\ r.implied = s.implied /\ r.stop = s.stop
            /\ r.front = Len(r.trail) /\ r.conflict = NoConflict
            /\ DL(r) = MinOf(DL(s), target)
            /\ Cut(s, r, target) /\ \A i \in DOMAIN r.trail : r.trail[i].level <= DL(r)
            /\ UndoUntil(s, level) = IF ImpliedActive(r) THEN ImpliedAssign(r) ELSE r
<1> DEFINE r == Reset(s, level)
           target == MaxOf(level, s.bt)
           cut == [s EXCEPT !.trail = SubSeq(@, 1, UpTo(s, target)),
                            !.decisions = SubSeq(@, 1, target)]
           popped == IF DL(s) <= target THEN s ELSE cut
<1>0. /\ s \in State /\ DL(s) \in Nat /\ s.bt \in Nat /\ target \in Nat /\ target >= s.bt
      /\ s.bt <= DL(s) /\ s.trail \in Seq(Entry)
      /\ DOMAIN s.trail = 1..Len(s.trail)
      /\ \A i \in DOMAIN s.trail : s.trail[i].level \in Nat
  BY Typed DEF Good, Levels, MaxOf, State
<1>1. r = [popped EXCEPT !.front = Len(popped.trail), !.conflict = NoConflict]
  BY DEF Reset
<1>2. UndoUntil(s, level) = IF ImpliedActive(r) THEN ImpliedAssign(r) ELSE r
  BY DEF UndoUntil, Reset
<1>3. NoConflict \in [has : BOOLEAN, lits : SUBSET Lit]
  BY DEF NoConflict
<1> HIDE DEF target, r
<1>4. /\ popped \in State /\ popped.root = s.root /\ popped.bt = s.bt /\ popped.implied = s.implied
      /\ popped.stop = s.stop /\ DL(popped) = MinOf(DL(s), target)
      /\ Cut(s, popped, target) /\ \A i \in DOMAIN popped.trail : popped.trail[i].level <= DL(popped)
  <2>1. CASE DL(s) <= target
    <3>1. Cut(s, s, target)
      BY DEF Cut
    <3> QED
      BY <1>0, <2>1, <3>1 DEF MinOf, TrailShape
  <2>2. CASE ~(DL(s) <= target)
    <3>1. SubSeq(s.trail, 1, UpTo(s, target)) \in Seq(Entry)
      <4>1. UpTo(s, target) \in 0..Len(s.trail)
        BY <1>0, UpToType
      <4>2. \A i \in 1..UpTo(s, target) : s.trail[i] \in Entry
        BY <1>0, <4>1
      <4> QED
        BY <1>0, <4>1, <4>2, SubSeqProperties
    <3>2. /\ SubSeq(s.decisions, 1, target) \in Seq(Lit)
          /\ Len(SubSeq(s.decisions, 1, target)) = target
      <4>1. s.decisions \in Seq(Lit) /\ Len(s.decisions) = DL(s)
        BY <1>0 DEF State, DL
      <4>2. \A i \in 1..target : s.decisions[i] \in Lit
        BY <4>1, <1>0, <2>2
      <4> QED
        BY <1>0, <2>2, <4>1, <4>2, SubSeqProperties
    <3>3. /\ cut \in State /\ cut.root = s.root /\ cut.bt = s.bt /\ cut.implied = s.implied
          /\ cut.stop = s.stop /\ cut.decisions = SubSeq(s.decisions, 1, target)
          /\ cut.trail = SubSeq(s.trail, 1, UpTo(s, target))
      BY <1>0, <3>1, <3>2 DEF State
    <3> HIDE DEF cut
    <3>4. DL(cut) = target
      BY <3>2, <3>3 DEF DL
    <3>5. Cut(s, cut, target) /\ \A i \in DOMAIN cut.trail : cut.trail[i].level <= target
      BY <1>0, <3>3, UpToCut
    <3> QED
      BY <1>0, <2>2, <3>3, <3>4, <3>5 DEF MinOf
  <2> QED
    BY <2>1, <2>2
<1> HIDE DEF popped
<1>5. Len(popped.trail) \in Nat
  BY <1>4, Typed
<1>6. /\ r \in State /\ r.root = s.root /\ r.bt = s.bt /\ r.implied = s.implied /\ r.stop = s.stop
      /\ r.trail = popped.trail /\ r.decisions = popped.decisions
      /\ r.front = Len(popped.trail) /\ r.conflict = NoConflict
  BY <1>1, <1>3, <1>4, <1>5 DEF State
<1>7. DL(r) = DL(popped)
  BY <1>6 DEF DL
<1>8. Cut(s, r, target)
  BY <1>4, <1>6 DEF Cut
<1>9. Good(r)
  <2>1. r.bt <= DL(r)
    BY <1>0, <1>4, <1>6, <1>7 DEF MinOf
  <2> QED
    BY <1>6, <2>1 DEF Good, Levels
<1> QED
  BY <1>2, <1>4, <1>6, <1>7, <1>8, <1>9 DEF target, r

(* t has nothing that s has not. *)
NoneNew(s, t) == \A i \in DOMAIN t.trail : i \in DOMAIN s.trail /\ t.trail[i] = s.trail[i]

(* Going back to the backtrack level, which may just have been lowered:    *)
(* entries of the list above it are dropped.                               *)
ListBelow(s, R) ==
  /\ s.implied.front <= Len(s.implied.lits)
  /\ s.implied.lits = <<>> => s.implied.level = 0
  /\ \A i \in DOMAIN s.implied.lits :
       /\ s.implied.lits[i].level <= s.implied.level
       /\ i <= s.implied.front => s.implied.lits[i].level <= s.root
       /\ s.implied.lits[i].level <= s.bt => EntryOk(s, R, s.implied.lits[i])
  /\ s.implied.level <= s.bt \/ "backtrack_step" \in Api \/ s.implied.front = 0

LEMMA UndoHere ==
  ASSUME NEW R, NEW s, Good(s), TrailShape(s), Reasoned(s, R), ListBelow(s, R), NEW level \in Nat,
         MinOf(DL(s), MaxOf(level, s.bt)) = s.bt
  PROVE  LET t == UndoUntil(s, level)
         IN /\ Good(t) /\ Core(t, R) /\ QueueOk(t) /\ ConflictOk(t, R)
            /\ DL(t) = s.bt /\ t.bt = s.bt /\ t.root = s.root
            /\ Facts(s) \subseteq Facts(t) /\ Stays(s, t, MaxOf(level, s.bt))
            /\ t.implied.level <= t.bt \/ (NoneNew(s, t) /\ t.implied = s.implied)
<1> DEFINE r == Reset(s, level)
           t == UndoUntil(s, level)
           target == MaxOf(level, s.bt)
           u == ImpliedAssign(r)
<1>0. s \in State /\ s.bt \in Nat /\ s.root \in Nat /\ target \in Nat /\ s.bt <= target
      /\ s.implied.front \in Nat /\ s.implied.level \in Nat /\ s.root <= s.bt
      /\ \A i \in DOMAIN s.implied.lits : s.implied.lits[i].level \in Nat
  BY Typed DEF Good, Levels, MaxOf
<1>1. /\ Good(r) /\ r.root = s.root /\ r.bt = s.bt /\ r.implied = s.implied
      /\ r.front = Len(r.trail) /\ r.conflict = NoConflict /\ DL(r) = s.bt
      /\ Cut(s, r, target) /\ \A i \in DOMAIN r.trail : r.trail[i].level <= DL(r)
      /\ t = IF ImpliedActive(r) THEN u ELSE r
  BY ResetFacts
<1>2. Good(t) /\ t.bt = s.bt /\ t.root = s.root
  BY UndoUntilGood
<1> HIDE DEF r, t, target, u
<1>3. r \in State /\ Len(r.trail) \in Nat /\ r.front \in Nat
  BY <1>1, Typed DEF Good
<1>4. TrailOk(r, R) /\ Stays(s, r, target) /\ Facts(s) \subseteq Facts(r)
  BY <1>0, <1>1, <1>3, CutTrail DEF TrailOk
<1>5. \A l : \A k \in Nat : k <= s.bt /\ TrueBy(s, l, k) => TrueBy(r, l, k)
  <2>1. \A l : \A k \in Nat : k <= target /\ TrueBy(s, l, k) => TrueBy(r, l, k)
    BY <1>0, <1>4, StaysTrue
  <2> QED
    BY <1>0, <2>1
<1>6. \A i \in DOMAIN s.implied.lits :
        s.implied.lits[i].level <= s.bt => EntryOk(r, R, s.implied.lits[i])
  BY <1>0, <1>5 DEF ListBelow, EntryOk
<1>7. CASE ImpliedActive(r)
  <2>1. t = u
    BY <1>1, <1>7
  <2>2. ListFits(r, R)
    BY <1>0, <1>1, <1>6 DEF ListBelow, ListFits
  <2>3. /\ Core(u, R) /\ u.front = r.front /\ Len(r.trail) <= Len(u.trail)
        /\ \A j \in DOMAIN r.trail : j \in DOMAIN u.trail /\ u.trail[j] = r.trail[j]
        /\ u.implied.level <= u.bt
    BY <1>1, <1>4, <2>2, ImpliedHere DEF u
  <2>4. DL(u) = s.bt
    BY <1>1, <1>3, ImpliedAssignType DEF LevelsSame, DL, u
  <2>5. QueueOk(u) /\ ConflictOk(u, R)
    BY <1>0, <1>1, <1>2, <2>1, <2>3, <2>4 DEF QueueOk, ConflictOk
  <2>6. Facts(s) \subseteq Facts(u)
    BY <1>4, <2>3, SameFacts
  <2>7. Stays(s, u, target)
    BY <1>4, <2>3 DEF Stays
  <2> QED
    BY <1>2, <2>1, <2>3, <2>4, <2>5, <2>6, <2>7 DEF t, target
<1>8. CASE ~ImpliedActive(r)
  <2>1. t = r
    BY <1>1, <1>8
  <2>2. s.bt >= s.implied.level \/ s.implied.front = Len(s.implied.lits)
    BY <1>0, <1>1, <1>8 DEF ImpliedActive
  <2>3. DOMAIN s.implied.lits = 1..Len(s.implied.lits) /\ s.implied.lits \in Seq(Entry)
    BY <1>0, Typed DEF State
  <2>4. \A i \in DOMAIN s.implied.lits : s.implied.lits[i].level <= s.bt
    BY SMTT(40), <1>0, <2>2, <2>3 DEF ListBelow
  <2>5. ImpliedOk(r, R)
    BY <1>0, <1>1, <1>6, <2>4 DEF ListBelow, ImpliedOk
  <2>6. LiveHeld(r)
    <3>1. CASE s.implied.level <= s.bt
      BY <1>1, <3>1 DEF LiveHeld
    <3>2. CASE ~(s.implied.level <= s.bt)
      <4>1. s.implied.front = Len(s.implied.lits)
        BY <1>0, <2>2, <3>2
      <4>2. "backtrack_step" \in Api
        <5>1. s.implied.lits # <<>>
          BY <1>0, <3>2 DEF ListBelow
        <5>2. s.implied.front # 0
          BY <2>3, <4>1, <5>1, EmptySeq
        <5> QED
          BY <3>2, <5>2 DEF ListBelow
      <4>3. \A i \in DOMAIN s.implied.lits : ~(i > s.implied.front)
        BY <1>0, <2>3, <4>1
      <4> QED
        BY <1>1, <4>2, <4>3 DEF LiveHeld
    <3> QED
      BY <3>1, <3>2
  <2>7. QueueOk(r) /\ ConflictOk(r, R)
    BY <1>0, <1>1, <1>3 DEF QueueOk, ConflictOk, NoConflict
  <2>8. NoneNew(s, r)
    BY <1>1 DEF Cut, NoneNew
  <2> QED
    BY <1>1, <1>2, <1>4, <2>1, <2>5, <2>6, <2>7, <2>8 DEF Core, t, target
<1> QED
  BY <1>7, <1>8

(* Going back to a level above the backtrack level.                        *)
LEMMA UndoAbove ==
  ASSUME NEW R, NEW s, Good(s), Core(s, R), NEW level \in Nat,
         MinOf(DL(s), MaxOf(level, s.bt)) > s.bt
  PROVE  LET t == UndoUntil(s, level)
         IN /\ Good(t) /\ Core(t, R) /\ QueueOk(t) /\ ConflictOk(t, R)
            /\ DL(t) = MinOf(DL(s), MaxOf(level, s.bt)) /\ t.bt = s.bt /\ t.root = s.root
            /\ Facts(s) \subseteq Facts(t) /\ Stays(s, t, MaxOf(level, s.bt))
            /\ NoneNew(s, t) /\ (s.implied.level <= s.bt => t.implied = s.implied)
<1> DEFINE r == Reset(s, level)
           t == UndoUntil(s, level)
           target == MaxOf(level, s.bt)
           u == ImpliedAssign(r)
<1>0. s \in State /\ s.bt \in Nat /\ s.root \in Nat /\ target \in Nat /\ s.bt <= target
      /\ s.implied.front \in Nat /\ s.implied.level \in Nat /\ s.root <= s.bt /\ DL(s) \in Nat
      /\ \A i \in DOMAIN s.implied.lits : s.implied.lits[i].level \in Nat
  BY Typed DEF Good, Levels, MaxOf
<1>1. /\ Good(r) /\ r.root = s.root /\ r.bt = s.bt /\ r.implied = s.implied
      /\ r.front = Len(r.trail) /\ r.conflict = NoConflict /\ DL(r) = MinOf(DL(s), target)
      /\ Cut(s, r, target) /\ \A i \in DOMAIN r.trail : r.trail[i].level <= DL(r)
      /\ t = IF ImpliedActive(r) THEN u ELSE r
  BY ResetFacts DEF Core, TrailOk
<1>2. Good(t) /\ t.bt = s.bt /\ t.root = s.root
  BY UndoUntilGood
<1>3. DL(r) > s.bt
  BY <1>1
<1> HIDE DEF r, t, target, u
<1>4. r \in State /\ Len(r.trail) \in Nat /\ r.front \in Nat /\ DL(r) \in Nat
      /\ DOMAIN r.trail = 1..Len(r.trail)
  BY <1>1, Typed DEF Good
<1>5. TrailOk(r, R) /\ Stays(s, r, target) /\ Facts(s) \subseteq Facts(r)
  BY <1>0, <1>1, <1>4, CutTrail DEF TrailOk, Core
<1>6. Stays(s, r, s.bt)
  <2>1. \A i \in DOMAIN s.trail : s.trail[i].level \in Nat
    BY <1>0, Typed
  <2> QED
    BY <1>0, <1>5, <2>1 DEF Stays
<1>7. ImpliedOk(r, R) /\ LiveHeld(r)
  BY <1>0, <1>1, <1>4, <1>6, ListKept DEF Core
<1>8. Core(r, R) /\ QueueOk(r) /\ ConflictOk(r, R) /\ NoneNew(s, r)
  <2>1. \A i \in DOMAIN r.trail : ~(i > Len(r.trail))
    BY <1>4
  <2> QED
    BY <1>1, <1>4, <1>5, <1>7, <2>1 DEF Core, QueueOk, ConflictOk, NoConflict, NoneNew, Cut
<1>9. CASE ImpliedActive(r)
  <2>1. t = u
    BY <1>1, <1>9
  <2>2. DL(r) < s.implied.level /\ ~(s.implied.level <= s.bt)
    BY <1>0, <1>1, <1>3, <1>4, <1>9 DEF ImpliedActive
  <2>3. /\ "backtrack_step" \in Api
        /\ \A i \in DOMAIN s.implied.lits :
             i > s.implied.front => TrueBy(r, s.implied.lits[i].lit, r.bt)
    BY <1>1, <1>7, <2>2 DEF LiveHeld
  <2>4. \A i \in DOMAIN s.implied.lits :
          i > s.implied.front => IsTrue(r, s.implied.lits[i].lit)
    BY <2>3 DEF TrueBy, IsTrue, TrueLits
  <2>5. s.implied.lits # <<>>
    <3>1. s.implied.level = 0 => FALSE
      BY <1>0, <1>4, <2>2
    <3> QED
      BY <3>1 DEF Core, ImpliedOk
  <2>6. /\ u.trail = r.trail /\ u.front = r.front /\ u.conflict = r.conflict
        /\ u.implied = [lits |-> s.implied.lits, level |-> DL(r), front |-> s.implied.front]
    BY <1>1, <1>3, <1>7, <2>4, <2>5, ImpliedAbove DEF u
  <2>7. u \in State /\ LevelsSame(r, u)
    BY <1>4, ImpliedAssignType DEF u
  <2>8. DL(u) = DL(r) /\ u.bt = s.bt /\ u.root = s.root
    BY <1>1, <2>7 DEF LevelsSame, DL
  <2>9. TrailOk(u, R)
    BY <1>1, <1>5, <2>6, <2>8 DEF TrailOk, TrailShape, Reasoned, DecisionsFirst
  <2>10. \A l, k : TrueBy(r, l, k) <=> TrueBy(u, l, k)
    BY <2>6 DEF TrueBy
  <2>11. ImpliedOk(u, R)
    <3>1. ASSUME NEW i \in DOMAIN s.implied.lits
          PROVE  /\ s.implied.lits[i].level <= DL(r) /\ s.implied.lits[i].level <= s.bt
                 /\ i <= s.implied.front => s.implied.lits[i].level <= s.root
                 /\ EntryOk(u, R, s.implied.lits[i])
      <4>1. /\ s.implied.lits[i].level <= s.bt
            /\ i <= s.implied.front => s.implied.lits[i].level <= s.root
            /\ EntryOk(r, R, s.implied.lits[i])
        BY <1>1, <1>7 DEF ImpliedOk
      <4>2. EntryOk(u, R, s.implied.lits[i])
        BY <2>10, <4>1 DEF EntryOk
      <4> QED
        BY <1>0, <1>3, <1>4, <4>1, <4>2
    <3>2. s.implied.front <= Len(s.implied.lits)
      BY DEF Core, ImpliedOk
    <3> QED
      BY <2>5, <2>6, <2>8, <3>1, <3>2 DEF ImpliedOk
  <2>12. LiveHeld(u)
    BY <1>1, <2>3, <2>6, <2>8, <2>10 DEF LiveHeld
  <2>13. QueueOk(u) /\ ConflictOk(u, R) /\ NoneNew(s, u) /\ Stays(s, u, target) /\ Facts(s) \subseteq Facts(u)
    <3>1. QueueOk(u) /\ ConflictOk(u, R)
      BY <1>1, <1>8, <2>6, <2>8 DEF QueueOk, ConflictOk, NoConflict
    <3>2. NoneNew(s, u)
      BY <1>8, <2>6 DEF NoneNew
    <3>3. Stays(s, u, target)
      BY <1>5, <2>6 DEF Stays
    <3>4. Facts(s) \subseteq Facts(u)
      BY <1>5, <2>6 DEF Facts
    <3> QED
      BY <3>1, <3>2, <3>3, <3>4
  <2> QED
    BY <1>1, <1>2, <2>1, <2>2, <2>8, <2>9, <2>11, <2>12, <2>13 DEF Core, t, target
<1>10. CASE ~ImpliedActive(r)
  BY <1>1, <1>2, <1>5, <1>8, <1>10 DEF t, target
<1> QED
  BY <1>9, <1>10

LEMMA UndoKeep ==
  ASSUME NEW R, NEW s, Good(s), Core(s, R), NEW level \in Nat
  PROVE  LET t == UndoUntil(s, level)
             target == MaxOf(level, s.bt)
         IN /\ Good(t) /\ Core(t, R) /\ QueueOk(t) /\ ConflictOk(t, R)
            /\ DL(t) = MinOf(DL(s), target) /\ t.bt = s.bt /\ t.root = s.root
            /\ Facts(s) \subseteq Facts(t) /\ Stays(s, t, target)
            /\ NoneNew(s, t) \/ (DL(t) = t.bt /\ t.implied.level <= t.bt)
            /\ s.implied.level <= s.bt => t.implied.level <= t.bt
<1> DEFINE t == UndoUntil(s, level)
           target == MaxOf(level, s.bt)
<1>0. s \in State /\ s.bt \in Nat /\ DL(s) \in Nat /\ s.bt <= DL(s) /\ s.bt <= target /\ target \in Nat
  BY Typed DEF Good, Levels, MaxOf
<1>1. CASE MinOf(DL(s), target) = s.bt
  <2>1. \/ s.implied.level <= s.bt
        \/ "backtrack_step" \in Api
    BY DEF Core, LiveHeld
  <2>2. ListBelow(s, R)
    BY <2>1 DEF Core, ImpliedOk, ListBelow
  <2>3. /\ Good(t) /\ Core(t, R) /\ QueueOk(t) /\ ConflictOk(t, R)
        /\ DL(t) = s.bt /\ t.bt = s.bt /\ t.root = s.root
        /\ Facts(s) \subseteq Facts(t) /\ Stays(s, t, target)
        /\ t.implied.level <= t.bt \/ (NoneNew(s, t) /\ t.implied = s.implied)
    BY <1>1, <2>2, UndoHere DEF Core, TrailOk
  <2> HIDE DEF t
  <2> QED
    BY <1>1, <2>3 DEF t
<1>2. CASE MinOf(DL(s), target) # s.bt
  <2>1. MinOf(DL(s), target) > s.bt
    BY <1>0, <1>2 DEF MinOf
  <2>2. /\ Good(t) /\ Core(t, R) /\ QueueOk(t) /\ ConflictOk(t, R)
        /\ DL(t) = MinOf(DL(s), target) /\ t.bt = s.bt /\ t.root = s.root
        /\ Facts(s) \subseteq Facts(t) /\ Stays(s, t, target)
        /\ NoneNew(s, t) /\ (s.implied.level <= s.bt => t.implied = s.implied)
    BY <2>1, UndoAbove
  <2> HIDE DEF t
  <2> QED
    BY <2>2 DEF t
<1> QED
  BY <1>1, <1>2

(***************************************************************************)
(* force_implied.                                                          *)
(***************************************************************************)
LEMMA AddImpliedCore ==
  ASSUME NEW R, NEW s, Good(s), Core(s, R), NEW e \in Entry, EntryOk(s, R, e),
         e.level <= s.bt, DL(s) = s.bt,
         s.implied.level <= s.bt \/ TrueBy(s, e.lit, s.bt)
  PROVE  LET t == AddImplied(s, e)
         IN /\ Good(t) /\ Core(t, R) /\ t.trail = s.trail /\ t.front = s.front /\ t.conflict = s.conflict
            /\ DL(t) = DL(s) /\ t.bt = s.bt /\ t.root = s.root
            /\ s.implied.level <= s.bt => t.implied.level <= t.bt
<1> DEFINE t == AddImplied(s, e)
           n == Len(s.implied.lits)
<1>0. /\ s \in State /\ t \in State /\ LevelsSame(s, t) /\ Good(t)
      /\ s.bt \in Nat /\ s.implied.level \in Nat /\ s.implied.front \in Nat
      /\ n \in Nat /\ DOMAIN s.implied.lits = 1..n /\ s.implied.lits \in Seq(Entry)
      /\ e.level \in Nat /\ s.root \in Nat /\ s.root <= s.bt
      /\ \A i \in DOMAIN s.implied.lits : s.implied.lits[i].level \in Nat
  BY Typed, AddImpliedType, AddImpliedGood DEF Good, State, Entry, Levels
<1>1. /\ t.trail = s.trail /\ t.front = s.front /\ t.conflict = s.conflict
      /\ t.implied.lits = Append(s.implied.lits, e)
      /\ t.implied.level = MaxOf(s.implied.level, DL(s)) /\ t.implied.front = s.implied.front
  BY <1>0 DEF AddImplied, State
<1> HIDE DEF t
<1>2. DL(t) = DL(s) /\ t.bt = s.bt /\ t.root = s.root
  BY <1>0 DEF LevelsSame, DL
<1>3. /\ DOMAIN t.implied.lits = 1..(n + 1) /\ Len(t.implied.lits) = n + 1
      /\ t.implied.lits[n + 1] = e
      /\ \A i \in 1..n : t.implied.lits[i] = s.implied.lits[i]
  BY <1>0, <1>1, AppendProperties
<1>4. t.implied.level >= s.implied.level /\ t.implied.level >= s.bt /\ t.implied.level \in Nat
      /\ (s.implied.level <= s.bt => t.implied.level <= t.bt)
  BY <1>0, <1>1, <1>2 DEF MaxOf
<1>5. TrailOk(t, R)
  BY <1>1, <1>2 DEF Core, TrailOk, TrailShape, Reasoned, DecisionsFirst
<1>6. \A l, k : TrueBy(s, l, k) <=> TrueBy(t, l, k)
  BY <1>1 DEF TrueBy
<1>7. s.implied.front <= n
  BY DEF Core, ImpliedOk
<1>8. ASSUME NEW i \in 1..(n + 1)
      PROVE  /\ t.implied.lits[i].level <= t.implied.level /\ t.implied.lits[i].level <= t.bt
             /\ i <= t.implied.front => t.implied.lits[i].level <= t.root
             /\ EntryOk(t, R, t.implied.lits[i])
  <2>1. CASE i \in 1..n
    <3>1. /\ s.implied.lits[i].level <= s.implied.level /\ s.implied.lits[i].level <= s.bt
          /\ i <= s.implied.front => s.implied.lits[i].level <= s.root
          /\ EntryOk(s, R, s.implied.lits[i])
      BY <1>0, <2>1 DEF Core, ImpliedOk
    <3>2. EntryOk(t, R, s.implied.lits[i])
      BY <1>6, <3>1 DEF EntryOk
    <3>3. s.implied.lits[i].level \in Nat
      BY <1>0, <2>1
    <3> QED
      BY SMTT(40), <1>0, <1>1, <1>2, <1>3, <1>4, <2>1, <3>1, <3>2, <3>3
  <2>2. CASE i = n + 1
    <3>1. EntryOk(t, R, e)
      BY <1>6 DEF EntryOk
    <3>2. ~(i <= t.implied.front)
      BY <1>0, <1>1, <1>7, <2>2
    <3> QED
      BY SMTT(40), <1>0, <1>2, <1>3, <1>4, <2>2, <3>1, <3>2
  <2> QED
    BY <1>0, <2>1, <2>2
<1>9. ImpliedOk(t, R)
  <2>1. t.implied.front <= Len(t.implied.lits)
    BY <1>0, <1>1, <1>3, <1>7
  <2>2. t.implied.lits # <<>>
    <3>1. n + 1 \in DOMAIN t.implied.lits
      BY <1>0, <1>3
    <3> QED
      BY <3>1
  <2> QED
    BY <1>3, <1>8, <2>1, <2>2 DEF ImpliedOk
<1>10. LiveHeld(t)
  <2>1. CASE s.implied.level <= s.bt
    BY <1>2, <1>4, <2>1 DEF LiveHeld
  <2>2. CASE ~(s.implied.level <= s.bt)
    <3>1. /\ "backtrack_step" \in Api
          /\ \A i \in DOMAIN s.implied.lits :
               i > s.implied.front => TrueBy(s, s.implied.lits[i].lit, s.bt)
      BY <2>2 DEF Core, LiveHeld
    <3>2. TrueBy(s, e.lit, s.bt)
      BY <2>2
    <3>3. ASSUME NEW i \in 1..(n + 1), i > t.implied.front
          PROVE  TrueBy(t, t.implied.lits[i].lit, t.bt)
      <4>1. CASE i \in 1..n
        <5>1. t.implied.lits[i] = s.implied.lits[i] /\ i > s.implied.front
          BY <1>1, <1>3, <3>3, <4>1
        <5>2. TrueBy(s, s.implied.lits[i].lit, s.bt)
          BY <1>0, <3>1, <4>1, <5>1
        <5> QED
          BY <1>2, <1>6, <5>1, <5>2
      <4>2. CASE i = n + 1
        <5>1. t.implied.lits[i] = e
          BY <1>3, <4>2
        <5>2. TrueBy(t, e.lit, s.bt)
          BY <1>6, <3>2
        <5> QED
          BY <1>2, <5>1, <5>2
      <4>3. n \in Nat
        BY <1>0
      <4> HIDE DEF n
      <4>4. i \in 1..n \/ i = n + 1
        BY <4>3
      <4> QED
        BY <4>1, <4>2, <4>4
    <3> QED
      BY <1>3, <3>1, <3>3 DEF LiveHeld
  <2> QED
    BY <2>1, <2>2
<1> QED
  BY <1>0, <1>1, <1>2, <1>4, <1>5, <1>9, <1>10 DEF Core, t

(* A literal implied late stands behind what implies it.                   *)
LEMMA BehindReason ==
  ASSUME NEW s \in State, NEW u \in State, TrailShape(s), NEW level \in Nat, Stays(s, u, level),
         NEW l, ~TrueBy(s, l, level), NEW c, \A k \in c \ {l} : TrueBy(s, -k, level)
  PROVE  Before(u, l, c)
<1>1. /\ DOMAIN s.trail = 1..Len(s.trail) /\ Len(s.trail) \in Nat
      /\ DOMAIN u.trail = 1..Len(u.trail) /\ Len(u.trail) \in Nat
      /\ \A i \in DOMAIN s.trail : s.trail[i].level \in Nat
  BY Typed
<1> SUFFICES ASSUME NEW i \in DOMAIN u.trail, u.trail[i].lit = l, NEW k \in c \ {l}
             PROVE  \E j \in 1..(i - 1) : u.trail[j].lit = -k
  BY DEF Before
<1>2. PICK j \in DOMAIN s.trail : s.trail[j].lit = -k /\ s.trail[j].level <= level
  BY DEF TrueBy
<1>3. u.trail[j].lit = -k
  BY <1>2 DEF Stays
<1>4. ASSUME i <= j PROVE FALSE
  <2>1. i \in DOMAIN s.trail /\ s.trail[i].level <= s.trail[j].level
    BY <1>1, <1>2, <1>4 DEF TrailShape
  <2>2. s.trail[i].level <= level
    BY <1>1, <1>2, <2>1
  <2>3. s.trail[i].lit = l
    BY <2>1, <2>2 DEF Stays
  <2> QED
    BY <2>1, <2>2, <2>3 DEF TrueBy
<1> QED
  BY <1>1, <1>2, <1>3, <1>4

(* Adding to the list and assigning do not disturb each other.             *)
LEMMA AddImpliedCommutes ==
  ASSUME NEW s \in State, NEW e \in Entry, NEW l, NEW c
  PROVE  /\ ForceLit(AddImplied(s, e), l, c) = AddImplied(ForceLit(s, l, c), e)
         /\ SetReason(AddImplied(s, e), l, c) = AddImplied(SetReason(s, l, c), e)
<1> DEFINE a == AddImplied(s, e)
<1>1. a = [s EXCEPT !.implied = [s.implied EXCEPT !.level = MaxOf(@, DL(s)), !.lits = Append(@, e)]]
  BY DEF AddImplied, State
<1>2. /\ a.trail = s.trail /\ a.decisions = s.decisions /\ a.conflict = s.conflict
  BY <1>1 DEF State
<1>3. IsTrue(a, l) = IsTrue(s, l) /\ IsFalse(a, l) = IsFalse(s, l) /\ DL(a) = DL(s)
  BY <1>2 DEF IsTrue, IsFalse, TrueLits, DL
<1>4. SetConflict(a, l, c) = AddImplied(SetConflict(s, l, c), e)
  BY DEF SetConflict, AddImplied, State, DL
<1>5. \A x : [a EXCEPT !.trail = x] = AddImplied([s EXCEPT !.trail = x], e)
  BY DEF AddImplied, State, DL
<1>6. SetReason(a, l, c) = AddImplied(SetReason(s, l, c), e)
  <2> DEFINE r == [i \in DOMAIN s.trail |-> IF s.trail[i].lit = l
                     THEN [s.trail[i] EXCEPT !.ante = c] ELSE s.trail[i]]
  <2>1. SetReason(s, l, c) = [s EXCEPT !.trail = r]
    BY DEF SetReason
  <2>2. SetReason(a, l, c) = [a EXCEPT !.trail = r]
    BY <1>2 DEF SetReason
  <2> HIDE DEF r
  <2> QED
    BY <1>5, <2>1, <2>2
<1>7. ForceLit(a, l, c) = AddImplied(ForceLit(s, l, c), e)
  BY <1>2, <1>3, <1>4, <1>5 DEF ForceLit
<1> QED
  BY <1>6, <1>7

(* An entry of the list moved to a lower level.                            *)
LEMMA MovedCore ==
  ASSUME NEW R, NEW s, Good(s), Core(s, R), NEW first \in DOMAIN s.implied.lits, NEW e \in Entry,
         e.lit = s.implied.lits[first].lit, e.level <= s.implied.lits[first].level, EntryOk(s, R, e)
  PROVE  LET t == [s EXCEPT !.implied.lits[first] = e]
         IN /\ Good(t) /\ Core(t, R) /\ t.trail = s.trail /\ t.front = s.front /\ t.conflict = s.conflict
            /\ DL(t) = DL(s) /\ t.bt = s.bt /\ t.root = s.root
<1> DEFINE t == [s EXCEPT !.implied.lits[first] = e]
           new == [s.implied.lits EXCEPT ![first] = e]
<1>0. /\ s \in State /\ s.implied.lits \in Seq(Entry) /\ DOMAIN s.implied.lits = 1..Len(s.implied.lits)
      /\ s.implied.level \in Nat /\ s.bt \in Nat /\ s.root \in Nat /\ e.level \in Nat
      /\ \A i \in DOMAIN s.implied.lits : s.implied.lits[i].level \in Nat
  BY Typed DEF Good, State, Entry
<1>1. new \in Seq(Entry) /\ Len(new) = Len(s.implied.lits) /\ DOMAIN new = DOMAIN s.implied.lits
      /\ \A i \in DOMAIN s.implied.lits : new[i] = IF i = first THEN e ELSE s.implied.lits[i]
  BY <1>0, ExceptSeq
<1>2. t = [s EXCEPT !.implied = [s.implied EXCEPT !.lits = new]]
  OBVIOUS
<1> HIDE DEF new, t
<1>3. /\ t \in State /\ LevelsSame(s, t)
      /\ t.trail = s.trail /\ t.front = s.front /\ t.conflict = s.conflict
      /\ t.implied.lits = new /\ t.implied.level = s.implied.level /\ t.implied.front = s.implied.front
  BY <1>0, <1>1, <1>2 DEF State, LevelsSame
<1>4. Good(t) /\ DL(t) = DL(s) /\ t.bt = s.bt /\ t.root = s.root
  BY <1>3, SameIsGood DEF LevelsSame, DL
<1>5. TrailOk(t, R)
  BY <1>3, <1>4 DEF Core, TrailOk, TrailShape, Reasoned, DecisionsFirst
<1>6. \A l, k : TrueBy(s, l, k) <=> TrueBy(t, l, k)
  BY <1>3 DEF TrueBy
<1>7. ASSUME NEW i \in DOMAIN s.implied.lits
      PROVE  /\ new[i].level <= s.implied.level /\ new[i].level <= s.bt
             /\ i <= s.implied.front => new[i].level <= s.root
             /\ EntryOk(t, R, new[i]) /\ new[i].lit = s.implied.lits[i].lit
  <2>1. /\ s.implied.lits[i].level <= s.implied.level /\ s.implied.lits[i].level <= s.bt
        /\ i <= s.implied.front => s.implied.lits[i].level <= s.root
        /\ EntryOk(s, R, s.implied.lits[i])
    BY DEF Core, ImpliedOk
  <2>2. EntryOk(t, R, s.implied.lits[i]) /\ EntryOk(t, R, e)
    BY <1>6, <2>1 DEF EntryOk
  <2>3. CASE i = first
    BY SMTT(40), <1>0, <1>1, <2>1, <2>2, <2>3
  <2>4. CASE i # first
    BY <1>1, <2>1, <2>2, <2>4
  <2> QED
    BY <2>3, <2>4
<1>8. ImpliedOk(t, R)
  <2>1. t.implied.lits # <<>>
    BY <1>1, <1>3
  <2> QED
    BY <1>1, <1>3, <1>4, <1>7, <2>1 DEF Core, ImpliedOk
<1>9. LiveHeld(t)
  BY <1>1, <1>3, <1>4, <1>6, <1>7 DEF Core, LiveHeld
<1> QED
  BY <1>3, <1>4, <1>5, <1>8, <1>9 DEF Core, t

LEMMA LeastPosition ==
  ASSUME NEW n \in Nat, NEW K \in SUBSET (1..n), K # {}
  PROVE  (CHOOSE i \in K : \A j \in K : i <= j) \in K
<1> DEFINE S == {k \in Nat : \A i \in K : i > k \/ \E m \in K : \A j \in K : m <= j}
<1>1. 0 \in S
  OBVIOUS
<1>2. \A k \in Nat : k \in S => k + 1 \in S
  <2> SUFFICES ASSUME NEW k \in Nat, k \in S, NEW i \in K, ~(i > k + 1)
               PROVE  \E m \in K : \A j \in K : m <= j
    OBVIOUS
  <2>0. \A j \in K : j \in Nat
    OBVIOUS
  <2>1. CASE \A j \in K : j > k
    <3>1. i = k + 1 /\ \A j \in K : k + 1 <= j
      BY <2>0, <2>1
    <3> QED
      BY <3>1
  <2>2. CASE \E j \in K : ~(j > k)
    BY <2>2
  <2> QED
    BY <2>1, <2>2
<1> HIDE DEF S
<1>3. Nat \subseteq S
  BY <1>1, <1>2, NatSetInduction
<1>4. \A i \in K : i > n \/ \E m \in K : \A j \in K : m <= j
  BY <1>3 DEF S
<1>5. \E m \in K : \A j \in K : m <= j
  <2>1. PICK i \in K : TRUE
    OBVIOUS
  <2>2. ~(i > n)
    OBVIOUS
  <2> QED
    BY <1>4, <2>1, <2>2
<1> QED
  BY <1>5

LEMMA ForceImpliedCore ==
  ASSUME NEW R, NEW s, Good(s), Core(s, R), NEW l \in Lit, NEW level \in Nat,
         NEW c \in SUBSET Lit, c \in R, l \in c, level < DL(s),
         \A k \in c \ {l} : TrueBy(s, -k, level),
         level > s.bt => \E k \in c \ {l} : AtLevel(s, -k, level),
         IsFalse(s, l) => s.implied.level <= s.bt
  PROVE  LET t == ForceImplied(s, l, level, c)
         IN /\ Good(t) /\ Core(t, R) /\ Facts(s) \subseteq Facts(t)
            /\ QueueOk(s) => QueueOk(t)
            /\ ConflictOk(s, R) \/ ~IsTrue(s, l) => ConflictOk(t, R)
<1> DEFINE lits   == s.implied.lits
           known  == {i \in DOMAIN lits : lits[i].lit = l}
           first  == CHOOSE i \in known : \A j \in known : i <= j
           entry  == [lit |-> l, level |-> level, ante |-> c]
           undone == UndoUntil(s, level)
           noted  == IF DL(undone) # level THEN AddImplied(undone, entry) ELSE undone
           moved  == [s EXCEPT !.implied.lits[first] = entry]
           t      == ForceImplied(s, l, level, c)
           target == MaxOf(level, s.bt)
<1>0. /\ s \in State /\ s.bt \in Nat /\ DL(s) \in Nat /\ s.bt <= DL(s) /\ target \in Nat
      /\ level <= target /\ entry \in Entry /\ c # NoAnte /\ TrailShape(s)
      /\ s.bt <= target
  BY Typed DEF Good, Levels, MaxOf, Entry, NoAnte, Core, TrailOk
<1>1. EntryOk(s, R, entry)
  BY DEF EntryOk
<1>2. t = IF IsTrue(s, l) /\ LevelOf(s, l) <= level THEN s
          ELSE IF IsTrue(s, l) /\ known # {}
          THEN IF lits[first].level <= level THEN s ELSE SetReason(moved, l, c)
          ELSE IF IsTrue(noted, l) THEN SetReason(noted, l, c) ELSE ForceLit(noted, l, c)
  BY DEF ForceImplied
<1> HIDE DEF t
<1>3. TrueBy(s, l, level) => IsTrue(s, l) /\ LevelOf(s, l) <= level
  <2>1. \A n : AtLevel(s, l, n) => IsTrue(s, l) /\ LevelOf(s, l) = n
    BY <1>0, TrueAt
  <2> QED
    BY <2>1 DEF TrueBy, AtLevel
<1>4. CASE t = s /\ IsTrue(s, l)
  BY <1>4 DEF t
<1>5. CASE ~TrueBy(s, l, level) /\ IsTrue(s, l) /\ known # {} /\ ~(lits[first].level <= level)
           /\ t = SetReason(moved, l, c)
  <2>1. first \in DOMAIN lits /\ lits[first].lit = l
    <3>1. Len(lits) \in Nat /\ DOMAIN lits = 1..Len(lits)
      BY <1>0, Typed
    <3>2. first \in known
      BY <1>5, <3>1, LeastPosition
    <3> QED
      BY <3>2
  <2> HIDE DEF first
  <2>2. level <= lits[first].level
    <3>1. lits[first].level \in Nat
      BY <1>0, <2>1, Typed
    <3> QED
      BY <1>5, <3>1
  <2>3. /\ Good(moved) /\ Core(moved, R) /\ moved.trail = s.trail /\ moved.front = s.front
        /\ moved.conflict = s.conflict
        /\ DL(moved) = DL(s) /\ moved.bt = s.bt /\ moved.root = s.root
    BY <1>0, <1>1, <2>1, <2>2, MovedCore
  <2> HIDE DEF moved
  <2>4. Stays(s, moved, level)
    BY <2>3 DEF Stays
  <2>5. Before(moved, l, c)
    BY <1>0, <1>5, <2>3, <2>4, BehindReason DEF Good
  <2>6. /\ Good(t) /\ Core(t, R) /\ Facts(moved) \ {l} \subseteq Facts(t)
        /\ QueueOk(moved) => QueueOk(t)
        /\ ConflictOk(moved, R) => ConflictOk(t, R)
    BY <1>0, <1>5, <2>3, <2>5, SetReasonCore
  <2>7. Facts(moved) = Facts(s) /\ (QueueOk(s) => QueueOk(moved)) /\ (ConflictOk(s, R) => ConflictOk(moved, R))
    BY <2>3 DEF Facts, QueueOk, ConflictOk, Current, AtLevel, IsTrue, TrueLits
  <2>8. l \notin Facts(s)
    BY <1>5 DEF Facts, TrueBy
  <2> QED
    BY <1>5, <2>6, <2>7, <2>8 DEF t
<1>6. CASE /\ ~TrueBy(s, l, level)
           /\ t = IF IsTrue(noted, l) THEN SetReason(noted, l, c) ELSE ForceLit(noted, l, c)
  <2> DEFINE v == IF IsTrue(undone, l) THEN SetReason(undone, l, c) ELSE ForceLit(undone, l, c)
  <2>1. /\ Good(undone) /\ Core(undone, R) /\ QueueOk(undone) /\ ConflictOk(undone, R)
        /\ DL(undone) = MinOf(DL(s), target) /\ undone.bt = s.bt /\ undone.root = s.root
        /\ Facts(s) \subseteq Facts(undone) /\ Stays(s, undone, target)
        /\ NoneNew(s, undone) \/ (DL(undone) = undone.bt /\ undone.implied.level <= undone.bt)
        /\ s.implied.level <= s.bt => undone.implied.level <= undone.bt
    BY UndoKeep
  <2>2. undone \in State
    BY <2>1 DEF Good
  <2> HIDE DEF undone, entry
  <2>3. Stays(s, undone, level)
    <3>1. \A i \in DOMAIN s.trail : s.trail[i].level \in Nat
      BY <1>0, Typed
    <3> QED
      BY <1>0, <2>1, <3>1 DEF Stays
  <2>4. /\ \A k \in c \ {l} : TrueBy(undone, -k, level)
        /\ \A k \in c \ {l} : AtLevel(s, -k, level) => AtLevel(undone, -k, level)
    BY <1>0, <2>3, StaysTrue
  <2>5. l \notin Facts(s)
    BY <1>6 DEF Facts, TrueBy
  <2>6. /\ Good(v) /\ Core(v, R) /\ Facts(s) \subseteq Facts(v) /\ QueueOk(v) /\ ConflictOk(v, R)
        /\ v.implied = undone.implied /\ DL(v) = DL(undone) /\ v.bt = s.bt /\ v.root = s.root
        /\ Grown(undone, v)
        /\ IsFalse(undone, l) \/ TrueBy(v, l, DL(undone))
    <3>1. CASE IsTrue(undone, l)
      <4>1. Before(undone, l, c)
        BY <1>0, <1>6, <2>2, <2>3, BehindReason
      <4>2. TrueBy(undone, l, DL(undone))
        BY <2>1, <3>1 DEF IsTrue, TrueLits, TrueBy, Core, TrailOk, TrailShape
      <4>3. /\ Good(v) /\ Core(v, R) /\ Facts(undone) \ {l} \subseteq Facts(v) /\ Grown(undone, v)
            /\ v.implied = undone.implied /\ DL(v) = DL(undone) /\ v.bt = undone.bt /\ v.root = undone.root
            /\ QueueOk(v) /\ ConflictOk(v, R)
        BY <1>0, <2>1, <3>1, <4>1, SetReasonCore
      <4> QED
        BY <2>1, <2>5, <4>2, <4>3, GrownTrue
    <3>2. CASE ~IsTrue(undone, l)
      <4>1. \A k \in c \ {l} : IsFalse(undone, k)
        BY <2>4 DEF TrueBy, IsFalse, TrueLits
      <4>2. Justified(undone, R, l, c) /\ MayAssign(undone, c)
        BY <1>0, <4>1 DEF Justified, MayAssign
      <4>3. ConflictFits(undone, l, c)
        <5> SUFFICES ASSUME DL(undone) > undone.bt PROVE Current(undone, Neg(c))
          BY <1>0 DEF ConflictFits
        <5>1. level > s.bt /\ DL(undone) = level
          BY <1>0, <2>1 DEF MinOf, MaxOf
        <5>2. PICK k \in c \ {l} : AtLevel(s, -k, level)
          BY <5>1
        <5>3. AtLevel(undone, -k, DL(undone)) /\ -k \in Neg(c)
          BY <2>4, <5>1, <5>2 DEF Neg
        <5> QED
          BY <5>3 DEF Current
      <4>4. /\ Good(v) /\ Core(v, R) /\ Facts(undone) \subseteq Facts(v) /\ Grown(undone, v)
            /\ v.implied = undone.implied /\ DL(v) = DL(undone) /\ v.bt = undone.bt /\ v.root = undone.root
            /\ IsFalse(undone, l) \/ (TrueBy(v, l, DL(undone)) /\ v.conflict = undone.conflict)
            /\ QueueOk(undone) => QueueOk(v)
            /\ ConflictOk(undone, R) /\ ConflictFits(undone, l, c) => ConflictOk(v, R)
        BY <2>1, <3>2, <4>2, ForceCore
      <4> QED
        BY <2>1, <4>3, <4>4
    <3> QED
      BY <3>1, <3>2
  <2>7. CASE DL(undone) = level
    BY <1>6, <2>6, <2>7 DEF t
  <2>8. CASE DL(undone) # level
    <3>1. level < s.bt /\ DL(undone) = s.bt
      BY <1>0, <2>1, <2>8 DEF MinOf, MaxOf
    <3>2. noted = AddImplied(undone, entry)
      BY <2>8
    <3>3. noted.trail = undone.trail
      BY <2>2, <3>2 DEF AddImplied, State
    <3>4. IsTrue(noted, l) = IsTrue(undone, l)
      BY <3>3 DEF IsTrue, TrueLits
    <3>5. t = AddImplied(v, entry)
      BY <1>0, <1>6, <2>2, <3>2, <3>4, AddImpliedCommutes
    <3>6. EntryOk(v, R, entry) /\ entry.level < s.bt /\ entry.lit = l
      BY <2>4, <2>6, <3>1, GrownTrue DEF EntryOk, entry
    <3>7. v.implied.level <= v.bt \/ TrueBy(v, l, v.bt)
      <4>1. CASE NoneNew(s, undone) /\ ~(undone.implied.level <= undone.bt)
        <5>1. ~IsFalse(s, l)
          BY <2>1, <4>1
        <5>2. ~IsFalse(undone, l)
          BY <4>1, <5>1 DEF NoneNew, IsFalse, TrueLits
        <5> QED
          BY <2>6, <3>1, <5>2
      <4>2. CASE undone.implied.level <= undone.bt
        BY <2>1, <2>6, <4>2
      <4> QED
        BY <2>1, <4>1, <4>2
    <3> HIDE DEF v
    <3>8. /\ Good(t) /\ Core(t, R) /\ t.trail = v.trail /\ t.front = v.front /\ t.conflict = v.conflict
          /\ DL(t) = DL(v) /\ t.bt = v.bt /\ t.root = v.root
      <4>1. entry.level <= v.bt /\ DL(v) = v.bt
        BY <1>0, <2>6, <3>1, <3>6 DEF entry
      <4> QED
        BY <1>0, <2>6, <3>5, <3>6, <3>7, <4>1, AddImpliedCore
    <3>9. Facts(t) = Facts(v) /\ QueueOk(t) /\ ConflictOk(t, R)
      BY <2>6, <3>1, <3>8 DEF Facts, QueueOk, ConflictOk, Current, AtLevel, IsTrue, TrueLits
    <3> QED
      BY <2>6, <3>8, <3>9 DEF t
  <2> QED
    BY <2>7, <2>8
<1> QED
  BY <1>2, <1>3, <1>4, <1>5, <1>6

LEMMA ForceAtLevelCore ==
  ASSUME NEW R, NEW s, Good(s), Core(s, R), NEW l \in Lit, NEW level \in Nat,
         NEW c \in SUBSET Lit, c \in R, l \in c, level <= DL(s),
         \A k \in c \ {l} : TrueBy(s, -k, level),
         level > s.bt => \E k \in c \ {l} : AtLevel(s, -k, level),
         IsFalse(s, l) => s.implied.level <= s.bt
  PROVE  LET t == ForceAtLevel(s, l, level, c)
         IN /\ Good(t) /\ Core(t, R) /\ Facts(s) \subseteq Facts(t)
            /\ QueueOk(s) => QueueOk(t)
            /\ ConflictOk(s, R) \/ (~IsTrue(s, l) /\ level # DL(s)) => ConflictOk(t, R)
<1>0. DL(s) \in Nat /\ s.bt \in Nat /\ s \in State
  BY Typed DEF Good
<1>1. CASE level = DL(s)
  <2>1. ForceAtLevel(s, l, level, c) = ForceLit(s, l, c)
    BY <1>1 DEF ForceAtLevel
  <2>2. Justified(s, R, l, c) /\ MayAssign(s, c)
    BY DEF Justified, MayAssign, TrueBy, IsFalse, TrueLits, NoAnte
  <2>3. ConflictFits(s, l, c)
    BY <1>1 DEF ConflictFits, Current, Neg, NoAnte
  <2> QED
    BY <1>1, <2>1, <2>2, <2>3, ForceCore
<1>2. CASE level # DL(s)
  <2>1. ForceAtLevel(s, l, level, c) = ForceImplied(s, l, level, c)
    BY <1>2 DEF ForceAtLevel
  <2>2. level < DL(s)
    BY <1>0, <1>2
  <2> QED
    BY <2>1, <2>2, ForceImpliedCore
<1> QED
  BY <1>1, <1>2

(***************************************************************************)
(* Decisions, root levels, backtracking and flips.                         *)
(***************************************************************************)
LEMMA PushRootLevelCore ==
  ASSUME NEW R, NEW s, Good(s), Core(s, R), NEW n \in Nat
  PROVE  LET t == PushRootLevel(s, n)
         IN /\ Good(t) /\ Core(t, R) /\ t.trail = s.trail /\ t.front = s.front
            /\ t.conflict = s.conflict /\ t.stop = s.stop /\ DL(t) = DL(s)
            /\ t.root = MinOf(DL(s), s.root + n)
            /\ QueueOk(s) => QueueOk(t)
            /\ ConflictOk(s, R) => ConflictOk(t, R)
<1> DEFINE t == PushRootLevel(s, n)
<1>0. /\ s \in State /\ Good(t) /\ t \in State /\ s.root \in Nat /\ s.bt \in Nat /\ DL(s) \in Nat
      /\ s.root <= s.bt /\ s.bt <= DL(s)
  BY Typed, PushRootLevelGood DEF Good, Levels
<1>1. /\ t.trail = s.trail /\ t.front = s.front /\ t.conflict = s.conflict /\ t.stop = s.stop
      /\ t.implied = s.implied /\ t.decisions = s.decisions
      /\ t.root = MinOf(DL(s), s.root + n) /\ t.bt = MaxOf(s.bt, t.root)
  BY <1>0 DEF PushRootLevel, State
<1> HIDE DEF t
<1>2. t.root \in Nat /\ t.bt \in Nat /\ s.root <= t.root /\ s.bt <= t.bt /\ DL(t) = DL(s)
  BY <1>0, <1>1 DEF MinOf, MaxOf, DL
<1>3. TrailOk(t, R)
  <2>1. DecisionsFirst(t)
    <3> SUFFICES ASSUME NEW i \in DOMAIN s.trail, s.trail[i].level > t.bt, s.trail[i].ante = NoAnte
                 PROVE  \A j \in 1..(i - 1) : s.trail[j].level < s.trail[i].level
      BY <1>1 DEF DecisionsFirst
    <3>1. s.trail[i].level > s.bt
      <4>1. s.trail[i].level \in Nat
        BY <1>0, Typed
      <4> QED
        BY <1>0, <1>2, <4>1
    <3> QED
      BY <3>1 DEF Core, TrailOk, DecisionsFirst
  <2> QED
    BY <1>1, <1>2, <2>1 DEF Core, TrailOk, TrailShape, Reasoned
<1>4. Stays(s, t, s.bt)
  BY <1>1 DEF Stays
<1>5. ImpliedOk(t, R) /\ LiveHeld(t)
  BY <1>0, <1>1, <1>2, <1>4, ListKept DEF Core
<1>6. DL(t) > t.bt => DL(s) > s.bt
  BY <1>0, <1>2
<1>7. QueueOk(s) => QueueOk(t)
  BY <1>1, <1>2, <1>6 DEF QueueOk
<1>8. ConflictOk(s, R) => ConflictOk(t, R)
  BY <1>1, <1>2, <1>6 DEF ConflictOk, Current, AtLevel, IsTrue, TrueLits
<1> QED
  BY <1>0, <1>1, <1>2, <1>3, <1>5, <1>7, <1>8 DEF Core, t

LEMMA AssumeCore ==
  ASSUME NEW R, NEW s, Good(s), Core(s, R), NEW l \in FreeLits(s),
         s.front = Len(s.trail), ~s.conflict.has
  PROVE  LET t == Assume(s, l)
         IN /\ Good(t) /\ Core(t, R) /\ QueueOk(t) /\ ConflictOk(t, R)
            /\ Facts(s) \subseteq Facts(t) /\ t.stop = s.stop /\ ~t.conflict.has
<1> DEFINE a == [s EXCEPT !.decisions = Append(@, l)]
           t == Assume(s, l)
<1>0. /\ s \in State /\ l \in Lit /\ s.root \in Nat /\ s.bt \in Nat /\ DL(s) \in Nat
      /\ s.root <= s.bt /\ s.bt <= DL(s) /\ s.decisions \in Seq(Lit)
      /\ Len(s.trail) \in Nat /\ DOMAIN s.trail = 1..Len(s.trail)
      /\ \A i \in DOMAIN s.trail : s.trail[i].level \in Nat /\ s.trail[i].level <= DL(s)
      /\ ~IsTrue(s, l) /\ ~IsFalse(s, l)
  BY Typed DEF Good, Levels, FreeLits, IsFree, State, Core, TrailOk, TrailShape
<1>1. t = ForceLit(a, l, NoAnte)
  BY <1>0 DEF Assume
<1>2. /\ a \in State /\ a.trail = s.trail /\ a.front = s.front /\ a.conflict = s.conflict
      /\ a.stop = s.stop /\ a.implied = s.implied /\ a.root = s.root /\ a.bt = s.bt
      /\ a.decisions = Append(s.decisions, l)
  BY <1>0, AppendProperties DEF State
<1> HIDE DEF a, t
<1>3. DL(a) = DL(s) + 1
  BY <1>0, <1>2, AppendProperties DEF DL
<1>4. Good(a)
  BY <1>0, <1>2, <1>3 DEF Good, Levels
<1>5. TrailOk(a, R)
  <2>1. \A i \in DOMAIN s.trail : s.trail[i].level <= DL(s) + 1
    BY <1>0
  <2> QED
    BY <1>2, <1>3, <2>1 DEF Core, TrailOk, TrailShape, Reasoned, DecisionsFirst
<1>6. Stays(s, a, s.bt)
  BY <1>2 DEF Stays
<1>7. Core(a, R)
  BY <1>0, <1>2, <1>5, <1>6, ListKept DEF Core
<1>8. MayAssign(a, NoAnte) /\ Justified(a, R, l, NoAnte) /\ NoAnte \in SUBSET Lit
  <2>1. \A i \in DOMAIN a.trail : a.trail[i].level < DL(a)
    BY SMTT(40), <1>0, <1>2, <1>3
  <2> QED
    BY <2>1 DEF MayAssign, Justified, NoAnte
<1>9. QueueOk(a)
  BY <1>0, <1>2 DEF QueueOk
<1>10. ConflictOk(a, R)
  BY <1>2 DEF ConflictOk
<1>11. ~IsFalse(a, l)
  BY <1>0, <1>2 DEF IsFalse, TrueLits
<1>12. /\ Good(t) /\ Core(t, R) /\ QueueOk(t) /\ ConflictOk(t, R) /\ Facts(a) \subseteq Facts(t)
       /\ t.conflict = a.conflict
  BY <1>0, <1>1, <1>4, <1>7, <1>8, <1>9, <1>10, <1>11, ForceCore DEF ConflictFits
<1>13. t.stop = s.stop
  BY <1>0, <1>1, <1>2, <1>8, ForceType DEF LevelsSame
<1>14. Facts(s) = Facts(a)
  BY <1>2 DEF Facts
<1> QED
  BY <1>2, <1>12, <1>13, <1>14 DEF t

LEMMA BacktrackCore ==
  ASSUME NEW R, NEW s, Good(s), Core(s, R), NEW level \in Nat
  PROVE  LET t == Backtrack(s, level)
         IN /\ Good(t) /\ Core(t, R) /\ QueueOk(t) /\ ConflictOk(t, R)
            /\ Facts(s) \subseteq Facts(t) /\ t.stop = s.stop
<1> DEFINE u == UndoUntil(s, MaxOf(level, s.root))
<1>0. s \in State /\ MaxOf(level, s.root) \in Nat
  BY Typed DEF Good, MaxOf
<1>1. Good(u) /\ Core(u, R) /\ QueueOk(u) /\ ConflictOk(u, R) /\ Facts(s) \subseteq Facts(u)
  BY <1>0, UndoKeep
<1>2. u.stop = s.stop
  BY <1>0, UndoUntilType
<1>3. Backtrack(s, level) = [u EXCEPT !.bt = MinOf(@, DL(u))]
  BY DEF Backtrack
<1> HIDE DEF u
<1>4. MinOf(u.bt, DL(u)) = u.bt /\ u \in State
  BY <1>1 DEF Good, Levels, MinOf
<1>5. [u EXCEPT !.bt = u.bt] = u
  BY <1>4 DEF State
<1> QED
  BY <1>1, <1>2, <1>3, <1>4, <1>5

(* The state without its stop conflict. *)
Base(s) == ClearStopConflict(s)

LEMMA BaseFacts ==
  ASSUME NEW s \in State
  PROVE  /\ Base(s) \in State /\ ~Base(s).stop.set
         /\ Base(s).trail = s.trail /\ Base(s).decisions = s.decisions /\ DL(Base(s)) = DL(s)
         /\ Base(s).implied = s.implied
         /\ ~s.stop.set => Base(s) = s
         /\ s.stop.set => /\ Base(s).root = s.stop.root /\ Base(s).bt = s.stop.bt
                          /\ Base(s).front = s.stop.front /\ ~Base(s).conflict.has
<1>1. CASE ~s.stop.set
  BY <1>1 DEF Base, ClearStopConflict
<1>2. CASE s.stop.set
  <2>1. s.stop \in [set : BOOLEAN, root : Nat, bt : Nat, front : Nat]
    BY DEF State
  <2> QED
    BY <1>2, <2>1 DEF Base, ClearStopConflict, State, NoStop, NoConflict, DL
<1> QED
  BY <1>1, <1>2

(* The part of the invariant that holds outside of conflict analysis.      *)
Whole(s, R) == Core(Base(s), R) /\ QueueOk(Base(s)) /\ ConflictOk(Base(s), R)

LEMMA PopRootLevelCore ==
  ASSUME NEW R, NEW s, Good(s), Core(Base(s), R), NEW n \in Nat
  PROVE  LET t == PopRootLevel(s, n)
         IN Good(t) /\ Whole(t, R) /\ ~t.stop.set /\ Facts(s) \subseteq Facts(t)
<1> DEFINE c    == Base(s)
           root == IF c.root >= n THEN c.root - n ELSE 0
           x    == [c EXCEPT !.root = root, !.bt = root, !.implied.front = 0]
           t    == PopRootLevel(s, n)
<1>1. Good(c) /\ ~c.stop.set /\ c.trail = s.trail /\ Core(c, R)
  BY ClearStopConflictGood, BaseFacts DEF Good, Base
<1>2. t = UndoUntil(x, root)
  BY DEF PopRootLevel, Base
<1>3. Good(t)
  BY PopRootLevelGood
<1> HIDE DEF c, t
<1>4. /\ c \in State /\ c.root \in Nat /\ c.bt \in Nat /\ DL(c) \in Nat
      /\ c.root <= c.bt /\ c.bt <= DL(c)
      /\ c.implied \in [lits : Seq(Entry), level : Nat, front : Nat]
      /\ Len(c.implied.lits) \in Nat /\ DOMAIN c.implied.lits = 1..Len(c.implied.lits)
  BY <1>1, Typed DEF Good, Levels, State
<1>5. root \in Nat /\ root <= DL(c)
  BY <1>4
<1> HIDE DEF root
<1>6. /\ x \in State /\ x.root = root /\ x.bt = root /\ x.decisions = c.decisions /\ x.stop = c.stop
      /\ x.trail = c.trail /\ x.implied.lits = c.implied.lits /\ x.implied.level = c.implied.level
      /\ x.implied.front = 0
  <2>1. [c.implied EXCEPT !.front = 0] \in [lits : Seq(Entry), level : Nat, front : Nat]
    BY <1>4
  <2> QED
    BY <1>4, <1>5, <2>1 DEF State
<1> HIDE DEF x
<1>7. Good(x) /\ DL(x) = DL(c)
  BY <1>1, <1>4, <1>5, <1>6 DEF Good, Levels, DL
<1>8. TrailShape(x) /\ Reasoned(x, R)
  BY <1>1, <1>6, <1>7 DEF Core, TrailOk, TrailShape, Reasoned
<1>9. ListBelow(x, R)
  <2>1. \A l, k : TrueBy(c, l, k) <=> TrueBy(x, l, k)
    BY <1>6 DEF TrueBy
  <2>2. \A i \in DOMAIN c.implied.lits :
          c.implied.lits[i].level <= c.implied.level /\ EntryOk(c, R, c.implied.lits[i])
    BY <1>1 DEF Core, ImpliedOk
  <2>3. \A i \in DOMAIN c.implied.lits : EntryOk(x, R, c.implied.lits[i])
    BY <2>1, <2>2 DEF EntryOk
  <2>4. \A i \in DOMAIN c.implied.lits : ~(i <= 0)
    BY <1>4
  <2>5. c.implied.lits = <<>> => c.implied.level = 0
    BY <1>1 DEF Core, ImpliedOk
  <2> QED
    BY <1>4, <1>6, <2>2, <2>3, <2>4, <2>5 DEF ListBelow
<1>10. MinOf(DL(x), MaxOf(root, x.bt)) = x.bt
  BY <1>4, <1>5, <1>6, <1>7 DEF MinOf, MaxOf
<1>11. /\ Core(t, R) /\ QueueOk(t) /\ ConflictOk(t, R) /\ Facts(x) \subseteq Facts(t)
  BY <1>2, <1>5, <1>7, <1>8, <1>9, <1>10, UndoHere
<1>12. ~t.stop.set
  BY <1>1, <1>2, <1>5, <1>6, UndoUntilType
<1>13. Base(t) = t
  BY <1>3, <1>12, BaseFacts DEF Good
<1>14. Facts(s) = Facts(x)
  BY <1>1, <1>6 DEF Facts
<1> QED
  BY <1>3, <1>11, <1>12, <1>13, <1>14 DEF Whole, t

LEMMA SetStopConflictCore ==
  ASSUME NEW R, NEW s, Good(s), Whole(s, R), s.stop.set => s.conflict.has /\ s.root = DL(s)
  PROVE  LET t == SetStopConflict(s)
         IN /\ Whole(t, R) /\ t.trail = s.trail /\ t.front = s.front
            /\ t.conflict.has /\ t.root = DL(t) /\ DL(t) = DL(s)
<1> DEFINE saved == [set |-> TRUE, root |-> s.root, bt |-> s.bt, front |-> s.front]
           m == IF s.conflict.has THEN s
                ELSE [s EXCEPT !.stop = saved, !.conflict = [has |-> TRUE, lits |-> {}]]
           t == SetStopConflict(s)
<1>0. /\ s \in State /\ s.root \in Nat /\ s.bt \in Nat /\ s.front \in Nat /\ DL(s) \in Nat
      /\ s.root <= s.bt /\ s.bt <= DL(s)
  BY Typed DEF Good, Levels
<1>1. t = PushRootLevel(m, DL(s)) /\ t \in State
  BY SetStopConflictGood DEF SetStopConflict, Good
<1>2. /\ m \in State /\ m.trail = s.trail /\ m.decisions = s.decisions /\ m.root = s.root /\ m.bt = s.bt
      /\ m.implied = s.implied /\ m.front = s.front /\ m.conflict.has
      /\ m.stop = IF s.conflict.has THEN s.stop ELSE saved
      /\ s.conflict.has => m = s
  BY <1>0 DEF State
<1> HIDE DEF m, t
<1>3. /\ t.trail = s.trail /\ t.decisions = s.decisions /\ t.implied = s.implied /\ t.front = s.front
      /\ t.conflict = m.conflict /\ t.stop = m.stop
      /\ t.root = MinOf(DL(s), s.root + DL(s)) /\ t.bt = MaxOf(s.bt, t.root)
  BY <1>1, <1>2 DEF PushRootLevel, State, DL
<1>4. t.root = DL(s) /\ t.bt = DL(s) /\ DL(t) = DL(s)
  BY <1>0, <1>3 DEF MinOf, MaxOf, DL
<1>5. CASE s.conflict.has /\ ~s.stop.set
  <2>1. Base(s) = s /\ Base(t) = t
    BY <1>0, <1>1, <1>2, <1>3, <1>5, BaseFacts
  <2>2. t = PushRootLevel(s, DL(s))
    BY <1>1, <1>2, <1>5
  <2>3. Core(s, R) /\ QueueOk(s) /\ ConflictOk(s, R)
    BY <2>1 DEF Whole
  <2>4. Core(t, R) /\ QueueOk(t) /\ ConflictOk(t, R)
    BY <1>0, <2>2, <2>3, PushRootLevelCore
  <2> QED
    BY <1>2, <1>3, <1>4, <2>1, <2>4 DEF Whole, t
<1>6. CASE s.stop.set \/ ~s.conflict.has
  <2>1. /\ t.stop.set /\ t.stop.root = Base(s).root /\ t.stop.bt = Base(s).bt
        /\ t.stop.front = Base(s).front /\ ~Base(s).conflict.has
    BY <1>0, <1>2, <1>3, <1>6, BaseFacts
  <2> DEFINE b == Base(s)
             d == Base(t)
  <2>2. /\ b \in State /\ d \in State /\ d.trail = b.trail /\ d.decisions = b.decisions
        /\ d.implied = b.implied /\ d.root = b.root /\ d.bt = b.bt /\ d.front = b.front
        /\ ~d.conflict.has
    BY <1>0, <1>1, <1>3, <2>1, BaseFacts
  <2>3. Core(b, R) /\ QueueOk(b)
    BY DEF Whole
  <2> HIDE DEF b, d
  <2>4. DL(d) = DL(b)
    BY <2>2 DEF DL
  <2>5. TrailOk(d, R)
    BY <2>2, <2>3, <2>4 DEF Core, TrailOk, TrailShape, Reasoned, DecisionsFirst
  <2>6. Stays(b, d, b.bt) /\ b.root <= d.root /\ b.bt <= d.bt
    BY <2>2, Typed DEF Stays
  <2>7. Core(d, R)
    BY <2>2, <2>3, <2>5, <2>6, ListKept DEF Core
  <2>8. QueueOk(d) /\ ConflictOk(d, R)
    BY <2>2, <2>3, <2>4 DEF QueueOk, ConflictOk
  <2> QED
    BY <1>2, <1>3, <1>4, <2>7, <2>8 DEF Whole, t, d
<1> QED
  BY <1>5, <1>6

LEMMA FlippedCore ==
  ASSUME NEW R, NEW s, Good(s), Core(s, R), "backtrack_step" \in Api, DL(s) # s.root
  PROVE  LET t == Flipped(s)
             e == [lit |-> -Decision(s, DL(s)), level |-> DL(t), ante |-> NoAnte]
             u == AddImplied(t, e)
         IN /\ Good(t) /\ Core(t, R) /\ QueueOk(t) /\ ConflictOk(t, R)
            /\ Facts(s) \subseteq Facts(t) /\ t.stop = s.stop
            /\ ~t.conflict.has => /\ Good(u) /\ Core(u, R) /\ QueueOk(u) /\ ConflictOk(u, R)
                                  /\ Facts(s) \subseteq Facts(u) /\ u.stop = s.stop
<1> DEFINE target == MaxOf(DL(s) - 1, s.root)
           x    == [s EXCEPT !.bt = target]
           b    == UndoUntil(x, target)
           flip == -Decision(s, DL(s))
           t    == Flipped(s)
           e    == [lit |-> flip, level |-> DL(t), ante |-> NoAnte]
           u    == AddImplied(t, e)
<1>0. /\ s \in State /\ s.root \in Nat /\ s.bt \in Nat /\ DL(s) \in Nat /\ s.root <= s.bt /\ s.bt <= DL(s)
      /\ flip \in Lit /\ Good(t) /\ NoAnte \in SUBSET Lit
  BY Typed, FlippedGood DEF Good, Levels, NoAnte
<1> HIDE DEF flip
<1>1. target \in Nat /\ s.root <= target /\ target <= DL(s)
  BY <1>0 DEF MaxOf
<1>2. t = LET back == SetBacktrackLevel(b, DL(b))
          IN IF back.conflict.has THEN back ELSE ForceLit(back, flip, NoAnte)
  BY DEF Flipped, flip
<1> HIDE DEF target, t
<1>3. /\ x \in State /\ x.trail = s.trail /\ x.decisions = s.decisions /\ x.root = s.root
      /\ x.bt = target /\ x.implied = s.implied /\ x.stop = s.stop
  BY <1>0, <1>1 DEF State
<1> HIDE DEF x
<1>4. Good(x) /\ DL(x) = DL(s)
  BY <1>0, <1>1, <1>3 DEF Good, Levels, DL
<1>5. TrailShape(x) /\ Reasoned(x, R)
  BY <1>3, <1>4 DEF Core, TrailOk, TrailShape, Reasoned
<1>6. ListBelow(x, R)
  <2>1. \A i \in DOMAIN s.implied.lits : EntryOk(s, R, s.implied.lits[i]) => EntryOk(x, R, s.implied.lits[i])
    BY <1>3 DEF EntryOk, TrueBy
  <2> QED
    BY <1>3, <2>1 DEF ListBelow, Core, ImpliedOk
<1>7. MinOf(DL(x), MaxOf(target, x.bt)) = x.bt
  BY <1>0, <1>1, <1>3, <1>4 DEF MinOf, MaxOf
<1>8. /\ Good(b) /\ Core(b, R) /\ QueueOk(b) /\ ConflictOk(b, R) /\ DL(b) = target /\ b.bt = target
      /\ b.root = s.root /\ Facts(x) \subseteq Facts(b)
  BY <1>1, <1>3, <1>4, <1>5, <1>6, <1>7, UndoHere
<1>9. b.stop = s.stop
  BY <1>1, <1>3, UndoUntilType
<1> HIDE DEF b
<1>10. SetBacktrackLevel(b, DL(b)) = b
  <2>1. MaxOf(MinOf(DL(b), DL(b)), b.root) = b.bt
    BY <1>0, <1>1, <1>8 DEF MinOf, MaxOf
  <2>2. [b EXCEPT !.bt = b.bt] = b
    BY <1>8 DEF Good, State
  <2> QED
    BY <2>1, <2>2 DEF SetBacktrackLevel
<1>11. /\ Core(t, R) /\ QueueOk(t) /\ ConflictOk(t, R) /\ Facts(b) \subseteq Facts(t) /\ t.stop = s.stop
       /\ DL(t) = target /\ t.bt = target
       /\ t.conflict.has \/ TrueBy(t, flip, target)
  <2>1. CASE b.conflict.has
    BY <1>2, <1>8, <1>9, <1>10, <2>1
  <2>2. CASE ~b.conflict.has
    <3>1. t = ForceLit(b, flip, NoAnte)
      BY <1>2, <1>10, <2>2
    <3>2. MayAssign(b, NoAnte) /\ Justified(b, R, flip, NoAnte) /\ ConflictFits(b, flip, NoAnte)
      BY <1>1, <1>8 DEF MayAssign, Justified, ConflictFits
    <3>3. /\ Core(t, R) /\ QueueOk(t) /\ ConflictOk(t, R) /\ Facts(b) \subseteq Facts(t)
          /\ DL(t) = target /\ t.bt = target
          /\ IsFalse(b, flip) \/ TrueBy(t, flip, target)
      BY <1>0, <1>8, <3>1, <3>2, ForceCore
    <3>4. t.stop = s.stop
      BY <1>0, <1>8, <1>9, <3>1, ForceType DEF Good, LevelsSame
    <3>5. IsFalse(b, flip) => t.conflict.has
      <4>1. ~(IsTrue(b, flip) /\ IsFalse(b, flip))
        BY <1>0, <1>8, TrueAt DEF Good, Core, TrailOk
      <4>2. SetConflict(b, flip, NoAnte).conflict.has
        BY <1>8 DEF SetConflict, Good, State
      <4> QED
        BY <3>1, <4>1, <4>2 DEF ForceLit
    <3> QED
      BY <3>3, <3>4, <3>5
  <2> QED
    BY <2>1, <2>2
<1>12. Facts(s) \subseteq Facts(t)
  BY SMTT(40), <1>3, <1>8, <1>11 DEF Facts
<1>13. ASSUME ~t.conflict.has
       PROVE  /\ Good(u) /\ Core(u, R) /\ QueueOk(u) /\ ConflictOk(u, R)
              /\ Facts(s) \subseteq Facts(u) /\ u.stop = s.stop
  <2>1. e \in Entry /\ e.lit = flip /\ e.level = target /\ e.ante = NoAnte
    BY <1>0, <1>1, <1>11 DEF Entry
  <2> HIDE DEF e
  <2>2. EntryOk(t, R, e)
    BY <2>1 DEF EntryOk
  <2>3. /\ Good(u) /\ Core(u, R) /\ u.trail = t.trail /\ u.front = t.front /\ u.conflict = t.conflict
        /\ DL(u) = DL(t) /\ u.bt = t.bt /\ u.root = t.root
    BY <1>0, <1>1, <1>11, <1>13, <2>1, <2>2, AddImpliedCore
  <2>4. u.stop = s.stop
    BY <1>0, <1>11, <2>1, AddImpliedType DEF Good, LevelsSame
  <2> HIDE DEF u
  <2>5. QueueOk(u) /\ ConflictOk(u, R)
    BY <1>11, <1>13, <2>3 DEF QueueOk, ConflictOk
  <2>6. Facts(u) = Facts(t)
    BY <2>3 DEF Facts
  <2> QED
    BY <1>12, <2>3, <2>4, <2>5, <2>6
<1> HIDE DEF u, e
<1> QED
  BY <1>0, <1>11, <1>12, <1>13 DEF t, u, e, flip

(***************************************************************************)
(* The inductive invariant. A clause is sure when it holds in every model  *)
(* of the problem in which the facts hold: backtrack_step may put a        *)
(* flipped decision on the top level, which does not follow from the       *)
(* problem alone.                                                          *)
(***************************************************************************)
SureOf(f, facts) ==
  {c \in SUBSET Lit : \A m \in Assignments :
     Fulfils(m, f) /\ AllHold(m, facts) => \E l \in c : Holds(m, l)}
Sure == SureOf(formula, Facts(sol))

(* Outside of conflict analysis: the queue never points behind the trail,  *)
(* and a stop conflict holds all levels.                                   *)
SolverOk(s, R) ==
  /\ Whole(s, R) /\ s.front <= Len(s.trail)
  /\ s.stop.set => s.conflict.has /\ s.root = DL(s)

Busy == pc \in {"analyze", "learn", "panic"}
SolverInv ==
  /\ ~Busy => SolverOk(sol, Sure)
  /\ Busy => Core(sol, Sure) /\ ~sol.stop.set /\ sol.bt < DL(sol)

(* What is known where the thread has got to.                              *)
Labels == {"init", "idle", "ready", "prop", "top", "simplify", "decide", "resolve", "analyze",
           "learn", "after", "limit", "giveup", "panic", "push", "flip", "integrate"}
ControlInv ==
  /\ pc \in Labels
  /\ pc \in {"ready", "simplify", "decide", "limit", "push"} => NothingToLose
  /\ pc = "after" => sol.conflict.has \/ QueueEmpty
  /\ pc \in {"resolve", "giveup"} => sol.conflict.has
  /\ ret.ok \in {"idle", "ready", "simplify", "top", "after", "push"}
  /\ ret.fail \in {"idle", "resolve", "giveup"}
  /\ pc = "init" => DL(sol) = 0
  /\ "integrate" \notin Api => pc # "integrate"
  /\ "backtrack_step" \notin Api => pc # "flip"

(* Conflict analysis: an.on counts the seen literals of the conflict level *)
(* that are still on the trail, the literals left for the learnt clause    *)
(* are false on lower levels above the top level, and together with what   *)
(* is still to be resolved they form a sure clause.                        *)
OpenOf(s, seen) == {l \in TrueLits(s) : AtLevel(s, l, DL(s)) /\ Var(l) \in seen}
AllFalse(s, lits) == \A l \in lits : \E n \in 1..(DL(s) - 1) : AtLevel(s, -l, n)
Open == OpenOf(sol, an.seen)
Resolving ==
  /\ AllFalse(sol, an.lits)
  /\ \A l \in an.cur : IsTrue(sol, l)
  /\ SeenVars(an.lits) \subseteq an.seen
  /\ an.seen \subseteq SeenVars(an.lits) \cup SeenVars(Open)
  /\ an.on = Cardinality(Open)
  /\ \/ an.on > 0
     \/ \E l \in an.cur : AtLevel(sol, l, DL(sol)) /\ Var(l) \notin an.seen
     \/ "integrate" \in Api /\ Panics
  /\ an.lits \cup Neg(an.cur) \cup Neg(Open) \in Sure
Resolved ==
  /\ AllFalse(sol, an.lits)
  /\ AtLevel(sol, an.uip, DL(sol))
  /\ an.seen = SeenVars(an.lits)
  /\ {-an.uip} \cup an.lits \in Sure
AnalysisInv == (pc = "analyze" => Resolving) /\ (pc = "learn" => Resolved)

DbInv == Clauses \subseteq Sure
Watched(c, w) == \E a, b \in c : a # b /\ w = {a, b}
WatchInv == \A c \in Explicit : Watched(c, watches[c])

Sound == SolverInv /\ ControlInv /\ AnalysisInv /\ DbInv /\ WatchInv

(* The calls for which this is an invariant. A program that lowers the     *)
(* backtrack level with set_backtrack_level can bring a flipped decision   *)
(* above it that is not the first literal of its level; when it backtracks *)
(* over models and integrates clauses as well, a clause may be false above *)
(* the backtrack level while the list of implied literals is active there. *)
CallsFit ==
  /\ "set_backtrack_level" \notin Api
  /\ "integrate" \notin Api \/ "backtrack_step" \notin Api

LEMMA SureGrows ==
  ASSUME NEW f, NEW F, NEW G, F \subseteq G
  PROVE  SureOf(f, F) \subseteq SureOf(f, G)
BY DEF SureOf, AllHold

LEMMA SureWider ==
  ASSUME NEW f, NEW F, NEW c \in SureOf(f, F), NEW d \in SUBSET Lit, c \subseteq d
  PROVE  d \in SureOf(f, F)
BY DEF SureOf

LEMMA CoreWider ==
  ASSUME NEW R, NEW Q, R \subseteq Q, NEW s
  PROVE  /\ Core(s, R) => Core(s, Q)
         /\ ConflictOk(s, R) => ConflictOk(s, Q)
         /\ SolverOk(s, R) => SolverOk(s, Q)
<1>1. \A t : Core(t, R) => Core(t, Q)
  BY DEF Core, TrailOk, Reasoned, ImpliedOk, EntryOk
<1>2. \A t : ConflictOk(t, R) => ConflictOk(t, Q)
  BY DEF ConflictOk
<1> QED
  BY <1>1, <1>2 DEF SolverOk, Whole

LEMMA PlainOk ==
  ASSUME NEW R, NEW s \in State, ~s.stop.set, Core(s, R), QueueOk(s), ConflictOk(s, R)
  PROVE  SolverOk(s, R)
<1>1. Base(s) = s
  BY BaseFacts
<1> QED
  BY <1>1 DEF SolverOk, Whole, QueueOk

LEMMA PlainCore ==
  ASSUME NEW R, NEW s \in State, ~s.stop.set, SolverOk(s, R)
  PROVE  Core(s, R) /\ QueueOk(s) /\ ConflictOk(s, R)
<1>1. Base(s) = s
  BY BaseFacts
<1> QED
  BY <1>1 DEF SolverOk, Whole

LEMMA HoldsOne ==
  ASSUME NEW m \in Assignments, NEW l \in Lit
  PROVE  (Holds(m, l) \/ Holds(m, -l)) /\ ~(Holds(m, l) /\ Holds(m, -l))
<1>1. Var(-l) = Var(l) /\ m[Var(l)] \in BOOLEAN /\ ((l > 0) <=> ~(-l > 0))
  BY LitFacts, Complements DEF Assignments
<1> QED
  BY <1>1 DEF Holds

(* What the clauses of R and the literals without a reason entail.         *)
LEMMA Entailed ==
  ASSUME NEW R, NEW s \in State, TrailShape(s), Reasoned(s, R), NEW n \in Nat, NEW m \in Assignments,
         \A c \in R : \E l \in c : Holds(m, l),
         \A i \in DOMAIN s.trail :
           s.trail[i].ante = NoAnte /\ s.trail[i].level <= n => Holds(m, s.trail[i].lit)
  PROVE  \A i \in DOMAIN s.trail : s.trail[i].level <= n => Holds(m, s.trail[i].lit)
<1>1. /\ DOMAIN s.trail = 1..Len(s.trail) /\ Len(s.trail) \in Nat
      /\ \A i \in DOMAIN s.trail : /\ s.trail[i].lit \in Lit /\ s.trail[i].level \in Nat
                                   /\ s.trail[i].ante \in SUBSET Lit
  BY Typed
<1> DEFINE S == {k \in Nat : \A i \in DOMAIN s.trail :
                   i <= k /\ s.trail[i].level <= n => Holds(m, s.trail[i].lit)}
<1>2. 0 \in S
  BY <1>1
<1>3. ASSUME NEW k \in Nat, k \in S
      PROVE  k + 1 \in S
  <2>1. \A i \in DOMAIN s.trail : i <= k /\ s.trail[i].level <= n => Holds(m, s.trail[i].lit)
    BY <1>3
  <2> SUFFICES ASSUME NEW i \in DOMAIN s.trail, i = k + 1, s.trail[i].level <= n
               PROVE  Holds(m, s.trail[i].lit)
    BY <1>1, <1>3, <2>1
  <2>2. CASE s.trail[i].ante = NoAnte
    BY <2>2
  <2>3. CASE s.trail[i].ante # NoAnte
    <3>1. PICK l \in s.trail[i].ante : Holds(m, l)
      BY <2>3 DEF Reasoned
    <3>2. ASSUME l # s.trail[i].lit PROVE FALSE
      <4>1. PICK j \in 1..(i - 1) : s.trail[j].lit = -l
        BY <2>3, <3>2 DEF Reasoned
      <4>2. j \in DOMAIN s.trail /\ j <= k /\ j <= i
        BY <1>1, <4>1
      <4>3. s.trail[j].level <= s.trail[i].level
        BY <4>2 DEF TrailShape
      <4>4. Holds(m, -l) /\ l \in Lit
        BY <1>1, <2>1, <4>1, <4>2, <4>3
      <4> QED
        BY <3>1, <4>4, HoldsOne
    <3> QED
      BY <3>1, <3>2
  <2> QED
    BY <2>2, <2>3
<1>4. \A k \in Nat : k \in S => k + 1 \in S
  BY <1>3
<1> HIDE DEF S
<1>5. Nat \subseteq S
  BY <1>2, <1>4, NatSetInduction
<1>6. \A k \in Nat : \A i \in DOMAIN s.trail :
        i <= k /\ s.trail[i].level <= n => Holds(m, s.trail[i].lit)
  BY <1>5 DEF S
<1> QED
  BY <1>1, <1>6

(***************************************************************************)
(* Steps outside of conflict analysis.                                     *)
(***************************************************************************)
(* The solver changes and the problem clauses do not: what was sure stays  *)
(* sure, as no fact is taken back.                                         *)
LEMMA SureStays ==
  ASSUME formula' = formula, Facts(sol) \subseteq Facts(sol')
  PROVE  Sure \subseteq Sure'
BY SureGrows DEF Sure

LEMMA StepOutside ==
  ASSUME formula' = formula, Facts(sol) \subseteq Facts(sol'), SolverOk(sol', Sure),
         DbInv, ~Busy', imps' \subseteq imps \cup Sure, Explicit' \subseteq Explicit \cup Sure
  PROVE  SolverInv' /\ AnalysisInv' /\ DbInv'
<1>1. Sure \subseteq Sure'
  BY SureStays
<1>2. SolverOk(sol', Sure')
  BY <1>1, CoreWider
<1>3. SolverInv' /\ AnalysisInv'
  BY <1>2 DEF SolverInv, AnalysisInv, Busy
<1>4. DbInv'
  BY <1>1 DEF DbInv, Clauses
<1> QED
  BY <1>3, <1>4

LEMMA StepKeepsDb ==
  ASSUME formula' = formula, Facts(sol) \subseteq Facts(sol'), SolverOk(sol', Sure),
         DbInv, WatchInv, ~Busy', imps' \subseteq imps \cup Sure, watches' = watches
  PROVE  SolverInv' /\ AnalysisInv' /\ DbInv' /\ WatchInv'
<1>1. Explicit' = Explicit /\ WatchInv'
  BY DEF Explicit, WatchInv
<1> QED
  BY <1>1, StepOutside

(* Nothing but the place in the code changes, or what was given away.      *)
LEMMA StepAside ==
  ASSUME Sound, ~Busy, ~Busy', formula' = formula, sol' = sol, imps' = imps, watches' = watches
  PROVE  SolverInv' /\ AnalysisInv' /\ DbInv' /\ WatchInv'
<1>1. SolverOk(sol', Sure)
  BY DEF Sound, SolverInv
<1>2. imps' \subseteq imps \cup Sure /\ Facts(sol) \subseteq Facts(sol')
  OBVIOUS
<1> QED
  BY <1>1, <1>2, StepKeepsDb DEF Sound

(* What is neither analysing nor stopped by set_stop_conflict.             *)
LEMMA PlainSol ==
  ASSUME TypeOK, LevelInv, Sound, ~Busy, ~sol.stop.set \/ ~sol.conflict.has
  PROVE  /\ Good(sol) /\ sol \in State /\ ~sol.stop.set /\ Core(sol, Sure) /\ QueueOk(sol)
         /\ ConflictOk(sol, Sure) /\ TrailShape(sol) /\ Reasoned(sol, Sure)
<1>1. Good(sol) /\ sol \in State
  BY GoodSol DEF Good
<1>2. SolverOk(sol, Sure)
  BY DEF Sound, SolverInv
<1>3. ~sol.stop.set
  BY <1>2 DEF SolverOk
<1> QED
  BY <1>1, <1>2, <1>3, PlainCore DEF Core, TrailOk

LEMMA SingleElement ==
  ASSUME NEW S, IsFiniteSet(S), Cardinality(S) <= 1, NEW l \in S
  PROVE  S = {l}
<1>1. IsFiniteSet(S \ {l}) /\ Cardinality(S \ {l}) = Cardinality(S) - 1
  BY FS_RemoveElement
<1>2. Cardinality(S) \in Nat /\ Cardinality(S \ {l}) \in Nat
  BY <1>1, FS_CardinalityType
<1>3. S \ {l} = {}
  BY <1>1, <1>2, FS_EmptySet
<1> QED
  BY <1>3

(* The core of a state, its queue and its conflict, do not depend on more. *)
LEMMA SameCore ==
  ASSUME NEW R, NEW s, NEW t, t.trail = s.trail, t.decisions = s.decisions, t.implied = s.implied,
         t.root = s.root, t.bt = s.bt
  PROVE  /\ Core(s, R) => Core(t, R)
         /\ t.conflict = s.conflict /\ ConflictOk(s, R) => ConflictOk(t, R)
         /\ Facts(t) = Facts(s)
<1>1. DL(t) = DL(s)
  BY DEF DL
<1>2. TrailOk(s, R) => TrailOk(t, R)
  BY <1>1 DEF TrailOk, TrailShape, Reasoned, DecisionsFirst
<1>3. ImpliedOk(s, R) => ImpliedOk(t, R)
  BY DEF ImpliedOk, EntryOk, TrueBy
<1>4. LiveHeld(s) => LiveHeld(t)
  BY DEF LiveHeld, TrueBy
<1>5. t.conflict = s.conflict /\ ConflictOk(s, R) => ConflictOk(t, R)
  BY <1>1 DEF ConflictOk, Current, AtLevel, IsTrue, TrueLits
<1>6. Facts(t) = Facts(s)
  BY DEF Facts
<1> QED
  BY <1>2, <1>3, <1>4, <1>5, <1>6 DEF Core

(***************************************************************************)
(* Propagation.                                                            *)
(***************************************************************************)
(* The literal that is being propagated.                                   *)
LEMMA HeadOfQueue ==
  ASSUME TypeOK, LevelInv, Sound, Propagating
  PROVE  /\ QHead \in Lit /\ -(-QHead) = QHead /\ sol.front + 1 \in DOMAIN sol.trail
         /\ DL(sol) > sol.bt => AtLevel(sol, QHead, DL(sol))
<1>1. sol \in State /\ QueueOk(sol)
  BY PlainSol DEF Propagating, Busy
<1>2. sol.front \in Nat /\ Len(sol.trail) \in Nat /\ DOMAIN sol.trail = 1..Len(sol.trail)
  BY <1>1, Typed
<1>3. sol.front + 1 \in DOMAIN sol.trail /\ sol.front + 1 > sol.front
  BY <1>1, <1>2 DEF Propagating, QueueEmpty, QueueOk
<1>4. QHead \in Lit
  BY <1>1, <1>3, Typed DEF QHead
<1>5. DL(sol) > sol.bt => sol.trail[sol.front + 1].level = DL(sol)
  BY <1>1, <1>3 DEF QueueOk
<1> QED
  BY <1>3, <1>4, <1>5, Complements DEF AtLevel, QHead

(* A clause of which all but one literal are false forces that literal.    *)
LEMMA ForcedStep ==
  ASSUME TypeOK, LevelInv, Sound, Propagating, NEW c \in Clauses, -QHead \in c, NEW l \in c,
         \A k \in c \ {l} : IsFalse(sol, k), sol' = ForceLit(sol, l, c)
  PROVE  SolverOk(sol', Sure) /\ Facts(sol) \subseteq Facts(sol')
<1>1. /\ Good(sol) /\ sol \in State /\ ~sol.stop.set /\ Core(sol, Sure) /\ QueueOk(sol)
      /\ ConflictOk(sol, Sure)
  BY PlainSol DEF Propagating, Busy
<1>2. c \in Sure /\ c \in SUBSET Lit /\ l \in Lit
  BY DEF Sound, DbInv, Sure, SureOf
<1>3. c # NoAnte
  BY DEF NoAnte
<1>4. Justified(sol, Sure, l, c) /\ MayAssign(sol, c)
  BY <1>2, <1>3 DEF Justified, MayAssign
<1>5. ConflictFits(sol, l, c)
  <2>1. QHead \in Neg(c)
    BY HeadOfQueue DEF Neg
  <2> QED
    BY <1>3, <2>1, HeadOfQueue DEF ConflictFits, Current
<1>6. /\ Good(sol') /\ Core(sol', Sure) /\ QueueOk(sol') /\ ConflictOk(sol', Sure)
      /\ Facts(sol) \subseteq Facts(sol')
  BY <1>1, <1>2, <1>4, <1>5, ForceCore
<1>7. sol'.stop = sol.stop
  BY <1>1, <1>2, ForceType DEF LevelsSame
<1> QED
  BY <1>1, <1>6, <1>7, PlainOk DEF Good

LEMMA PropagationSound ==
  ASSUME TypeOK, LevelInv, Sound, Propagation
  PROVE  Sound'
<1>1. /\ SolverInv /\ ControlInv /\ DbInv /\ WatchInv /\ pc = "prop" /\ ~Busy /\ formula' = formula
      /\ ret' = ret
  BY DEF Sound, Propagation, ForceByShort, MoveWatch, ForceByWatch, Dequeue, PropagateReturns,
         Propagating, Busy
<1>2. ASSUME pc' = "prop" PROVE ControlInv' /\ ~Busy'
  BY <1>1, <1>2 DEF ControlInv, Labels, Busy
<1>3. CASE ForceByShort
  <2>1. PICK c \in ShortPending : \E l \in Forced(c, c \ {-QHead}) : sol' = ForceLit(sol, l, c)
    BY <1>3 DEF ForceByShort
  <2>2. PICK l \in Forced(c, c \ {-QHead}) : sol' = ForceLit(sol, l, c)
    BY <2>1
  <2>3. c \in Clauses /\ -QHead \in c /\ Cardinality(NotFalse(c)) <= 1
    BY DEF ShortPending, Forcing, Clauses
  <2>4. l \in c /\ \A k \in c \ {l} : IsFalse(sol, k)
    <3>1. CASE NotFalse(c) = {}
      BY <2>2, <3>1 DEF Forced, NotFalse
    <3>2. CASE NotFalse(c) # {}
      <4>1. l \in NotFalse(c)
        BY <2>2, <3>2 DEF Forced
      <4>2. c \in SUBSET Lit
        BY <2>3, <1>1 DEF DbInv, Sure, SureOf
      <4>3. IsFiniteSet(NotFalse(c))
        BY <4>2, LitFinite, FS_Subset DEF NotFalse
      <4>4. NotFalse(c) = {l}
        BY <2>3, <4>1, <4>3, SingleElement
      <4> QED
        BY <4>1, <4>4 DEF NotFalse
    <3> QED
      BY <3>1, <3>2
  <2>5. SolverOk(sol', Sure) /\ Facts(sol) \subseteq Facts(sol')
    BY <1>3, <2>2, <2>3, <2>4, ForcedStep DEF ForceByShort
  <2>6. pc' = pc /\ imps' = imps /\ watches' = watches
    BY <1>3 DEF ForceByShort, db
  <2> QED
    BY <1>1, <1>2, <2>5, <2>6, StepKeepsDb DEF Sound
<1>4. CASE MoveWatch
  <2>1. PICK c \in WatchPending : \E l \in NotFalse(c) \ watches[c] :
          watches' = [watches EXCEPT ![c] = (@ \ {-QHead}) \cup {l}]
    BY <1>4 DEF MoveWatch
  <2>2. PICK l \in NotFalse(c) \ watches[c] :
          watches' = [watches EXCEPT ![c] = (@ \ {-QHead}) \cup {l}]
    BY <2>1
  <2>3. c \in Explicit /\ -QHead \in watches[c] /\ l \in c /\ l \notin watches[c]
    BY DEF WatchPending, NotFalse
  <2>4. Explicit' = Explicit
    BY <2>2 DEF Explicit
  <2>5. WatchInv'
    <3>1. PICK a \in c, b \in c : a # b /\ watches[c] = {a, b}
      BY <1>1, <2>3 DEF WatchInv, Watched
    <3>2. Watched(c, (watches[c] \ {-QHead}) \cup {l})
      <4>1. CASE -QHead = a
        <5>1. (watches[c] \ {-QHead}) \cup {l} = {b, l}
          BY <3>1, <4>1
        <5> QED
          BY <2>3, <3>1, <5>1 DEF Watched
      <4>2. CASE -QHead = b
        <5>1. (watches[c] \ {-QHead}) \cup {l} = {a, l}
          BY <3>1, <4>2
        <5> QED
          BY <2>3, <3>1, <5>1 DEF Watched
      <4> QED
        BY <2>3, <3>1, <4>1, <4>2
    <3>3. \A d \in Explicit : watches'[d] = IF d = c THEN (watches[c] \ {-QHead}) \cup {l} ELSE watches[d]
      BY <2>2, <2>3 DEF Explicit
    <3> QED
      BY <1>1, <2>4, <3>2, <3>3 DEF WatchInv, Watched
  <2>6. pc' = pc /\ imps' = imps /\ sol' = sol
    BY <1>4 DEF MoveWatch
  <2>7. SolverOk(sol', Sure)
    BY <1>1, <2>6 DEF SolverInv
  <2> QED
    BY <1>1, <1>2, <2>4, <2>5, <2>6, <2>7, StepOutside DEF Sound
<1>5. CASE ForceByWatch
  <2>1. PICK c \in WatchPending : /\ NotFalse(c) \subseteq watches[c]
                                  /\ \E l \in watches[c] \ {-QHead} : sol' = ForceLit(sol, l, c)
    BY <1>5 DEF ForceByWatch
  <2>2. PICK l \in watches[c] \ {-QHead} : sol' = ForceLit(sol, l, c)
    BY <2>1
  <2>3. c \in Clauses /\ c \in Explicit /\ -QHead \in watches[c]
    BY DEF WatchPending, Clauses
  <2>4. PICK a \in c, b \in c : a # b /\ watches[c] = {a, b}
    BY <1>1, <2>3 DEF WatchInv, Watched
  <2>5. -QHead \in c /\ l \in c /\ watches[c] = {-QHead, l}
    BY <2>2, <2>3, <2>4
  <2>6. Propagating
    BY <1>5 DEF ForceByWatch
  <2>7. IsFalse(sol, -QHead)
    <3>1. sol.front + 1 \in DOMAIN sol.trail /\ -(-QHead) = QHead
      BY <2>6, HeadOfQueue
    <3> QED
      BY <3>1 DEF IsFalse, TrueLits, QHead
  <2>8. \A k \in c \ {l} : IsFalse(sol, k)
    BY <2>1, <2>5, <2>7 DEF NotFalse
  <2>9. SolverOk(sol', Sure) /\ Facts(sol) \subseteq Facts(sol')
    BY <2>2, <2>3, <2>5, <2>6, <2>8, ForcedStep
  <2>10. pc' = pc /\ imps' = imps /\ watches' = watches
    BY <1>5 DEF ForceByWatch, db
  <2> QED
    BY <1>1, <1>2, <2>9, <2>10, StepKeepsDb DEF Sound
<1>6. CASE Dequeue
  <2>1. Propagating /\ pc' = pc /\ imps' = imps /\ watches' = watches
        /\ sol' = [sol EXCEPT !.front = sol.front + 1]
    BY <1>6 DEF Dequeue, db
  <2>2. /\ sol \in State /\ ~sol.stop.set /\ Core(sol, Sure) /\ QueueOk(sol) /\ ConflictOk(sol, Sure)
    BY <2>1, PlainSol DEF Propagating, Busy
  <2>3. /\ sol.front + 1 \in 1..Len(sol.trail) /\ sol.front + 1 \in Nat /\ sol.front \in Nat
        /\ DOMAIN sol.trail = 1..Len(sol.trail)
    BY <2>1, <2>2, HeadOfQueue, Typed
  <2>4. /\ sol' \in State /\ sol'.trail = sol.trail /\ sol'.decisions = sol.decisions
        /\ sol'.implied = sol.implied /\ sol'.root = sol.root /\ sol'.bt = sol.bt
        /\ sol'.conflict = sol.conflict /\ sol'.stop = sol.stop /\ sol'.front = sol.front + 1
    BY <2>1, <2>2, <2>3 DEF State
  <2>5. Core(sol', Sure) /\ ConflictOk(sol', Sure) /\ Facts(sol') = Facts(sol)
    BY <2>2, <2>4, SameCore
  <2>6. QueueOk(sol')
    BY <2>2, <2>3, <2>4 DEF QueueOk, DL
  <2>7. SolverOk(sol', Sure)
    BY <2>2, <2>4, <2>5, <2>6, PlainOk
  <2> QED
    BY <1>1, <1>2, <2>1, <2>5, <2>7, StepKeepsDb DEF Sound
<1>7. CASE PropagateReturns
  <2>1. /\ imps' = imps /\ watches' = watches /\ sol' = [sol EXCEPT !.front = Len(sol.trail)]
        /\ pc' = IF sol.conflict.has THEN ret.fail ELSE ret.ok
        /\ sol.conflict.has \/ QueueEmpty
    BY <1>7 DEF PropagateReturns, db
  <2>2. sol \in State /\ SolverOk(sol, Sure) /\ Len(sol.trail) \in Nat
        /\ DOMAIN sol.trail = 1..Len(sol.trail)
    BY <1>1, Typed DEF TypeOK, SolverInv
  <2>3. /\ sol' \in State /\ sol'.trail = sol.trail /\ sol'.decisions = sol.decisions
        /\ sol'.implied = sol.implied /\ sol'.root = sol.root /\ sol'.bt = sol.bt
        /\ sol'.conflict = sol.conflict /\ sol'.stop = sol.stop /\ sol'.front = Len(sol.trail)
    BY <2>1, <2>2 DEF State
  <2>4. SolverOk(sol', Sure)
    <3>1. CASE ~sol.stop.set
      <4>1. Core(sol, Sure) /\ ConflictOk(sol, Sure)
        BY <2>2, <3>1, PlainCore
      <4>2. Core(sol', Sure) /\ ConflictOk(sol', Sure)
        BY <2>3, <4>1, SameCore
      <4>3. QueueOk(sol')
        BY <2>2, <2>3 DEF QueueOk
      <4> QED
        BY <2>3, <3>1, <4>2, <4>3, PlainOk
    <3>2. CASE sol.stop.set
      <4>1. Base(sol') = Base(sol)
        BY <2>1, <2>2, <2>3, <3>2 DEF Base, ClearStopConflict, State
      <4>2. DL(sol') = DL(sol)
        BY <2>3 DEF DL
      <4> QED
        BY <2>2, <2>3, <4>1, <4>2 DEF SolverOk, Whole
    <3> QED
      BY <3>1, <3>2
  <2>5. Facts(sol) \subseteq Facts(sol')
    BY <2>3, SameCore
  <2>6. ret.ok \in {"idle", "ready", "simplify", "top", "after", "push"}
        /\ ret.fail \in {"idle", "resolve", "giveup"}
    BY <1>1 DEF ControlInv
  <2>7. ~Busy'
    BY <2>1, <2>6 DEF Busy
  <2>8. QueueEmpty'
    BY <2>3 DEF QueueEmpty
  <2>9. ControlInv'
    BY <1>1, <2>1, <2>3, <2>6, <2>8 DEF ControlInv, Labels, NothingToLose
  <2> QED
    BY <1>1, <2>1, <2>4, <2>5, <2>7, <2>9, StepKeepsDb DEF Sound
<1> QED
  BY <1>3, <1>4, <1>5, <1>6, <1>7 DEF Propagation

(***************************************************************************)
(* Simplification and the search loop, conflict analysis apart.            *)
(***************************************************************************)
(* Leaving out what is false at the top level takes nothing away.          *)
LEMMA SimplifiedSure ==
  ASSUME NEW f, NEW s \in State, TrailShape(s), Reasoned(s, SureOf(f, Facts(s))),
         NEW clauses \in SUBSET SureOf(f, Facts(s))
  PROVE  Simplified(clauses, s) \subseteq SureOf(f, Facts(s))
<1> DEFINE R == SureOf(f, Facts(s))
<1> SUFFICES ASSUME NEW d \in Simplified(clauses, s) PROVE d \in R
  OBVIOUS
<1>1. PICK c \in clauses : d = c \/ d = c \ Neg(TopLits(s))
  BY DEF Simplified
<1>2. c \in R /\ c \in SUBSET Lit /\ d \in SUBSET Lit
  BY <1>1 DEF SureOf
<1>3. ASSUME NEW m \in Assignments, Fulfils(m, f), AllHold(m, Facts(s))
      PROVE  \E l \in d : Holds(m, l)
  <2>1. \A k \in R : \E l \in k : Holds(m, l)
    BY <1>3 DEF SureOf
  <2>2. \A i \in DOMAIN s.trail : s.trail[i].ante = NoAnte /\ s.trail[i].level <= 0 => Holds(m, s.trail[i].lit)
    <3>1. \A i \in DOMAIN s.trail : s.trail[i].level <= 0 => s.trail[i].level = 0
      BY Typed
    <3> QED
      BY <1>3, <3>1 DEF Facts, AllHold
  <2> HIDE DEF R
  <2>3. \A i \in DOMAIN s.trail : s.trail[i].level <= 0 => Holds(m, s.trail[i].lit)
    BY <2>1, <2>2, Entailed, 0 \in Nat DEF R
  <2>4. PICK l \in c : Holds(m, l)
    BY <1>2, <2>1
  <2>5. l \notin Neg(TopLits(s))
    <3> SUFFICES ASSUME l \in Neg(TopLits(s)) PROVE FALSE
      OBVIOUS
    <3>1. PICK i \in DOMAIN s.trail : l = -s.trail[i].lit /\ s.trail[i].level = 0
      BY DEF Neg, TopLits
    <3>2. Holds(m, s.trail[i].lit) /\ s.trail[i].lit \in Lit
      BY <2>3, <3>1, Typed
    <3> QED
      BY <2>4, <3>1, <3>2, HoldsOne
  <2> QED
    BY <1>1, <2>4, <2>5
<1> QED
  BY <1>2, <1>3 DEF SureOf

LEMMA SimplifyStep ==
  ASSUME TypeOK, LevelInv, Sound, ~Busy, ~sol.conflict.has
  PROVE  Simplified(imps, sol) \subseteq Sure
<1>1. sol \in State /\ TrailShape(sol) /\ Reasoned(sol, Sure)
  BY PlainSol
<1>2. imps \subseteq Sure
  BY DEF Sound, DbInv, Clauses
<1> QED
  BY <1>1, <1>2, SimplifiedSure DEF Sure

LEMMA DecideStep ==
  ASSUME TypeOK, LevelInv, Sound, ~Busy, NothingToLose, NEW l \in FreeLits(sol), sol' = Assume(sol, l)
  PROVE  SolverOk(sol', Sure) /\ Facts(sol) \subseteq Facts(sol') /\ ~sol'.conflict.has
<1>1. Good(sol) /\ ~sol.stop.set /\ Core(sol, Sure) /\ ~sol.conflict.has /\ sol.front = Len(sol.trail)
  BY PlainSol DEF NothingToLose, QueueEmpty
<1>2. /\ Good(sol') /\ Core(sol', Sure) /\ QueueOk(sol') /\ ConflictOk(sol', Sure)
      /\ Facts(sol) \subseteq Facts(sol') /\ sol'.stop = sol.stop /\ ~sol'.conflict.has
  BY <1>1, AssumeCore
<1> QED
  BY <1>1, <1>2, PlainOk DEF Good

SearchAside == SearchTop \/ ModelFound \/ GiveUp \/ Refute \/ LimitReached \/ Continue

LEMMA SearchLoopSound ==
  ASSUME TypeOK, LevelInv, Sound,
         SearchAside \/ SearchSimplify \/ SimplifyTop \/ Decide \/ BacktrackOnly
  PROVE  Sound'
<1>1. SolverInv /\ ControlInv /\ DbInv /\ WatchInv /\ formula' = formula /\ watches' = watches
  BY DEF Sound, SearchAside, SearchTop, ModelFound, GiveUp, Refute, LimitReached, Continue,
         SearchSimplify, SimplifyTop, Decide, BacktrackOnly, db
<1>2. CASE SearchAside
  <2>1. sol' = sol /\ imps' = imps
    BY <1>2 DEF SearchAside, SearchTop, ModelFound, GiveUp, Refute, LimitReached, Continue, db
  <2>2. ~Busy /\ ~Busy'
    BY <1>2 DEF SearchAside, SearchTop, ModelFound, GiveUp, Refute, LimitReached, Continue, Busy,
                Call, Return
  <2>3. ControlInv'
    BY <1>1, <1>2, <2>1 DEF SearchAside, SearchTop, ModelFound, GiveUp, Refute, LimitReached, Continue,
       ControlInv, Labels, Call, Return, NothingToLose, QueueEmpty
  <2> QED
    BY <1>1, <2>1, <2>2, <2>3, StepAside DEF Sound
<1>3. CASE SearchSimplify \/ SimplifyTop
  <2>1. ~Busy /\ ~Busy' /\ sol' = sol /\ ~sol.conflict.has
    BY <1>1, <1>3 DEF SearchSimplify, SimplifyTop, Busy, Call, ControlInv, NothingToLose
  <2>2. imps' \subseteq imps \cup Sure
    BY <1>3, <2>1, SimplifyStep DEF SearchSimplify, SimplifyTop
  <2>3. ControlInv'
    BY <1>1, <1>3, <2>1 DEF SearchSimplify, SimplifyTop, ControlInv, Labels, Call, NothingToLose, QueueEmpty
  <2>4. SolverOk(sol', Sure) /\ Facts(sol) \subseteq Facts(sol')
    BY <1>1, <2>1 DEF SolverInv
  <2> QED
    BY <1>1, <2>1, <2>2, <2>3, <2>4, StepKeepsDb DEF Sound
<1>4. CASE Decide
  <2>1. ~Busy /\ ~Busy' /\ imps' = imps /\ NothingToLose
    BY <1>1, <1>4 DEF Decide, Call, ControlInv, Busy, db
  <2>2. PICK l \in FreeLits(sol) : sol' = Assume(sol, l)
    BY <1>4 DEF Decide
  <2>3. SolverOk(sol', Sure) /\ Facts(sol) \subseteq Facts(sol')
    BY <2>1, <2>2, DecideStep
  <2>4. ControlInv'
    BY <1>1, <1>4 DEF Decide, Call, ControlInv, Labels
  <2> QED
    BY <1>1, <2>1, <2>3, <2>4, StepKeepsDb DEF Sound
<1>5. CASE BacktrackOnly
  <2>1. ~Busy /\ ~Busy' /\ imps' = imps /\ DL(sol) > sol.root /\ sol' = Backtrack(sol, DL(sol) - 1)
    BY <1>5 DEF BacktrackOnly, Call, Busy, db
  <2>2. sol \in State /\ DL(sol) \in Nat /\ sol.root \in Nat
    BY Typed DEF TypeOK
  <2>3. ~sol.stop.set
    BY <1>1, <2>1, <2>2 DEF SolverInv, SolverOk
  <2>4. Good(sol) /\ Core(sol, Sure) /\ DL(sol) - 1 \in Nat
    BY <2>1, <2>2, <2>3, PlainSol
  <2>5. /\ Good(sol') /\ Core(sol', Sure) /\ QueueOk(sol') /\ ConflictOk(sol', Sure)
        /\ Facts(sol) \subseteq Facts(sol') /\ sol'.stop = sol.stop
    BY <2>1, <2>4, BacktrackCore
  <2>6. SolverOk(sol', Sure)
    BY <2>3, <2>5, PlainOk DEF Good
  <2>7. ControlInv'
    BY <1>1, <1>5 DEF BacktrackOnly, Call, ControlInv, Labels
  <2> QED
    BY <1>1, <2>1, <2>5, <2>6, <2>7, StepKeepsDb DEF Sound
<1> QED
  BY <1>2, <1>3, <1>4, <1>5

(***************************************************************************)
(* Conflict analysis.                                                      *)
(***************************************************************************)
LEMMA SameVar ==
  ASSUME NEW s \in State, TrailShape(s)
  PROVE  /\ TrueLits(s) \in SUBSET Lit /\ IsFiniteSet(TrueLits(s))
         /\ \A k, l \in TrueLits(s) : Var(k) = Var(l) => k = l
         /\ \A l, m, n : AtLevel(s, l, m) /\ AtLevel(s, l, n) => m = n
         /\ \A l, n : AtLevel(s, l, n) => l \in TrueLits(s) /\ n \in Nat /\ n <= DL(s)
         /\ \A l \in TrueLits(s) : \E n \in 0..DL(s) : AtLevel(s, l, n)
<1>1. TrueLits(s) \in SUBSET Lit
  BY Typed DEF TrueLits
<1>2. IsFiniteSet(TrueLits(s))
  BY <1>1, LitFinite, FS_Subset
<1>3. \A k, l \in TrueLits(s) : Var(k) = Var(l) => k = l
  BY DEF TrueLits, TrailShape
<1>4. \A l, m, n : AtLevel(s, l, m) /\ AtLevel(s, l, n) => m = n
  BY DEF AtLevel, TrailShape
<1>5. \A l, n : AtLevel(s, l, n) => l \in TrueLits(s) /\ n \in Nat /\ n <= DL(s)
  BY Typed DEF AtLevel, TrailShape, TrueLits
<1>6. \A l \in TrueLits(s) : \E n \in 0..DL(s) : AtLevel(s, l, n)
  <2>1. DL(s) \in Nat /\ \A i \in DOMAIN s.trail : s.trail[i].level \in 0..DL(s)
    BY Typed DEF TrailShape
  <2> QED
    BY <2>1 DEF AtLevel, TrueLits
<1> QED
  BY <1>1, <1>2, <1>3, <1>4, <1>5, <1>6

(* What analysis has got after visiting an antecedent and before it takes  *)
(* the last seen literal off the trail.                                    *)
Pending(s, R, lits, seen) ==
  /\ lits \in SUBSET Lit /\ AllFalse(s, lits)
  /\ SeenVars(lits) \subseteq seen
  /\ seen \subseteq SeenVars(lits) \cup SeenVars(OpenOf(s, seen))
  /\ lits \cup Neg(OpenOf(s, seen)) \in R
NewSeen == an.seen \cup SeenVars(NewReasons)
NewLits == an.lits \cup Neg(NewReasons \ OnLevel(NewReasons))
NewOn   == an.on + Cardinality(OnLevel(NewReasons))

LEMMA Visiting ==
  ASSUME TypeOK, Core(sol, Sure), Resolving, ~Panics
  PROVE  /\ Pending(sol, Sure, NewLits, NewSeen)
         /\ NewOn = Cardinality(OpenOf(sol, NewSeen)) /\ NewOn > 0 /\ NewOn \in Nat
<1> DEFINE new == NewReasons
           on  == OnLevel(new)
           open == OpenOf(sol, NewSeen)
<1>1. sol \in State /\ TrailShape(sol) /\ an.lits \in SUBSET Lit /\ an.cur \in SUBSET Lit /\ DL(sol) \in Nat
  BY Typed DEF TypeOK, Analysis, Core, TrailOk
<1>2. \A l \in new : l \in TrueLits(sol) /\ l \in Lit /\ AtLevel(sol, l, LevelOf(sol, l))
                     /\ LevelOf(sol, l) \in 1..DL(sol) /\ l \in an.cur /\ Var(l) \notin an.seen
  <2> SUFFICES ASSUME NEW l \in new
               PROVE  l \in TrueLits(sol) /\ l \in Lit /\ AtLevel(sol, l, LevelOf(sol, l))
                      /\ LevelOf(sol, l) \in 1..DL(sol) /\ l \in an.cur /\ Var(l) \notin an.seen
    OBVIOUS
  <2>1. l \in an.cur /\ Var(l) \notin an.seen /\ IsTrue(sol, l) /\ l \in Lit
    BY <1>1 DEF NewReasons, Resolving
  <2>2. AtLevel(sol, l, LevelOf(sol, l)) /\ LevelOf(sol, l) <= DL(sol) /\ LevelOf(sol, l) \in Nat
    BY <1>1, <2>1, TrueAt, LevelOfNat
  <2>3. LevelOf(sol, l) # 0
    BY DEF Panics
  <2> QED
    BY <1>1, <2>1, <2>2, <2>3 DEF IsTrue
<1>3. \A l \in new : l \in on <=> AtLevel(sol, l, DL(sol))
  BY <1>1, <1>2, SameVar DEF OnLevel
<1>4. on \subseteq new
  BY DEF OnLevel
<1> HIDE DEF new, on
<1>5. open = Open \cup on
  <2>1. \A l \in open : l \in Open \/ l \in on
    <3> SUFFICES ASSUME NEW l \in open, l \notin Open PROVE l \in on
      OBVIOUS
    <3>1. l \in TrueLits(sol) /\ AtLevel(sol, l, DL(sol)) /\ Var(l) \in SeenVars(new)
      BY DEF OpenOf, NewSeen, Open, new
    <3>2. PICK k \in new : Var(l) = Var(k)
      BY <3>1 DEF SeenVars
    <3>3. l = k
      BY <1>1, <1>2, <3>1, <3>2, SameVar
    <3> QED
      BY <1>3, <3>1, <3>3
  <2>2. \A l \in Open : l \in open
    BY DEF OpenOf, NewSeen, Open
  <2>3. \A l \in on : l \in open
    BY <1>2, <1>3, <1>4 DEF OpenOf, NewSeen, SeenVars, new
  <2> QED
    BY <2>1, <2>2, <2>3
<1>6. IsFiniteSet(Open) /\ IsFiniteSet(on) /\ Open \cap on = {}
  <2>1. Open \subseteq TrueLits(sol) /\ on \subseteq TrueLits(sol)
    BY <1>2, <1>4 DEF Open, OpenOf
  <2>2. Open \cap on = {}
    BY <1>2, <1>4 DEF Open, OpenOf
  <2> QED
    BY <1>1, <2>1, <2>2, SameVar, FS_Subset
<1>7. NewOn = Cardinality(open) /\ NewOn \in Nat /\ IsFiniteSet(open)
  <2>1. Cardinality(Open) \in Nat /\ Cardinality(on) \in Nat /\ Cardinality({}) = 0
    BY <1>6, FS_CardinalityType, FS_EmptySet
  <2>2. IsFiniteSet(Open \cup on)
        /\ Cardinality(Open \cup on) = Cardinality(Open) + Cardinality(on) - Cardinality(Open \cap on)
    BY <1>6, FS_Union
  <2>3. an.on = Cardinality(Open)
    BY DEF Resolving
  <2>4. Cardinality(Open \cap on) = 0
    BY <1>6, <2>1
  <2> QED
    BY <1>5, <2>1, <2>2, <2>3, <2>4 DEF NewOn, on, new
<1>8. open # {}
  <2>1. CASE an.on > 0
    <3>1. Open # {}
      <4>1. Cardinality({}) = 0 /\ an.on = Cardinality(Open)
        BY FS_EmptySet DEF Resolving
      <4> QED
        BY <2>1, <4>1
    <3> QED
      BY <1>5, <3>1
  <2>2. CASE \E l \in an.cur : AtLevel(sol, l, DL(sol)) /\ Var(l) \notin an.seen
    <3>1. \E l \in new : AtLevel(sol, l, DL(sol))
      BY <2>2 DEF new, NewReasons
    <3> QED
      BY <1>3, <1>5, <3>1
  <2> QED
    BY <2>1, <2>2 DEF Resolving
<1>9. NewOn > 0
  BY <1>7, <1>8, FS_EmptySet
<1>10. NewLits \in SUBSET Lit /\ AllFalse(sol, NewLits)
  <2>1. \A k \in new \ on : -k \in Lit /\ -(-k) = k /\ \E n \in 1..(DL(sol) - 1) : AtLevel(sol, k, n)
    <3> SUFFICES ASSUME NEW k \in new \ on
                 PROVE  -k \in Lit /\ -(-k) = k /\ \E n \in 1..(DL(sol) - 1) : AtLevel(sol, k, n)
      OBVIOUS
    <3>1. LevelOf(sol, k) # DL(sol)
      BY <1>2, <1>3
    <3>2. LevelOf(sol, k) \in 1..(DL(sol) - 1)
      BY <1>1, <1>2, <3>1
    <3> QED
      BY <1>2, <3>2, Complements
  <2>2. \A l \in NewLits : l \in an.lits \/ \E k \in new \ on : l = -k
    BY DEF NewLits, Neg, new, on
  <2>3. AllFalse(sol, an.lits)
    BY DEF Resolving
  <2> QED
    BY <1>1, <2>1, <2>2, <2>3 DEF AllFalse
<1>11. SeenVars(NewLits) \subseteq NewSeen
  <2>1. \A k \in new : Var(-k) = Var(k)
    BY <1>2, Complements
  <2> QED
    BY <2>1 DEF SeenVars, NewLits, NewSeen, Neg, new, Resolving
<1>12. NewSeen \subseteq SeenVars(NewLits) \cup SeenVars(open)
  <2> SUFFICES ASSUME NEW v \in NewSeen PROVE v \in SeenVars(NewLits) \cup SeenVars(open)
    OBVIOUS
  <2>1. CASE v \in an.seen
    <3>1. v \in SeenVars(an.lits) \/ v \in SeenVars(Open)
      BY <2>1 DEF Resolving
    <3> QED
      BY <1>5, <3>1 DEF SeenVars, NewLits
  <2>2. CASE v \in SeenVars(new)
    <3>1. PICK k \in new : v = Var(k)
      BY <2>2 DEF SeenVars
    <3>2. CASE k \in on
      BY <1>5, <3>1, <3>2 DEF SeenVars
    <3>3. CASE k \notin on
      <4>1. -k \in NewLits
        BY <3>3 DEF NewLits, Neg, new, on
      <4>2. Var(-k) = v
        BY <1>2, <3>1, Complements
      <4> QED
        BY <4>1, <4>2 DEF SeenVars
    <3> QED
      BY <3>2, <3>3
  <2> QED
    BY <2>1, <2>2 DEF NewSeen, new
<1>13. NewLits \cup Neg(open) \in Sure
  <2> DEFINE K == an.lits \cup Neg(an.cur) \cup Neg(Open)
  <2>1. K \in Sure
    BY DEF Resolving
  <2>2. NewLits \cup Neg(open) \in SUBSET Lit
    <3>1. open \in SUBSET Lit
      BY <1>1, SameVar DEF OpenOf
    <3> QED
      BY <1>10, <3>1, LitFacts
  <2>3. \A l \in an.cur : -l \in NewLits \cup Neg(open)
    <3> SUFFICES ASSUME NEW l \in an.cur PROVE -l \in NewLits \cup Neg(open)
      OBVIOUS
    <3>1. CASE l \in new
      BY <1>5, <3>1 DEF NewLits, Neg, new, on
    <3>2. CASE l \notin new
      <4>1. Var(l) \in an.seen /\ l \in TrueLits(sol) /\ l \in Lit
        BY <1>1, <3>2 DEF new, NewReasons, Resolving, IsTrue
      <4>2. CASE Var(l) \in SeenVars(an.lits)
        <5>1. PICK k \in an.lits : Var(l) = Var(k)
          BY <4>2 DEF SeenVars
        <5>2. -k \in TrueLits(sol) /\ Var(-k) = Var(k) /\ -(-k) = k
          <6>1. \E n : AtLevel(sol, -k, n)
            BY DEF Resolving, AllFalse
          <6> QED
            BY <1>1, <6>1, SameVar, Complements
        <5>3. l = -k
          BY <1>1, <4>1, <5>1, <5>2, SameVar
        <5> QED
          BY <5>2, <5>3 DEF NewLits
      <4>3. CASE Var(l) \in SeenVars(Open)
        <5>1. PICK k \in Open : Var(l) = Var(k)
          BY <4>3 DEF SeenVars
        <5>2. l = k
          BY <1>1, <4>1, <5>1, SameVar DEF Open, OpenOf
        <5> QED
          BY <1>5, <5>1, <5>2 DEF Neg
      <4> QED
        BY <4>1, <4>2, <4>3 DEF Resolving
    <3> QED
      BY <3>1, <3>2
  <2>4. K \subseteq NewLits \cup Neg(open)
    BY <1>5, <2>3 DEF Neg, NewLits
  <2> HIDE DEF K
  <2> QED
    BY <2>1, <2>2, <2>4, SureWider DEF Sure
<1> QED
  BY <1>7, <1>9, <1>10, <1>11, <1>12, <1>13 DEF Pending

(* Taking the last seen literal off the trail.                             *)
LEMMA TakingOff ==
  ASSUME NEW R, NEW s, Good(s), Core(s, R), s.bt < DL(s), NEW lits, NEW seen,
         Pending(s, R, lits, seen), OpenOf(s, seen) # {},
         NEW last \in DOMAIN s.trail, Var(s.trail[last].lit) \in seen,
         \A j \in DOMAIN s.trail : j > last => Var(s.trail[j].lit) \notin seen
  PROVE  LET t == [s EXCEPT !.trail = SubSeq(@, 1, last)]
             p == s.trail[last].lit
             ante == s.trail[last].ante
             rest == seen \ {Var(p)}
         IN /\ t \in State /\ Core(t, R) /\ Facts(s) \subseteq Facts(t)
            /\ t.bt = s.bt /\ DL(t) = DL(s) /\ t.stop = s.stop
            /\ p \in OpenOf(s, seen) /\ AtLevel(t, p, DL(t)) /\ p \in Lit
            /\ OpenOf(t, rest) = OpenOf(s, seen) \ {p}
            /\ AllFalse(t, lits)
            /\ SeenVars(lits) \subseteq rest
            /\ rest \subseteq SeenVars(lits) \cup SeenVars(OpenOf(t, rest))
            /\ OpenOf(s, seen) # {p} => /\ ante \in R /\ p \in ante
                                        /\ \A k \in ante \ {p} : IsTrue(t, -k)
<1> DEFINE t == [s EXCEPT !.trail = SubSeq(@, 1, last)]
           p == s.trail[last].lit
           ante == s.trail[last].ante
           rest == seen \ {Var(p)}
           open == OpenOf(s, seen)
<1>1. /\ s \in State /\ TrailShape(s) /\ Reasoned(s, R) /\ DecisionsFirst(s) /\ ImpliedOk(s, R) /\ LiveHeld(s)
      /\ DOMAIN s.trail = 1..Len(s.trail) /\ Len(s.trail) \in Nat /\ s.trail \in Seq(Entry)
      /\ DL(s) \in Nat /\ s.bt \in Nat /\ s.root \in Nat
      /\ \A i \in DOMAIN s.trail : s.trail[i].level \in Nat /\ s.trail[i].lit \in Lit
  BY Typed DEF Good, Core, TrailOk, State
<1>2. /\ SubSeq(s.trail, 1, last) \in Seq(Entry) /\ DOMAIN SubSeq(s.trail, 1, last) = 1..last
      /\ \A i \in 1..last : SubSeq(s.trail, 1, last)[i] = s.trail[i]
  <2>1. last \in 1..Len(s.trail) /\ \A i \in 1..last : s.trail[i] \in Entry
    BY <1>1
  <2> QED
    BY <1>1, <2>1, SubSeqProperties
<1>3. /\ t \in State /\ t.bt = s.bt /\ t.root = s.root /\ t.stop = s.stop /\ t.implied = s.implied
      /\ t.decisions = s.decisions /\ DL(t) = DL(s)
      /\ DOMAIN t.trail = 1..last /\ \A i \in 1..last : t.trail[i] = s.trail[i]
  BY <1>1, <1>2 DEF State, DL
<1> HIDE DEF t
<1>4. ASSUME NEW l \in open
      PROVE  \E i \in 1..last : s.trail[i].lit = l /\ s.trail[i].level = DL(s)
  <2>1. AtLevel(s, l, DL(s)) /\ Var(l) \in seen
    BY DEF OpenOf
  <2>2. PICK i \in DOMAIN s.trail : s.trail[i].lit = l /\ s.trail[i].level = DL(s)
    BY <2>1 DEF AtLevel
  <2>3. ~(i > last)
    BY <2>1, <2>2
  <2> QED
    BY <1>1, <2>2, <2>3
<1>5. s.trail[last].level = DL(s) /\ last \in 1..last
  <2>1. PICK l \in open : TRUE
    OBVIOUS
  <2>2. PICK i \in 1..last : s.trail[i].level = DL(s)
    BY <1>4, <2>1
  <2>3. i \in DOMAIN s.trail /\ i <= last /\ last \in 1..last
    BY <1>1, <2>2
  <2> QED
    BY <1>1, <2>2, <2>3 DEF TrailShape
<1>6. p \in open /\ AtLevel(t, p, DL(t)) /\ p \in Lit
  BY <1>1, <1>3, <1>5 DEF OpenOf, AtLevel, TrueLits
<1> HIDE DEF open, p
<1>7. Cut(s, t, DL(s) - 1)
  <2>1. \A i \in DOMAIN s.trail : s.trail[i].level <= DL(s) - 1 => i \in 1..last
    <3> SUFFICES ASSUME NEW i \in DOMAIN s.trail, s.trail[i].level <= DL(s) - 1 PROVE i \in 1..last
      OBVIOUS
    <3>1. ~(last <= i)
      <4>1. last <= i => s.trail[last].level <= s.trail[i].level
        BY <1>1 DEF TrailShape
      <4> QED
        BY <1>1, <1>5, <4>1
    <3> QED
      BY <1>1, <3>1
  <2> QED
    BY <1>1, <1>3, <2>1 DEF Cut
<1>8. DL(s) - 1 \in Nat /\ s.bt <= DL(s) - 1
  BY <1>1
<1>9. /\ TrailShape(t) /\ Reasoned(t, R) /\ DecisionsFirst(t) /\ Stays(s, t, DL(s) - 1)
      /\ Facts(s) \subseteq Facts(t)
  <2>1. \A i \in DOMAIN t.trail : t.trail[i].level <= DL(t)
    BY <1>1, <1>3, <1>7 DEF Cut, TrailShape
  <2>2. s.bt <= t.bt
    BY <1>1, <1>3
  <2> DEFINE n == DL(s) - 1
  <2>3. n \in Nat /\ Cut(s, t, n)
    BY <1>7, <1>8
  <2> HIDE DEF n
  <2>4. /\ TrailShape(t) /\ Reasoned(t, R) /\ DecisionsFirst(t) /\ Stays(s, t, n)
        /\ Facts(s) \subseteq Facts(t)
    BY <1>1, <1>3, <2>1, <2>2, <2>3, CutTrail
  <2> QED
    BY <2>4 DEF n
<1>10. Core(t, R)
  <2>1. Stays(s, t, s.bt)
    BY <1>1, <1>8, <1>9 DEF Stays
  <2>2. s.root <= t.root /\ s.bt <= t.bt
    BY <1>1, <1>3
  <2>3. ImpliedOk(t, R) /\ LiveHeld(t)
    BY <1>1, <1>3, <2>1, <2>2, ListKept
  <2> QED
    BY <1>9, <2>3 DEF Core, TrailOk
<1>11. \A l : \A n \in 1..(DL(s) - 1) : AtLevel(s, l, n) => AtLevel(t, l, n)
  BY <1>1, <1>8, <1>9, StaysTrue
<1>12. AllFalse(t, lits)
  BY <1>3, <1>11 DEF Pending, AllFalse
<1>13. \A l, n : AtLevel(t, l, n) => AtLevel(s, l, n)
  BY <1>1, <1>3 DEF AtLevel
<1>14. \A l \in lits : Var(l) # Var(p)
  <2> SUFFICES ASSUME NEW l \in lits, Var(l) = Var(p) PROVE FALSE
    OBVIOUS
  <2>1. PICK n \in 1..(DL(s) - 1) : AtLevel(s, -l, n)
    BY DEF Pending, AllFalse
  <2>2. l \in Lit /\ Var(-l) = Var(l)
    BY Complements DEF Pending
  <2>3. -l = p
    BY <1>1, <1>6, <2>1, <2>2, SameVar DEF open, OpenOf
  <2>4. AtLevel(s, p, DL(s))
    BY <1>6 DEF open, OpenOf
  <2> QED
    BY <1>1, <2>1, <2>3, <2>4, SameVar
<1>15. SeenVars(lits) \subseteq rest
  BY <1>14 DEF SeenVars, Pending
<1>16. OpenOf(t, rest) = open \ {p}
  <2>1. ASSUME NEW l \in OpenOf(t, rest) PROVE l \in open \ {p}
    <3>1. AtLevel(s, l, DL(s)) /\ Var(l) \in seen /\ Var(l) # Var(p)
      BY <1>3, <1>13, <2>1 DEF OpenOf
    <3>2. l \in TrueLits(s)
      BY <1>1, <3>1, SameVar
    <3> QED
      BY <3>1, <3>2 DEF open, OpenOf
  <2>2. ASSUME NEW l \in open \ {p} PROVE l \in OpenOf(t, rest)
    <3>1. PICK i \in 1..last : s.trail[i].lit = l /\ s.trail[i].level = DL(s)
      BY <1>4, <2>2 DEF open
    <3>2. AtLevel(t, l, DL(t)) /\ l \in TrueLits(t)
      BY <1>3, <3>1 DEF AtLevel, TrueLits
    <3>3. Var(l) \in seen /\ Var(l) # Var(p)
      BY <1>1, <1>6, <2>2, SameVar DEF open, OpenOf
    <3> QED
      BY <3>2, <3>3 DEF OpenOf
  <2> QED
    BY <2>1, <2>2
<1>17. rest \subseteq SeenVars(lits) \cup SeenVars(OpenOf(t, rest))
  <2> SUFFICES ASSUME NEW v \in seen, v # Var(p), v \notin SeenVars(lits)
               PROVE  v \in SeenVars(OpenOf(t, rest))
    OBVIOUS
  <2>1. v \in SeenVars(open)
    BY DEF Pending, open
  <2>2. PICK k \in open : v = Var(k)
    BY <2>1 DEF SeenVars
  <2> QED
    BY <1>16, <2>2 DEF SeenVars
<1>18. ASSUME open # {p} PROVE ante \in R /\ p \in ante /\ \A k \in ante \ {p} : IsTrue(t, -k)
  <2>1. PICK l \in open : l # p
    BY <1>6, <1>18
  <2>2. PICK i \in 1..last : s.trail[i].lit = l /\ s.trail[i].level = DL(s)
    BY <1>4, <2>1 DEF open
  <2>3. i \in 1..(last - 1)
    BY <1>1, <2>1, <2>2 DEF p
  <2>4. ante # NoAnte
    <3>1. s.trail[last].level > s.bt /\ ~(s.trail[i].level < s.trail[last].level)
      BY <1>1, <1>5, <2>2
    <3> QED
      BY <1>1, <2>3, <3>1 DEF DecisionsFirst
  <2>5. /\ ante \in R /\ p \in ante
        /\ \A k \in ante \ {p} : \E j \in 1..(last - 1) : s.trail[j].lit = -k
    BY <1>1, <2>4 DEF Reasoned, p
  <2>6. \A j \in 1..(last - 1) : j \in DOMAIN t.trail /\ t.trail[j] = s.trail[j]
    BY <1>1, <1>3
  <2> QED
    BY <2>5, <2>6 DEF IsTrue, TrueLits
<1> QED
  BY <1>3, <1>6, <1>9, <1>10, <1>12, <1>15, <1>16, <1>17, <1>18 DEF t, p, open

LEMMA StartAnalysisSound ==
  ASSUME TypeOK, LevelInv, Sound, StartAnalysis
  PROVE  Sound'
<1>1. /\ SolverInv /\ ControlInv /\ DbInv /\ WatchInv /\ pc = "resolve" /\ pc' = "analyze" /\ ~Busy
      /\ formula' = formula /\ sol' = sol /\ imps' = imps /\ watches' = watches /\ ret' = ret
      /\ sol.conflict.has /\ DL(sol) > sol.root /\ DL(sol) # sol.bt
      /\ an' = [NoAnalysis EXCEPT !.cur = sol.conflict.lits]
  BY DEF Sound, StartAnalysis, MustLearn, Busy, db
<1>2. sol \in State /\ DL(sol) \in Nat /\ sol.root \in Nat /\ sol.bt \in Nat /\ sol.bt <= DL(sol)
  BY Typed DEF TypeOK, LevelInv
<1>3. ~sol.stop.set
  BY <1>1, <1>2 DEF SolverInv, SolverOk
<1>4. Core(sol, Sure) /\ ConflictOk(sol, Sure) /\ TrailShape(sol) /\ sol.bt < DL(sol)
  BY <1>1, <1>2, <1>3, PlainSol
<1>5. /\ \A l \in sol.conflict.lits : IsTrue(sol, l)
      /\ Neg(sol.conflict.lits) \in Sure
      /\ Current(sol, sol.conflict.lits)
  BY <1>1, <1>2, <1>4 DEF ConflictOk
<1>6. an'.cur = sol.conflict.lits /\ an'.lits = {} /\ an'.seen = {} /\ an'.on = 0
  BY <1>1 DEF NoAnalysis
<1>7. Sure' = Sure
  BY <1>1 DEF Sure
<1>8. Resolving'
  <2>1. Open' = {}
    BY <1>6 DEF Open, OpenOf
  <2>2. \A l \in sol.conflict.lits : AtLevel(sol, l, 0) => LevelOf(sol, l) = 0
    <3>1. sol.conflict.lits \in SUBSET Lit
      BY <1>2 DEF State
    <3> QED
      BY <1>2, <1>4, <3>1, TrueAt
  <2>3. NewReasons' = sol.conflict.lits
    BY <1>6 DEF NewReasons
  <2>4. \/ \E l \in an'.cur : AtLevel(sol', l, DL(sol')) /\ Var(l) \notin an'.seen
        \/ "integrate" \in Api /\ Panics'
    BY <1>1, <1>5, <1>6, <2>2, <2>3 DEF Current, Panics
  <2>5. (an.lits \cup Neg(an.cur) \cup Neg(Open))' \in Sure'
    <3>1. Neg({}) = {}
      BY DEF Neg
    <3> QED
      BY <1>5, <1>6, <1>7, <2>1, <3>1
  <2>6. (an.on = Cardinality(Open))'
    BY <1>6, <2>1, FS_EmptySet
  <2>7. AllFalse(sol', an'.lits) /\ SeenVars(an'.lits) \subseteq an'.seen
    BY <1>6 DEF AllFalse, SeenVars
  <2> QED
    BY <1>1, <1>5, <1>6, <2>4, <2>5, <2>6, <2>7 DEF Resolving
<1>9. SolverInv' /\ AnalysisInv' /\ ControlInv'
  BY <1>1, <1>3, <1>4, <1>7, <1>8 DEF SolverInv, AnalysisInv, Busy, ControlInv, Labels
<1>10. DbInv' /\ WatchInv'
  BY <1>1, <1>7 DEF DbInv, WatchInv, Clauses, Explicit
<1> QED
  BY <1>9, <1>10 DEF Sound

LEMMA AnalysisPanicsSound ==
  ASSUME TypeOK, LevelInv, Sound, AnalysisPanics
  PROVE  Sound'
<1>1. /\ SolverInv /\ ControlInv /\ DbInv /\ WatchInv /\ Busy /\ pc' = "panic"
      /\ formula' = formula /\ sol' = sol /\ imps' = imps /\ watches' = watches /\ ret' = ret
  BY DEF Sound, AnalysisPanics, Busy, db
<1>2. Sure' = Sure
  BY <1>1 DEF Sure
<1>3. SolverInv' /\ AnalysisInv' /\ ControlInv'
  BY <1>1, <1>2 DEF SolverInv, AnalysisInv, Busy, ControlInv, Labels
<1>4. DbInv' /\ WatchInv'
  BY <1>1, <1>2 DEF DbInv, WatchInv, Clauses, Explicit
<1> QED
  BY <1>3, <1>4 DEF Sound

LEMMA AnalyzeSound ==
  ASSUME TypeOK, LevelInv, Sound, Analyze
  PROVE  Sound'
<1>1. /\ SolverInv /\ ControlInv /\ DbInv /\ WatchInv /\ pc = "analyze" /\ Busy /\ ~Panics /\ Resolving
      /\ formula' = formula /\ imps' = imps /\ watches' = watches /\ ret' = ret
  BY DEF Sound, AnalysisInv, Analyze, Busy, db
<1>2. Good(sol) /\ Core(sol, Sure) /\ ~sol.stop.set /\ sol.bt < DL(sol)
  BY <1>1, GoodSol DEF SolverInv
<1> DEFINE open == OpenOf(sol, NewSeen)
<1>3. /\ Pending(sol, Sure, NewLits, NewSeen)
      /\ NewOn = Cardinality(open) /\ NewOn > 0 /\ NewOn \in Nat
  BY <1>1, <1>2, Visiting
<1>4. PICK last \in DOMAIN sol.trail :
        /\ IsLastSeen(last, NewSeen)
        /\ sol' = [sol EXCEPT !.trail = SubSeq(@, 1, last)]
        /\ an' = [lits |-> NewLits, seen |-> NewSeen \ {Var(sol.trail[last].lit)},
                  on   |-> IF NewOn = 1 THEN 1 ELSE NewOn - 1,
                  cur  |-> IF NewOn = 1 THEN {} ELSE Neg(sol.trail[last].ante \ {sol.trail[last].lit}),
                  uip  |-> IF NewOn = 1 THEN sol.trail[last].lit ELSE 0]
        /\ pc' = IF NewOn = 1 THEN "learn" ELSE "analyze"
  BY DEF Analyze, NewSeen, NewLits, NewOn
<1> DEFINE p == sol.trail[last].lit
           ante == sol.trail[last].ante
           rest == NewSeen \ {Var(p)}
<1>5. open # {}
  BY <1>3, FS_EmptySet
<1>6. /\ sol' \in State /\ Core(sol', Sure) /\ Facts(sol) \subseteq Facts(sol')
      /\ sol'.bt = sol.bt /\ DL(sol') = DL(sol) /\ sol'.stop = sol.stop
      /\ p \in open /\ AtLevel(sol', p, DL(sol')) /\ p \in Lit
      /\ OpenOf(sol', rest) = open \ {p}
      /\ AllFalse(sol', NewLits)
      /\ SeenVars(NewLits) \subseteq rest
      /\ rest \subseteq SeenVars(NewLits) \cup SeenVars(OpenOf(sol', rest))
      /\ open # {p} => /\ ante \in Sure /\ p \in ante
                       /\ \A k \in ante \ {p} : IsTrue(sol', -k)
  <2>1. /\ Var(sol.trail[last].lit) \in NewSeen
        /\ \A j \in DOMAIN sol.trail : j > last => Var(sol.trail[j].lit) \notin NewSeen
    BY <1>4 DEF IsLastSeen
  <2> DEFINE t == [sol EXCEPT !.trail = SubSeq(@, 1, last)]
  <2>2. /\ t \in State /\ Core(t, Sure) /\ Facts(sol) \subseteq Facts(t)
        /\ t.bt = sol.bt /\ DL(t) = DL(sol) /\ t.stop = sol.stop
        /\ p \in open /\ AtLevel(t, p, DL(t)) /\ p \in Lit
        /\ OpenOf(t, rest) = open \ {p}
        /\ AllFalse(t, NewLits)
        /\ SeenVars(NewLits) \subseteq rest
        /\ rest \subseteq SeenVars(NewLits) \cup SeenVars(OpenOf(t, rest))
        /\ open # {p} => /\ ante \in Sure /\ p \in ante
                         /\ \A k \in ante \ {p} : IsTrue(t, -k)
    BY <1>2, <1>3, <1>5, <2>1, TakingOff
  <2>3. sol' = t
    BY <1>4
  <2> HIDE DEF t, p, ante, rest, open
  <2> QED
    BY <2>2, <2>3
<1>7. /\ IsFiniteSet(open) /\ open \in SUBSET Lit
  <2>1. open \subseteq TrueLits(sol)
    BY DEF OpenOf
  <2> QED
    BY <1>2, <2>1, SameVar, FS_Subset DEF Good, Core, TrailOk
<1>8. NewLits \cup Neg(open) \in Sure /\ NewLits \in SUBSET Lit
  BY <1>3 DEF Pending
<1>9. Sure \subseteq Sure'
  BY <1>1, <1>6, SureStays
<1> HIDE DEF open, p, ante, rest
<1>10. CASE NewOn = 1
  <2>1. pc' = "learn" /\ an'.lits = NewLits /\ an'.seen = rest /\ an'.uip = p
    BY <1>4, <1>10 DEF p, rest
  <2>2. open = {p}
    <3>1. Cardinality(open) <= 1
      BY <1>3, <1>10 DEF open
    <3> QED
      BY <1>6, <1>7, <3>1, SingleElement
  <2>3. OpenOf(sol', rest) = {}
    BY <1>6, <2>2
  <2>4. rest = SeenVars(NewLits)
    BY <1>6, <2>3 DEF SeenVars
  <2>5. {-p} \cup NewLits \in Sure'
    <3>1. NewLits \cup Neg(open) = {-p} \cup NewLits
      BY <2>2 DEF Neg
    <3> QED
      BY <1>8, <1>9, <3>1
  <2>6. Resolved'
    BY <1>6, <2>1, <2>4, <2>5 DEF Resolved
  <2> QED
    BY <1>1, <1>2, <1>6, <1>9, <2>1, <2>6, CoreWider
    DEF Sound, SolverInv, AnalysisInv, ControlInv, Labels, DbInv, WatchInv, Clauses, Explicit, Busy
<1>11. CASE NewOn # 1
  <2>1. /\ pc' = "analyze" /\ an'.lits = NewLits /\ an'.seen = rest /\ an'.on = NewOn - 1
        /\ an'.cur = Neg(ante \ {p})
    BY <1>4, <1>11 DEF p, ante, rest
  <2>2. Open' = open \ {p}
    BY <1>6, <2>1 DEF Open
  <2>3. Cardinality(open \ {p}) = NewOn - 1
    BY <1>3, <1>6, <1>7, FS_RemoveElement DEF open
  <2>4. open # {p}
    <3>1. Cardinality({p}) = 1
      BY FS_Singleton
    <3> QED
      BY <1>3, <1>11, <3>1 DEF open
  <2>5. ante \in Sure /\ p \in ante /\ \A k \in ante \ {p} : IsTrue(sol', -k)
    BY <1>6, <2>4
  <2>6. \A l \in an'.cur : IsTrue(sol', l)
    BY <2>1, <2>5 DEF Neg
  <2>7. ante \in SUBSET Lit /\ Neg(an'.cur) = ante \ {p}
    <3>1. ante \in SUBSET Lit
      BY <2>5 DEF Sure, SureOf
    <3>2. ante \ {p} \in SUBSET Lit
      BY <3>1
    <3> QED
      BY <2>1, <3>1, <3>2, NegNeg
  <2> DEFINE clause == NewLits \cup (ante \ {p}) \cup Neg(open \ {p})
  <2>8. clause \in Sure
    <3>1. clause \in SUBSET Lit
      <4>1. Neg(open \ {p}) \in SUBSET Lit
        BY <1>7, LitFacts
      <4> QED
        BY <1>8, <2>7, <4>1
    <3>2. ASSUME NEW m \in Assignments, Fulfils(m, formula), AllHold(m, Facts(sol))
          PROVE  \E l \in clause : Holds(m, l)
      <4>1. PICK l \in NewLits \cup Neg(open) : Holds(m, l)
        BY <1>8, <3>2 DEF Sure, SureOf
      <4>2. PICK k \in ante : Holds(m, k)
        BY <2>5, <3>2 DEF Sure, SureOf
      <4>3. CASE l = -p
        <5>1. k # p
          BY <1>6, <4>1, <4>2, <4>3, HoldsOne
        <5> QED
          BY <4>2, <5>1
      <4>4. CASE l # -p
        <5>1. l \in NewLits \cup Neg(open \ {p})
          BY <4>1, <4>4 DEF Neg
        <5> QED
          BY <4>1, <5>1
      <4> QED
        BY <4>3, <4>4
    <3> HIDE DEF clause
    <3> QED
      BY <3>1, <3>2 DEF Sure, SureOf
  <2>9. (an.lits \cup Neg(an.cur) \cup Neg(Open))' \in Sure'
    BY <1>9, <2>1, <2>2, <2>7, <2>8
  <2>10. an'.on > 0 /\ (an.on = Cardinality(Open))'
    BY <1>3, <1>11, <2>1, <2>2, <2>3
  <2>11. AllFalse(sol', an'.lits) /\ SeenVars(an'.lits) \subseteq an'.seen
         /\ (an.seen \subseteq SeenVars(an.lits) \cup SeenVars(Open))'
    BY <1>6, <2>1, <2>2
  <2>12. Resolving'
    BY <2>6, <2>9, <2>10, <2>11 DEF Resolving
  <2> QED
    BY <1>1, <1>2, <1>6, <1>9, <2>1, <2>12, CoreWider
    DEF Sound, SolverInv, AnalysisInv, ControlInv, Labels, DbInv, WatchInv, Clauses, Explicit, Busy
<1> QED
  BY <1>10, <1>11

(***************************************************************************)
(* Learning.                                                               *)
(***************************************************************************)
(* A literal whose reason was seen altogether may be left out: by its      *)
(* reason it is false when the rest of the clause is.                      *)
LEMMA Minimised ==
  ASSUME NEW f, NEW F, NEW s \in State, TrailShape(s), Reasoned(s, SureOf(f, F)),
         NEW lits \in SUBSET Lit, AllFalse(s, lits), NEW u \in Lit,
         {-u} \cup lits \in SureOf(f, F), NEW removed,
         \A l \in removed : /\ l \in lits /\ AnteOf(s, l) # NoAnte
                            /\ SeenVars(AnteOf(s, l) \ {-l}) \subseteq SeenVars(lits)
  PROVE  {-u} \cup (lits \ removed) \in SureOf(f, F)
<1> DEFINE R == SureOf(f, F)
           c == {-u} \cup (lits \ removed)
<1>1. c \in SUBSET Lit
  BY LitFacts
<1>2. /\ DOMAIN s.trail = 1..Len(s.trail) /\ Len(s.trail) \in Nat
      /\ \A i \in DOMAIN s.trail : s.trail[i].ante \in SUBSET Lit
  BY Typed
<1>3. ASSUME NEW m \in Assignments, Fulfils(m, f), AllHold(m, F), \A l \in c : ~Holds(m, l)
      PROVE  FALSE
  <2>1. \A d \in R : \E l \in d : Holds(m, l)
    BY <1>3 DEF SureOf
  <2> DEFINE S == {k \in Nat : \A l \in lits : \A i \in DOMAIN s.trail :
                                 s.trail[i].lit = -l /\ i <= k => ~Holds(m, l)}
  <2>2. 0 \in S
    BY <1>2
  <2>3. ASSUME NEW k \in Nat, k \in S PROVE k + 1 \in S
    <3>1. \A l \in lits : \A i \in DOMAIN s.trail : s.trail[i].lit = -l /\ i <= k => ~Holds(m, l)
      BY <2>3
    <3> SUFFICES ASSUME NEW l \in lits, NEW i \in DOMAIN s.trail, s.trail[i].lit = -l, i = k + 1
                 PROVE  ~Holds(m, l)
      BY <1>2, <2>3, <3>1
    <3>2. CASE l \notin removed
      BY <1>3, <3>2
    <3>3. CASE l \in removed
      <4>1. Var(s.trail[i].lit) = Var(l) /\ l \in Lit
        BY Complements
      <4>2. AnteOf(s, l) = s.trail[i].ante
        BY <4>1, LevelAt
      <4> DEFINE ante == s.trail[i].ante
      <4>3. /\ ante # NoAnte /\ SeenVars(ante \ {-l}) \subseteq SeenVars(lits)
            /\ ante \in R /\ ante \in SUBSET Lit
            /\ \A k1 \in ante \ {-l} : \E j \in 1..(i - 1) : s.trail[j].lit = -k1
        BY <1>2, <3>3, <4>2 DEF Reasoned
      <4> HIDE DEF ante, R
      <4>4. \A k1 \in ante \ {-l} : ~Holds(m, k1)
        <5> SUFFICES ASSUME NEW k1 \in ante \ {-l} PROVE ~Holds(m, k1)
          OBVIOUS
        <5>1. PICK j \in 1..(i - 1) : s.trail[j].lit = -k1
          BY <4>3
        <5>2. j \in DOMAIN s.trail /\ j <= k
          BY <1>2, <5>1
        <5>3. PICK k2 \in lits : Var(k1) = Var(k2)
          BY <4>3 DEF SeenVars
        <5>4. k1 = k2
          <6>1. -k2 \in TrueLits(s)
            <7>1. \E n : AtLevel(s, -k2, n)
              BY DEF AllFalse
            <7> QED
              BY <7>1 DEF AtLevel, TrueLits
          <6>2. -k1 \in TrueLits(s)
            BY <5>1, <5>2 DEF TrueLits
          <6>3. k1 \in Lit /\ k2 \in Lit /\ Var(-k1) = Var(k1) /\ Var(-k2) = Var(k2)
                /\ -(-k1) = k1 /\ -(-k2) = k2
            BY <4>3, Complements
          <6>4. -k1 = -k2
            BY <5>3, <6>1, <6>2, <6>3, SameVar
          <6> QED
            BY <6>3, <6>4
        <5> QED
          BY <3>1, <5>1, <5>2, <5>4
      <4>5. Holds(m, -l)
        BY <2>1, <4>3, <4>4
      <4> QED
        BY <4>1, <4>5, HoldsOne
    <3> QED
      BY <3>2, <3>3
  <2>4. \A k \in Nat : k \in S => k + 1 \in S
    BY <2>3
  <2> HIDE DEF S
  <2>5. Nat \subseteq S
    BY <2>2, <2>4, NatSetInduction
  <2>6. \A k \in Nat : \A l \in lits : \A i \in DOMAIN s.trail :
          s.trail[i].lit = -l /\ i <= k => ~Holds(m, l)
    BY <2>5 DEF S
  <2>7. \A l \in lits : ~Holds(m, l)
    <3> SUFFICES ASSUME NEW l \in lits PROVE ~Holds(m, l)
      OBVIOUS
    <3>1. PICK i \in DOMAIN s.trail : s.trail[i].lit = -l
      BY DEF AllFalse, AtLevel
    <3>2. i \in Nat /\ i <= i
      BY <1>2
    <3> QED
      BY <2>6, <3>1, <3>2
  <2>8. ~Holds(m, -u)
    BY <1>3
  <2> QED
    BY <2>1, <2>7, <2>8
<1> HIDE DEF c
<1>4. c \in SureOf(f, F)
  BY <1>1, <1>3 DEF SureOf
<1> QED
  BY <1>4 DEF c

LEMMA ForceAtLevelStop ==
  ASSUME NEW s \in State, NEW l \in Lit, NEW level \in Nat, NEW c \in SUBSET Lit
  PROVE  ForceAtLevel(s, l, level, c).stop = s.stop
<1> DEFINE entry == [lit |-> l, level |-> level, ante |-> c]
           u == UndoUntil(s, level)
           noted == IF DL(u) # level THEN AddImplied(u, entry) ELSE u
<1>1. u \in State /\ u.stop = s.stop
  BY UndoUntilType
<1>2. entry \in Entry
  BY DEF Entry
<1> HIDE DEF u, entry
<1>3. noted \in State /\ noted.stop = s.stop
  BY <1>1, <1>2, AddImpliedType DEF LevelsSame
<1> HIDE DEF noted
<1>4. SetReason(noted, l, c).stop = s.stop /\ ForceLit(noted, l, c).stop = s.stop
  BY <1>3, SetReasonType, ForceType DEF LevelsSame
<1>5. \A first : LET x == [s EXCEPT !.implied.lits[first] = entry]
                 IN SetReason(x, l, c).stop = s.stop
  BY DEF SetReason, State
<1>6. ForceImplied(s, l, level, c).stop = s.stop
  BY <1>4, <1>5 DEF ForceImplied, noted, u, entry
<1>7. ForceLit(s, l, c).stop = s.stop
  BY ForceType DEF LevelsSame
<1> QED
  BY <1>6, <1>7 DEF ForceAtLevel

(* The state Learn jumps back to, and the one in which the clause of the   *)
(* literal -u and the literals of tail has been created.                   *)
JumpedBack(s, l1) == UndoUntil(s, IF l1 = 0 THEN 0 ELSE LevelOf(s, l1))
Learnt(s, u, tail, l1) == Created(JumpedBack(s, l1), {-u} \cup tail, -u, l1)

(* The learnt clause is forced where the solver jumps back to. The literal *)
(* of the conflict level cannot have been forced false on the top level    *)
(* meanwhile.                                                              *)
LEMMA CreatedCore ==
  ASSUME NEW R, NEW s, Good(s), Core(s, R), s.bt < DL(s), NEW tail \in SUBSET Lit, AllFalse(s, tail),
         NEW u \in Lit, AtLevel(s, u, DL(s)), {-u} \cup tail \in R, NEW l1 \in Second(s, tail)
  PROVE  LET t == Learnt(s, u, tail, l1)
         IN /\ t \in State /\ Core(t, R) /\ QueueOk(t) /\ ConflictOk(t, R)
            /\ Facts(s) \subseteq Facts(t) /\ t.stop = s.stop
            /\ Cardinality({-u} \cup tail) # 1 => /\ l1 \in tail /\ l1 # -u
                                                  /\ ~IsEmpty(JumpedBack(s, l1), -u)
<1> DEFINE l0 == -u
           c == {l0} \cup tail
           level == IF l1 = 0 THEN 0 ELSE LevelOf(s, l1)
           back == UndoUntil(s, level)
           target == MaxOf(level, s.bt)
           t == Created(back, c, l0, l1)
<1>1. /\ s \in State /\ TrailShape(s) /\ s.bt \in Nat /\ DL(s) \in Nat /\ l0 \in Lit /\ c \in SUBSET Lit
      /\ c \in R /\ -l0 = u
  BY Typed, LitFacts, Complements DEF Good, Core, TrailOk
<1> HIDE DEF l0
<1>2. \A k \in tail : /\ AtLevel(s, -k, LevelOf(s, k)) /\ LevelOf(s, k) \in 1..(DL(s) - 1)
                      /\ k # l0
  <2> SUFFICES ASSUME NEW k \in tail
               PROVE  /\ AtLevel(s, -k, LevelOf(s, k)) /\ LevelOf(s, k) \in 1..(DL(s) - 1)
                      /\ k # l0
    OBVIOUS
  <2>1. PICK n \in 1..(DL(s) - 1) : AtLevel(s, -k, n)
    BY DEF AllFalse
  <2>2. LevelOf(s, k) = n
    BY <1>1, <2>1, TrueAt
  <2>3. n # DL(s)
    BY <1>1
  <2>4. -k # u
    BY <1>1, <2>1, <2>3, SameVar
  <2> QED
    BY <1>1, <2>1, <2>2, <2>4
<1>3. \/ tail = {} /\ l1 = 0 /\ level = 0
      \/ /\ l1 \in tail /\ l1 # 0 /\ l1 # l0 /\ level \in 1..(DL(s) - 1) /\ AtLevel(s, -l1, level)
         /\ \A k \in tail : LevelOf(s, k) <= level
  <2>1. CASE tail = {}
    BY <2>1 DEF Second
  <2>2. CASE tail # {}
    <3>1. l1 \in tail /\ \A k \in tail : LevelOf(s, k) <= LevelOf(s, l1)
      BY <2>2 DEF Second
    <3>2. l1 # 0
      BY <3>1, LitFacts
    <3> QED
      BY <1>2, <3>1, <3>2
  <2> QED
    BY <2>1, <2>2
<1> HIDE DEF level
<1>4. level \in Nat /\ level < DL(s) /\ target \in Nat /\ level <= target /\ s.bt <= target /\ target < DL(s)
      /\ MinOf(DL(s), target) = target
  BY <1>1, <1>3 DEF MaxOf, MinOf
<1>5. /\ Good(back) /\ Core(back, R) /\ QueueOk(back) /\ ConflictOk(back, R)
      /\ DL(back) = target /\ back.bt = s.bt
      /\ Facts(s) \subseteq Facts(back) /\ Stays(s, back, target)
      /\ NoneNew(s, back) \/ (DL(back) = back.bt /\ back.implied.level <= back.bt)
  BY <1>4, UndoKeep
<1>6. back.stop = s.stop
  BY <1>1, <1>4, UndoUntilType
<1> HIDE DEF target, back
<1>7. back \in State /\ TrailShape(back)
  BY <1>5 DEF Good, Core, TrailOk
<1>8. \A l : \A n \in Nat : n <= level /\ AtLevel(s, l, n) => AtLevel(back, l, n)
  BY <1>1, <1>4, <1>5, StaysTrue
<1>9. IsFalse(back, l0) => back.implied.level <= back.bt
  <2> SUFFICES ASSUME NoneNew(s, back), IsFalse(back, l0) PROVE FALSE
    BY <1>5
  <2>1. PICK n : AtLevel(back, u, n) /\ n <= DL(back)
    BY <1>1, <1>7, TrueAt
  <2>2. AtLevel(s, u, n)
    BY <2>1 DEF NoneNew, AtLevel
  <2> QED
    BY <1>1, <1>4, <1>5, <2>1, <2>2, SameVar
<1>10. CASE tail = {}
  <2>1. c = {l0} /\ Cardinality(c) = 1
    BY <1>10, FS_Singleton
  <2>2. target = s.bt
    BY <1>1, <1>3, <1>10 DEF target, MaxOf
  <2>3. t = back \/ t = ForceLit(back, l0, {l0})
    BY <2>1 DEF Created, AddUnit
  <2>4. Justified(back, R, l0, {l0}) /\ MayAssign(back, {l0}) /\ ConflictFits(back, l0, {l0})
    BY <1>1, <1>4, <1>5, <2>1, <2>2 DEF Justified, MayAssign, ConflictFits, NoAnte
  <2> DEFINE x == ForceLit(back, l0, {l0})
  <2>5. /\ Good(x) /\ Core(x, R) /\ QueueOk(x) /\ ConflictOk(x, R) /\ Facts(back) \subseteq Facts(x)
    BY <1>1, <1>5, <2>1, <2>4, ForceCore
  <2>6. x.stop = back.stop
    BY <1>1, <1>7, <2>1, ForceType DEF LevelsSame
  <2> HIDE DEF x, t
  <2>7. t = back \/ t = x
    BY <2>3 DEF x
  <2>8. t \in State /\ Core(t, R) /\ QueueOk(t) /\ ConflictOk(t, R)
        /\ Facts(s) \subseteq Facts(t) /\ t.stop = s.stop
    BY <1>5, <1>6, <1>7, <2>5, <2>6, <2>7 DEF Good
  <2> HIDE DEF c
  <2> QED
    BY <2>1, <2>8 DEF t, c, back, l0, level, Learnt, JumpedBack
<1>11. CASE tail # {}
  <2>1. /\ l1 \in tail /\ l1 # 0 /\ l1 # l0 /\ level \in 1..(DL(s) - 1) /\ AtLevel(s, -l1, level)
        /\ \A k \in tail : LevelOf(s, k) <= level
    BY <1>3, <1>11
  <2>2. Cardinality(c) # 1
    <3>1. IsFiniteSet(c)
      BY <1>1, LitFinite, FS_Subset
    <3>2. ASSUME Cardinality(c) = 1 PROVE FALSE
      <4>1. Cardinality(c) <= 1
        BY <3>2
      <4>2. c = {l0}
        BY <3>1, <4>1, SingleElement
      <4> QED
        BY <2>1, <4>2
    <3> QED
      BY <3>2
  <2>3. AtLevel(back, -l1, level)
    BY <1>4, <1>8, <2>1
  <2>4. LevelOf(back, l1) = level
    BY <1>7, <2>1, <2>3, TrueAt
  <2>5. \A k \in c \ {l0} : TrueBy(back, -k, level)
    <3> SUFFICES ASSUME NEW k \in tail PROVE TrueBy(back, -k, level)
      BY DEF c
    <3>1. AtLevel(back, -k, LevelOf(s, k)) /\ LevelOf(s, k) <= level
      BY <1>2, <1>8, <2>1
    <3> QED
      BY <3>1 DEF AtLevel, TrueBy
  <2>6. \E k \in c \ {l0} : AtLevel(back, -k, level)
    BY <2>1, <2>3
  <2> DEFINE x == ForceAtLevel(back, l0, level, c)
  <2> HIDE DEF c
  <2>7. l0 \in c /\ level <= DL(back)
    BY <1>4, <1>5 DEF c
  <2>8. /\ Good(x) /\ Core(x, R) /\ Facts(back) \subseteq Facts(x) /\ QueueOk(x) /\ ConflictOk(x, R)
    BY <1>1, <1>4, <1>5, <1>9, <2>5, <2>6, <2>7, ForceAtLevelCore
  <2>9. x.stop = back.stop
    BY <1>1, <1>4, <1>7, ForceAtLevelStop
  <2>10. t = back \/ t = x
    BY <2>1, <2>2, <2>4 DEF Created, Asserted
  <2>11. ~IsEmpty(back, l0)
    <3> SUFFICES ASSUME IsFalse(back, l0), LevelOf(back, l0) = 0 PROVE FALSE
      BY DEF IsEmpty
    <3>1. AtLevel(back, u, 0)
      BY <1>1, <1>7, TrueAt
    <3>2. PICK i \in DOMAIN back.trail : back.trail[i].lit = u /\ back.trail[i].level = 0
      BY <3>1 DEF AtLevel
    <3>3. PICK j \in DOMAIN s.trail : s.trail[j].lit = -l1 /\ s.trail[j].level = level
      BY <2>1 DEF AtLevel
    <3>4. j \in DOMAIN back.trail /\ back.trail[j].level = level
      BY <1>4, <1>5, <3>3 DEF Stays
    <3>5. DOMAIN back.trail = 1..Len(back.trail) /\ Len(back.trail) \in Nat
          /\ DOMAIN s.trail = 1..Len(s.trail) /\ Len(s.trail) \in Nat
      BY <1>1, <1>7, Typed
    <3>6. ~(j <= i)
      <4>1. j <= i => back.trail[j].level <= back.trail[i].level
        BY <1>7, <3>2, <3>4 DEF TrailShape
      <4> QED
        BY <2>1, <3>2, <3>4, <4>1
    <3>7. i \in DOMAIN s.trail /\ i <= j
      BY <3>2, <3>3, <3>5, <3>6
    <3>8. s.trail[i].level <= level /\ s.trail[i].level \in Nat
      BY <1>1, <3>3, <3>7, Typed DEF TrailShape
    <3>9. s.trail[i].lit = u /\ s.trail[i].level = 0
      BY <1>4, <1>5, <3>2, <3>7, <3>8 DEF Stays
    <3>10. AtLevel(s, u, 0)
      BY <3>7, <3>9 DEF AtLevel
    <3> QED
      BY <1>1, <1>4, <3>10, SameVar
  <2> HIDE DEF x, t
  <2>12. t \in State /\ Core(t, R) /\ QueueOk(t) /\ ConflictOk(t, R)
         /\ Facts(s) \subseteq Facts(t) /\ t.stop = s.stop
    BY <1>5, <1>6, <1>7, <2>8, <2>9, <2>10 DEF Good
  <2> QED
    BY <2>1, <2>11, <2>12 DEF t, c, back, l0, level, Learnt, JumpedBack
<1> HIDE DEF t, c, back
<1> QED
  BY <1>10, <1>11

LEMMA LearnSound ==
  ASSUME TypeOK, LevelInv, Sound, Learn
  PROVE  Sound'
<1>1. /\ SolverInv /\ ControlInv /\ DbInv /\ WatchInv /\ pc = "learn" /\ Busy /\ Resolved
      /\ formula' = formula
  BY DEF Sound, AnalysisInv, Learn, Busy
<1>2. /\ Good(sol) /\ Core(sol, Sure) /\ ~sol.stop.set /\ sol.bt < DL(sol) /\ an.lits \in SUBSET Lit
      /\ sol \in State /\ TrailShape(sol) /\ Reasoned(sol, Sure) /\ an.uip \in Lit
  BY <1>1, GoodSol DEF SolverInv, Good, TypeOK, Analysis, Core, TrailOk
<1> DEFINE u == an.uip
           l0 == -u
<1>3. PICK removed \in {{}, Removable} : \E l1 \in Second(sol, an.lits \ removed) :
        LET c == {l0} \cup (an.lits \ removed)
            back == UndoUntil(sol, IF l1 = 0 THEN 0 ELSE LevelOf(sol, l1))
        IN /\ sol' = Created(back, c, l0, l1)
           /\ imps' = IF Subsumed(back, l0) THEN imps ELSE StoreImp(c)
           /\ watches' = IF Subsumed(back, l0) THEN watches ELSE StoreExplicit(c, {l0, l1})
           /\ IF sol'.conflict.has \/ (IsEmpty(back, l0) /\ Cardinality(c) > 1)
              THEN pc' = "after" /\ UNCHANGED ret
              ELSE Call("after", "resolve")
  BY DEF Learn
<1> DEFINE tail == an.lits \ removed
           c == {l0} \cup tail
<1>4. PICK l1 \in Second(sol, tail) :
        LET back == UndoUntil(sol, IF l1 = 0 THEN 0 ELSE LevelOf(sol, l1))
        IN /\ sol' = Created(back, c, l0, l1)
           /\ imps' = IF Subsumed(back, l0) THEN imps ELSE StoreImp(c)
           /\ watches' = IF Subsumed(back, l0) THEN watches ELSE StoreExplicit(c, {l0, l1})
           /\ IF sol'.conflict.has \/ (IsEmpty(back, l0) /\ Cardinality(c) > 1)
              THEN pc' = "after" /\ UNCHANGED ret
              ELSE Call("after", "resolve")
  BY <1>3
<1> DEFINE back == UndoUntil(sol, IF l1 = 0 THEN 0 ELSE LevelOf(sol, l1))
<1>5. \A l \in removed : /\ l \in an.lits /\ AnteOf(sol, l) # NoAnte
                         /\ SeenVars(AnteOf(sol, l) \ {-l}) \subseteq SeenVars(an.lits)
  BY <1>1 DEF Removable, Resolved
<1>6. AllFalse(sol, an.lits) /\ {-u} \cup an.lits \in Sure /\ AtLevel(sol, u, DL(sol))
  BY <1>1 DEF Resolved
<1> HIDE DEF u
<1>7. u \in Lit
  BY <1>2 DEF u
<1>8. {-u} \cup tail \in Sure
  BY <1>2, <1>5, <1>6, <1>7, Minimised DEF Sure
<1>9. tail \in SUBSET Lit /\ AllFalse(sol, tail)
  BY <1>2, <1>6 DEF AllFalse
<1> HIDE DEF tail
<1>10. /\ sol' \in State /\ Core(sol', Sure) /\ QueueOk(sol') /\ ConflictOk(sol', Sure)
       /\ Facts(sol) \subseteq Facts(sol') /\ sol'.stop = sol.stop
       /\ Cardinality(c) # 1 => l1 \in tail /\ l1 # l0 /\ ~IsEmpty(back, l0)
  <2>1. sol' = Learnt(sol, u, tail, l1) /\ back = JumpedBack(sol, l1)
    BY <1>4 DEF Learnt, JumpedBack
  <2> HIDE DEF back
  <2> QED
    BY SMTT(40), <1>2, <1>6, <1>7, <1>8, <1>9, <2>1, CreatedCore
<1>11. /\ imps' \subseteq imps \cup {c}
       /\ watches' = watches \/ watches' = StoreExplicit(c, {l0, l1})
  BY <1>4 DEF StoreImp
<1>12. IF sol'.conflict.has \/ (IsEmpty(back, l0) /\ Cardinality(c) > 1)
       THEN pc' = "after" /\ ret' = ret
       ELSE Call("after", "resolve")
  BY <1>4
<1> HIDE DEF back
<1>13. c \in Sure /\ c \in SUBSET Lit /\ Cardinality(c) \in Nat
  <2>1. c \in Sure /\ c \in SUBSET Lit
    BY <1>8 DEF Sure, SureOf
  <2> QED
    BY <2>1, LitFinite, FS_Subset, FS_CardinalityType
<1>14. Cardinality(c) > 1 => l1 \in c /\ l0 \in c /\ l1 # l0 /\ ~IsEmpty(back, l0)
  BY <1>10, <1>13
<1> HIDE DEF c, l0
<1>15. Explicit' \subseteq Explicit \cup {c} /\ WatchInv'
  <2>1. CASE watches' = watches
    BY <1>1, <2>1 DEF Explicit, WatchInv
  <2>2. CASE watches' # watches
    <3>1. /\ Cardinality(c) > 3 /\ c \notin Explicit
          /\ watches' = [k \in Explicit \cup {c} |-> IF k = c THEN {l0, l1} ELSE watches[k]]
      BY <1>11, <2>2 DEF StoreExplicit
    <3>2. Explicit' = Explicit \cup {c}
      BY <3>1 DEF Explicit
    <3>3. Watched(c, {l0, l1})
      <4>1. Cardinality(c) > 1
        BY <1>13, <3>1
      <4> QED
        BY <1>14, <4>1 DEF Watched
    <3>4. \A k \in Explicit \cup {c} : watches'[k] = IF k = c THEN {l0, l1} ELSE watches[k]
      BY <3>1
    <3> QED
      BY <1>1, <3>2, <3>3, <3>4 DEF WatchInv
  <2> QED
    BY <2>1, <2>2
<1>16. SolverOk(sol', Sure)
  BY <1>2, <1>10, PlainOk
<1>17. ~Busy'
  BY <1>12 DEF Busy, Call
<1>18. ControlInv'
  <2>1. \/ pc' = "prop" /\ ret' = [ok |-> "after", fail |-> "resolve"]
        \/ pc' = "after" /\ ret' = ret /\ sol'.conflict.has
    BY <1>12, <1>14 DEF Call
  <2> QED
    BY <1>1, <2>1 DEF ControlInv, Labels
<1>19. SolverInv' /\ AnalysisInv' /\ DbInv'
  BY <1>1, <1>10, <1>11, <1>13, <1>15, <1>16, <1>17, StepOutside
<1> QED
  BY <1>15, <1>18, <1>19 DEF Sound

(***************************************************************************)
(* The other steps of the program.                                         *)
(***************************************************************************)
LEMMA SearchSound ==
  ASSUME TypeOK, LevelInv, Sound, SearchStep
  PROVE  Sound'
BY SearchLoopSound, StartAnalysisSound, AnalysisPanicsSound, AnalyzeSound, LearnSound
DEF SearchStep, SearchAside

(* Facts are only forced on the top level, which is then the backtrack     *)
(* level.                                                                  *)
LEMMA AddFactSound ==
  ASSUME TypeOK, LevelInv, Sound, AddFact
  PROVE  Sound'
<1>1. /\ SolverInv /\ ControlInv /\ DbInv /\ WatchInv /\ pc = "init" /\ pc' = "init" /\ ~Busy /\ ~Busy'
      /\ formula' = formula /\ imps' = imps /\ watches' = watches /\ ret' = ret
      /\ ~sol.conflict.has /\ DL(sol) = 0
  BY DEF Sound, AddFact, Busy, ControlInv, db
<1>2. PICK l \in UnitLits(formula) : sol' = ForceLit(sol, l, NoAnte)
  BY DEF AddFact
<1>3. l \in Lit /\ NoAnte \in SUBSET Lit
  BY DEF UnitLits, NoAnte
<1>4. /\ Good(sol) /\ sol \in State /\ ~sol.stop.set /\ Core(sol, Sure) /\ QueueOk(sol)
      /\ ConflictOk(sol, Sure)
  BY <1>1, PlainSol
<1>5. ~(DL(sol) > sol.bt) /\ DL(sol) <= sol.bt
  BY <1>1, <1>4, Typed
<1>6. Justified(sol, Sure, l, NoAnte) /\ MayAssign(sol, NoAnte) /\ ConflictFits(sol, l, NoAnte)
  BY <1>5 DEF Justified, MayAssign, ConflictFits
<1>7. /\ Good(sol') /\ Core(sol', Sure) /\ QueueOk(sol') /\ ConflictOk(sol', Sure)
      /\ Facts(sol) \subseteq Facts(sol') /\ DL(sol') = DL(sol)
  BY <1>2, <1>3, <1>4, <1>6, ForceCore
<1>8. sol'.stop = sol.stop
  BY <1>2, <1>3, <1>4, ForceType DEF LevelsSame
<1>9. SolverOk(sol', Sure)
  BY <1>4, <1>7, <1>8, PlainOk DEF Good
<1>10. ControlInv'
  BY <1>1, <1>7 DEF ControlInv, Labels
<1> QED
  BY <1>1, <1>7, <1>9, <1>10, StepKeepsDb DEF Sound

LEMMA PushRootAssumeSound ==
  ASSUME TypeOK, LevelInv, Sound, PushRootAssume
  PROVE  Sound'
<1>1. /\ SolverInv /\ ControlInv /\ DbInv /\ WatchInv /\ pc = "push" /\ ~Busy /\ NothingToLose
      /\ formula' = formula /\ imps' = imps /\ watches' = watches
  BY DEF Sound, PushRootAssume, Busy, ControlInv, db
<1>2. CASE arg \in FreeLits(sol)
  <2>1. /\ sol' = PushRootLevel(Assume(sol, arg), 1) /\ pc' = "prop"
        /\ ret' = [ok |-> "idle", fail |-> "idle"]
    BY <1>2 DEF PushRootAssume, Call
  <2>2. Good(sol) /\ ~sol.stop.set /\ Core(sol, Sure) /\ ~sol.conflict.has /\ sol.front = Len(sol.trail)
    BY <1>1, PlainSol DEF NothingToLose, QueueEmpty
  <2> DEFINE t == Assume(sol, arg)
  <2>3. /\ Good(t) /\ Core(t, Sure) /\ QueueOk(t) /\ ConflictOk(t, Sure)
        /\ Facts(sol) \subseteq Facts(t) /\ t.stop = sol.stop
    BY <1>2, <2>2, AssumeCore
  <2>4. sol' = PushRootLevel(t, 1)
    BY <2>1
  <2> HIDE DEF t
  <2>5. /\ Good(sol') /\ Core(sol', Sure) /\ QueueOk(sol') /\ ConflictOk(sol', Sure)
        /\ sol'.trail = t.trail /\ sol'.stop = t.stop
    BY <2>3, <2>4, PushRootLevelCore
  <2>6. Facts(sol) \subseteq Facts(sol')
    BY <2>3, <2>5 DEF Facts
  <2>7. SolverOk(sol', Sure)
    BY <2>2, <2>3, <2>5, PlainOk DEF Good
  <2>8. ControlInv' /\ ~Busy'
    BY <1>1, <2>1 DEF ControlInv, Labels, Busy
  <2> QED
    BY <1>1, <2>6, <2>7, <2>8, StepKeepsDb DEF Sound
<1>3. CASE arg \notin FreeLits(sol)
  <2>1. pc' = "idle" /\ sol' = sol /\ ret' = ret
    BY <1>3 DEF PushRootAssume
  <2>2. ControlInv' /\ ~Busy'
    BY <1>1, <2>1 DEF ControlInv, Labels, Busy
  <2> QED
    BY <1>1, <2>1, <2>2, StepAside DEF Sound
<1> QED
  BY <1>2, <1>3

LEMMA SetStopStep ==
  ASSUME TypeOK, LevelInv, Sound, ~Busy, sol' = SetStopConflict(sol)
  PROVE  SolverOk(sol', Sure) /\ Facts(sol) \subseteq Facts(sol')
<1>1. Good(sol) /\ SolverOk(sol, Sure)
  BY GoodSol DEF Sound, SolverInv
<1>2. /\ Whole(sol', Sure) /\ sol'.trail = sol.trail /\ sol'.front = sol.front
      /\ sol'.conflict.has /\ sol'.root = DL(sol')
  BY <1>1, SetStopConflictCore DEF SolverOk
<1>3. Facts(sol') = Facts(sol)
  BY <1>2 DEF Facts
<1> QED
  BY <1>1, <1>2, <1>3 DEF SolverOk

LEMMA FlipSound ==
  ASSUME TypeOK, LevelInv, Sound, Flip
  PROVE  Sound'
<1>1. /\ SolverInv /\ ControlInv /\ DbInv /\ WatchInv /\ pc = "flip" /\ ~Busy
      /\ formula' = formula /\ imps' = imps /\ watches' = watches /\ ret' = ret /\ pc' \in {"idle", "flip"}
  BY DEF Sound, Flip, Busy, db
<1>2. "backtrack_step" \in Api /\ ~Busy' /\ ControlInv'
  BY <1>1 DEF ControlInv, Labels, Busy
<1>3. CASE DL(sol) = sol.root
  <2>1. sol' = SetStopConflict(sol)
    BY <1>3 DEF Flip
  <2> QED
    BY <1>1, <1>2, <2>1, SetStopStep, StepKeepsDb DEF Sound
<1>4. CASE DL(sol) # sol.root
  <2> DEFINE t == Flipped(sol)
             e == [lit |-> -Decision(sol, DL(sol)), level |-> DL(t), ante |-> NoAnte]
             u == AddImplied(t, e)
  <2>1. IF t.conflict.has THEN sol' = t ELSE sol' = u
    BY <1>4 DEF Flip
  <2>2. ~sol.stop.set
    BY <1>1, <1>4 DEF SolverInv, SolverOk
  <2>3. Good(sol) /\ Core(sol, Sure)
    BY <1>1, <2>2, PlainSol
  <2>4. /\ Good(t) /\ Core(t, Sure) /\ QueueOk(t) /\ ConflictOk(t, Sure)
        /\ Facts(sol) \subseteq Facts(t) /\ t.stop = sol.stop
        /\ ~t.conflict.has => /\ Good(u) /\ Core(u, Sure) /\ QueueOk(u) /\ ConflictOk(u, Sure)
                              /\ Facts(sol) \subseteq Facts(u) /\ u.stop = sol.stop
    BY <1>2, <1>4, <2>3, FlippedCore
  <2> HIDE DEF t, u
  <2>5. /\ Good(sol') /\ Core(sol', Sure) /\ QueueOk(sol') /\ ConflictOk(sol', Sure)
        /\ Facts(sol) \subseteq Facts(sol') /\ sol'.stop = sol.stop
    BY <2>1, <2>4
  <2>6. SolverOk(sol', Sure)
    BY <2>2, <2>5, PlainOk DEF Good
  <2> QED
    BY <1>1, <1>2, <2>5, <2>6, StepKeepsDb DEF Sound
<1> QED
  BY <1>3, <1>4

LEMMA RunningSound ==
  ASSUME TypeOK, LevelInv, Sound, Running
  PROVE  Sound'
<1>1. CASE EndInit \/ Integrated
  <2>1. /\ sol' = sol /\ imps' = imps /\ watches' = watches /\ formula' = formula /\ ~Busy /\ ~Busy'
    BY <1>1 DEF EndInit, Integrated, Busy, db, Call
  <2>2. ControlInv'
    BY <1>1, <2>1 DEF EndInit, Integrated, Sound, ControlInv, Labels, Call
  <2> QED
    BY <2>1, <2>2, StepAside DEF Sound
<1>2. CASE Ready
  <2>1. /\ sol' = sol /\ imps' = Simplified(imps, sol) /\ watches' = watches /\ formula' = formula
        /\ ret' = ret /\ pc' = "idle" /\ ~Busy /\ ~Busy' /\ ~sol.conflict.has
    BY <1>2 DEF Ready, Busy, Sound, ControlInv, NothingToLose
  <2>2. ControlInv'
    BY <2>1 DEF Sound, ControlInv, Labels
  <2>3. imps' \subseteq imps \cup Sure
    BY <2>1, SimplifyStep
  <2>4. SolverOk(sol', Sure) /\ Facts(sol) \subseteq Facts(sol')
    BY <2>1 DEF Sound, SolverInv
  <2> QED
    BY <2>1, <2>2, <2>3, <2>4, StepKeepsDb DEF Sound
<1> QED
  BY <1>1, <1>2, AddFactSound, PropagationSound, SearchSound, PushRootAssumeSound, FlipSound DEF Running

(***************************************************************************)
(* The calls an application makes between two searches.                    *)
(***************************************************************************)
LEMMA StaysIdle ==
  ASSUME ControlInv, pc' = "idle", ret' = ret
  PROVE  ControlInv' /\ ~Busy'
BY DEF ControlInv, Labels, Busy

LEMMA CallAsideSound ==
  ASSUME TypeOK, LevelInv, Sound, Search \/ Propagate \/ BacktrackStep
  PROVE  Sound'
<1>1. /\ ControlInv /\ pc = "idle" /\ ~Busy /\ formula' = formula /\ sol' = sol
      /\ imps' = imps /\ watches' = watches
  BY DEF Sound, Search, Propagate, BacktrackStep, Begin, Idle, Busy, db
<1>2. CASE Search
  BY <1>1, <1>2, StepAside DEF Search, Sound, ControlInv, Labels, Busy
<1>3. CASE Propagate
  BY <1>1, <1>3, StepAside DEF Propagate, Call, Sound, ControlInv, Labels, Busy
<1>4. CASE BacktrackStep
  BY <1>1, <1>4, StepAside DEF BacktrackStep, Begin, Counted, Sound, ControlInv, Labels, Busy
<1> QED
  BY <1>2, <1>3, <1>4

LEMMA RestartStep ==
  ASSUME TypeOK, LevelInv, Sound, ~Busy, NothingToLose, sol' = UndoUntil(sol, 0)
  PROVE  SolverOk(sol', Sure) /\ Facts(sol) \subseteq Facts(sol')
<1>1. Good(sol) /\ sol \in State /\ ~sol.stop.set /\ Core(sol, Sure)
  BY PlainSol DEF NothingToLose
<1>2. /\ Good(sol') /\ Core(sol', Sure) /\ QueueOk(sol') /\ ConflictOk(sol', Sure)
      /\ Facts(sol) \subseteq Facts(sol')
  BY <1>1, UndoKeep
<1>3. sol'.stop = sol.stop
  BY <1>1, UndoUntilType
<1> QED
  BY <1>1, <1>2, <1>3, PlainOk DEF Good

LEMMA SplitStep ==
  ASSUME TypeOK, LevelInv, Sound, ~Busy, DL(sol) > sol.root, sol' = PushRootLevel(sol, 1)
  PROVE  SolverOk(sol', Sure) /\ Facts(sol) \subseteq Facts(sol')
<1>1. ~sol.stop.set
  <2>1. DL(sol) \in Nat /\ sol.root \in Nat
    BY GoodSol, Typed DEF Good
  <2> QED
    BY <2>1 DEF Sound, SolverInv, SolverOk
<1>2. Good(sol) /\ Core(sol, Sure) /\ QueueOk(sol) /\ ConflictOk(sol, Sure)
  BY <1>1, PlainSol
<1>3. /\ Good(sol') /\ Core(sol', Sure) /\ QueueOk(sol') /\ ConflictOk(sol', Sure)
      /\ sol'.trail = sol.trail /\ sol'.stop = sol.stop
  BY <1>2, PushRootLevelCore
<1>4. Facts(sol) \subseteq Facts(sol')
  BY <1>3 DEF Facts
<1> QED
  BY <1>1, <1>3, <1>4, PlainOk DEF Good

(* A solver that is not stopped is whole on its own.                       *)
LEMMA WholeOk ==
  ASSUME NEW R, NEW s \in State, Whole(s, R), ~s.stop.set
  PROVE  SolverOk(s, R)
<1>1. Base(s) = s
  BY BaseFacts
<1> QED
  BY <1>1 DEF SolverOk, Whole, QueueOk

LEMMA PopRootStep ==
  ASSUME TypeOK, LevelInv, Sound, ~Busy, NEW n \in Nat, NEW t, t = PopRootLevel(sol, n)
  PROVE  /\ SolverOk(t, Sure) /\ Facts(sol) \subseteq Facts(t) /\ Good(t) /\ ~t.stop.set
<1>1. Good(sol) /\ Core(Base(sol), Sure)
  BY GoodSol DEF Sound, SolverInv, SolverOk, Whole
<1>2. Good(t) /\ Whole(t, Sure) /\ ~t.stop.set /\ Facts(sol) \subseteq Facts(t)
  BY <1>1, PopRootLevelCore
<1> QED
  BY <1>2, WholeOk DEF Good

LEMMA ClearStopStep ==
  ASSUME TypeOK, LevelInv, Sound, ~Busy, sol' = ClearStopConflict(sol)
  PROVE  SolverOk(sol', Sure) /\ Facts(sol) \subseteq Facts(sol')
<1>1. sol' = Base(sol) /\ sol \in State
  BY GoodSol DEF Base, Good
<1>2. sol' \in State /\ ~sol'.stop.set /\ sol'.trail = sol.trail
  BY <1>1, BaseFacts
<1>3. Base(sol') = sol'
  BY <1>2, BaseFacts
<1>4. Whole(sol', Sure)
  BY <1>1, <1>3 DEF Sound, SolverInv, SolverOk, Whole
<1>5. Facts(sol) = Facts(sol')
  BY <1>2 DEF Facts
<1> QED
  BY <1>2, <1>4, <1>5, WholeOk

LEMMA LevelCallSound ==
  ASSUME TypeOK, LevelInv, Sound, Choose \/ Restart \/ PopRoot \/ SetStop \/ ClearStop \/ Split
  PROVE  Sound'
<1>1. /\ ControlInv /\ DbInv /\ WatchInv /\ pc = "idle" /\ ~Busy /\ formula' = formula
      /\ imps' = imps /\ watches' = watches
  BY DEF Sound, Choose, Restart, PopRoot, SetStop, ClearStop, Split, Begin, Idle, Busy, db
<1>2. CASE Choose
  <2>1. SolverOk(sol', Sure) /\ Facts(sol) \subseteq Facts(sol')
    BY <1>1, <1>2, DecideStep DEF Choose
  <2>2. ControlInv' /\ ~Busy'
    BY <1>1, <1>2 DEF Choose, Call, ControlInv, Labels, Busy
  <2> QED
    BY <1>1, <2>1, <2>2, StepKeepsDb DEF Sound
<1>3. CASE Restart \/ PopRoot \/ SetStop \/ ClearStop \/ Split
  <2>1. pc' = "idle" /\ ret' = ret
    BY <1>1, <1>3 DEF Restart, PopRoot, SetStop, ClearStop, Split
  <2>2. ControlInv' /\ ~Busy'
    BY <1>1, <2>1, StaysIdle
  <2>3. SolverOk(sol', Sure) /\ Facts(sol) \subseteq Facts(sol')
    <3>1. CASE Restart
      BY <1>1, <3>1, RestartStep DEF Restart
    <3>2. CASE PopRoot
      <4>1. sol.root \in Nat
        BY GoodSol, Typed DEF Good
      <4>2. PICK n \in 0..sol.root : sol' = PopRootLevel(sol, n)
        BY <3>2 DEF PopRoot
      <4>3. n \in Nat
        BY <4>1
      <4> QED
        BY <1>1, <4>2, <4>3, PopRootStep
    <3>3. CASE SetStop
      BY <1>1, <3>3, SetStopStep DEF SetStop
    <3>4. CASE ClearStop
      BY <1>1, <3>4, ClearStopStep DEF ClearStop
    <3>5. CASE Split
      BY <1>1, <3>5, SplitStep DEF Split
    <3> QED
      BY <1>3, <3>1, <3>2, <3>3, <3>4, <3>5
  <2> QED
    BY <1>1, <2>2, <2>3, StepKeepsDb DEF Sound
<1> QED
  BY <1>2, <1>3

LEMMA PushRootSound ==
  ASSUME TypeOK, LevelInv, Sound, PushRoot
  PROVE  Sound'
<1>1. /\ ControlInv /\ DbInv /\ WatchInv /\ pc = "idle" /\ ~Busy /\ formula' = formula
      /\ imps' = imps /\ watches' = watches
  BY DEF Sound, PushRoot, Begin, Idle, Busy, db
<1>2. CASE sol.conflict.has
  <2>1. sol' = sol /\ pc' = pc /\ ret' = ret
    BY <1>2 DEF PushRoot
  <2> QED
    BY <1>1, <2>1, StaysIdle, StepAside DEF Sound
<1>3. CASE ~sol.conflict.has
  <2> DEFINE back == IF DL(sol) # sol.root THEN PopRootLevel(sol, 0) ELSE sol
  <2>1. /\ sol' = back
        /\ IF back.conflict.has THEN pc' = pc /\ ret' = ret
           ELSE IF back.front # Len(back.trail) THEN Call("push", "idle")
           ELSE pc' = "push" /\ ret' = ret
    BY <1>3 DEF PushRoot
  <2>2. SolverOk(back, Sure) /\ Facts(sol) \subseteq Facts(back)
    <3>1. CASE DL(sol) # sol.root
      BY <1>1, <3>1, PopRootStep
    <3>2. CASE DL(sol) = sol.root
      BY <1>1, <3>2 DEF Sound, SolverInv
    <3> QED
      BY <3>1, <3>2
  <2> HIDE DEF back
  <2>3. ControlInv' /\ ~Busy'
    BY <1>1, <2>1 DEF Call, NothingToLose, QueueEmpty, ControlInv, Labels, Busy
  <2> QED
    BY <1>1, <2>1, <2>2, <2>3, StepKeepsDb DEF Sound
<1> QED
  BY <1>2, <1>3

(* A literal low in the watch order is false, and of that level.           *)
LEMMA LowIsFalse ==
  ASSUME NEW s \in State, TrailShape(s), NEW l \in Lit, WatchOrder(s, l) <= DL(s)
  PROVE  /\ WatchOrder(s, l) \in Nat /\ AtLevel(s, -l, WatchOrder(s, l))
         /\ LevelOf(s, l) = WatchOrder(s, l)
<1>1. DL(s) \in Nat /\ LevelOf(s, l) \in Nat
  BY Typed, LevelOfNat
<1>2. ~IsFree(s, l)
  BY <1>1 DEF WatchOrder
<1>3. ~IsTrue(s, l)
  <2> SUFFICES ASSUME IsTrue(s, l) PROVE FALSE
    OBVIOUS
  <2>1. LevelOf(s, l) <= DL(s)
    BY TrueAt
  <2>2. WatchOrder(s, l) = 2 * DL(s) + 2 - LevelOf(s, l)
    BY <1>2 DEF WatchOrder
  <2> QED
    BY <1>1, <2>1, <2>2
<1>4. IsFalse(s, l) /\ WatchOrder(s, l) = LevelOf(s, l)
  BY <1>2, <1>3 DEF IsFree, WatchOrder
<1> QED
  BY <1>1, <1>4, TrueAt

(* What integrate makes of the state, for the literals it puts first.      *)
Admitted(s, c, l0, l1) ==
  Asserted(s, IF Cardinality(c) = 1 THEN AddUnit(s, l0) ELSE s, c, l0, l1)

(* The solver goes on from s to t with the invariant kept.                 *)
Continues(s, t, R) ==
  /\ Good(t) /\ Core(t, R) /\ QueueOk(t) /\ ConflictOk(t, R)
  /\ Facts(s) \subseteq Facts(t) /\ t.stop = s.stop

(* A unit clause is forced where the solver stands and then at the top     *)
(* level: the second call repairs what the first has done when the literal *)
(* is false above it.                                                      *)
LEMMA AdmittedUnit ==
  ASSUME NEW R, NEW s, Good(s), Core(s, R), QueueOk(s), ConflictOk(s, R),
         "integrate" \in Api, s.implied.level <= s.bt, NEW l \in Lit, {l} \in R,
         ~(IsTrue(s, l) /\ LevelOf(s, l) = 0)
  PROVE  Continues(s, Admitted(s, {l}, l, 0), R)
<1> DEFINE c == {l}
           a == ForceLit(s, l, c)
           t == Admitted(s, c, l, 0)
<1>1. /\ s \in State /\ TrailShape(s) /\ DL(s) \in Nat /\ s.bt \in Nat /\ LevelOf(s, l) \in Nat
  BY Typed, LevelOfNat DEF Good, Core, TrailOk
<1>2. /\ c \in SUBSET Lit /\ c # NoAnte /\ c \in R /\ l \in c /\ c \ {l} = {} /\ Neg(c) = {-l}
  BY DEF NoAnte, Neg
<1>3. Cardinality(c) = 1
  BY FS_Singleton
<1>4. t = Asserted(s, a, c, l, 0)
  BY <1>3 DEF Admitted, AddUnit
<1> HIDE DEF c
<1>5. /\ Good(a) /\ Core(a, R) /\ Facts(s) \subseteq Facts(a) /\ QueueOk(a)
      /\ a.implied = s.implied /\ DL(a) = DL(s) /\ a.bt = s.bt
      /\ ConflictFits(s, l, c) => ConflictOk(a, R)
  BY <1>2, ForceCore DEF Justified, MayAssign
<1>6. a.stop = s.stop /\ a \in State
  BY <1>1, <1>2, <1>5, ForceType DEF LevelsSame, Good
<1>7. IsFalse(s, l) /\ LevelOf(s, l) > 0 => ~IsTrue(a, l) /\ 0 # DL(a)
  <2> SUFFICES ASSUME IsFalse(s, l), LevelOf(s, l) > 0 PROVE ~IsTrue(a, l) /\ 0 # DL(a)
    OBVIOUS
  <2>1. LevelOf(s, l) <= DL(s) /\ ~IsTrue(s, l)
    BY <1>1, TrueAt
  <2>2. a.trail = s.trail
    BY <2>1 DEF ForceLit, SetConflict
  <2>3. ~IsTrue(a, l)
    BY <2>1, <2>2 DEF IsTrue, TrueLits
  <2> QED
    BY <1>1, <1>5, <2>1, <2>3
<1> HIDE DEF a, t
<1>8. CASE MustAssert(s, l, 0)
  <2>1. t = ForceAtLevel(a, l, 0, c)
    BY <1>4, <1>8 DEF Asserted
  <2>2. ConflictOk(a, R) \/ (~IsTrue(a, l) /\ 0 # DL(a))
    <3>1. CASE IsFalse(s, l) /\ LevelOf(s, l) > 0
      BY <1>7, <3>1
    <3>2. CASE ~IsFalse(s, l)
      BY <1>5, <3>2 DEF ConflictFits
    <3>3. CASE IsFalse(s, l) /\ ~(LevelOf(s, l) > 0)
      <4>1. LevelOf(s, l) = 0
        BY <1>1, <3>3
      <4>2. IsEmpty(s, l) /\ ~IsTrue(s, l) /\ ~IsFree(s, l)
        BY <1>1, <3>3, <4>1, TrueAt DEF IsEmpty, IsFree
      <4>3. ~IsUnit(s, l, 0)
        BY <4>1, <4>2 DEF IsUnit, FirstOrder, SecondOrder, WatchOrder
      <4> QED
        BY <1>8, <4>2, <4>3 DEF MustAssert
    <3> QED
      BY <3>1, <3>2, <3>3
  <2>3. 0 \in Nat /\ 0 <= DL(a) /\ ~(0 > a.bt) /\ (IsFalse(a, l) => a.implied.level <= a.bt)
    BY <1>1, <1>5
  <2>4. \A k \in c \ {l} : TrueBy(a, -k, 0)
    BY <1>2
  <2>5. /\ Good(t) /\ Core(t, R) /\ Facts(a) \subseteq Facts(t) /\ QueueOk(t) /\ ConflictOk(t, R)
    BY <1>2, <1>5, <2>1, <2>2, <2>3, <2>4, ForceAtLevelCore
  <2>6. t.stop = a.stop
    BY <1>2, <1>6, <2>1, <2>3, ForceAtLevelStop
  <2> QED
    BY <1>5, <1>6, <2>5, <2>6 DEF t, c, Continues
<1>9. CASE ~MustAssert(s, l, 0)
  <2>1. t = a
    BY <1>4, <1>9 DEF Asserted
  <2>2. IsFalse(s, l) /\ LevelOf(s, l) = 0
    <3>1. ASSUME ~IsFalse(s, l) PROVE FALSE
      <4>1. CASE IsTrue(s, l)
        <5>1. FirstOrder(s, l) > 0
          BY <1>1, <4>1 DEF FirstOrder
        <5> QED
          BY <1>1, <1>9, <5>1 DEF MustAssert, IsUnit, SecondOrder
      <4>2. CASE ~IsTrue(s, l)
        <5>1. FirstOrder(s, l) = DL(s) + 1
          BY <3>1, <4>2 DEF FirstOrder, WatchOrder, IsFree
        <5> QED
          BY <1>1, <1>9, <5>1 DEF MustAssert, IsUnit, SecondOrder
      <4> QED
        BY <4>1, <4>2
    <3> QED
      BY <1>9, <3>1 DEF MustAssert, IsEmpty
  <2>3. AtLevel(s, -l, 0)
    BY <1>1, <2>2, TrueAt
  <2>4. ConflictFits(s, l, c)
    BY <1>2, <2>3 DEF ConflictFits, Current
  <2> QED
    BY <1>5, <1>6, <2>1, <2>4 DEF t, c, Continues
<1> QED
  BY <1>8, <1>9 DEF t, c, Continues

(* A longer clause that is unit or false is forced at the level of its     *)
(* second literal: there all the others are false.                         *)
LEMMA AdmittedLong ==
  ASSUME NEW R, NEW s, Good(s), Core(s, R), QueueOk(s), ConflictOk(s, R),
         s.implied.level <= s.bt, NEW c \in SUBSET Lit, c \in R, Cardinality(c) # 1,
         NEW l0 \in Highest(s, c), NEW l1 \in Highest(s, c \ {l0})
  PROVE  Continues(s, Admitted(s, c, l0, l1), R)
<1> DEFINE t == Admitted(s, c, l0, l1)
           n == WatchOrder(s, l1)
<1>1. s \in State /\ TrailShape(s) /\ DL(s) \in Nat /\ s.bt \in Nat
  BY Typed DEF Good, Core, TrailOk
<1>2. /\ l0 \in c /\ l1 \in c \ {l0} /\ l0 \in Lit /\ l1 \in Lit /\ l1 # 0
      /\ n <= WatchOrder(s, l0)
      /\ \A k \in c \ {l0} : k \in Lit /\ WatchOrder(s, k) <= n
  BY LitFacts DEF Highest
<1>3. \A k \in Lit : WatchOrder(s, k) \in Int
  BY <1>1, LevelOfNat DEF WatchOrder
<1>4. t = IF MustAssert(s, l0, l1) THEN ForceAtLevel(s, l0, LevelOf(s, l1), c) ELSE s
  BY <1>2 DEF Admitted, Asserted
<1> HIDE DEF t, n
<1>5. CASE MustAssert(s, l0, l1)
  <2>1. n <= DL(s)
    <3>1. CASE IsUnit(s, l0, l1)
      BY <1>2, <3>1 DEF IsUnit, SecondOrder, n
    <3>2. CASE IsFalse(s, l0)
      <4>1. ~IsTrue(s, l0) /\ ~IsFree(s, l0) /\ LevelOf(s, l0) <= DL(s)
        BY <1>1, <1>2, <3>2, TrueAt DEF IsFree
      <4>2. WatchOrder(s, l0) <= DL(s)
        BY <4>1 DEF WatchOrder
      <4> QED
        BY <1>1, <1>2, <1>3, <4>2 DEF n
    <3> QED
      BY <1>5, <3>1, <3>2 DEF MustAssert
  <2>2. LevelOf(s, l1) = n /\ n \in Nat /\ AtLevel(s, -l1, n)
    BY <1>1, <1>2, <2>1, LowIsFalse DEF n
  <2>3. \A k \in c \ {l0} : TrueBy(s, -k, n)
    <3> SUFFICES ASSUME NEW k \in c \ {l0} PROVE TrueBy(s, -k, n)
      OBVIOUS
    <3>1. k \in Lit /\ WatchOrder(s, k) <= n /\ WatchOrder(s, k) <= DL(s)
      BY <1>1, <1>2, <1>3, <2>1, <2>2
    <3>2. AtLevel(s, -k, WatchOrder(s, k))
      BY <1>1, <3>1, LowIsFalse
    <3> QED
      BY <3>1, <3>2 DEF AtLevel, TrueBy
  <2>4. t = ForceAtLevel(s, l0, n, c)
    BY <1>4, <1>5, <2>2
  <2>5. /\ Good(t) /\ Core(t, R) /\ Facts(s) \subseteq Facts(t) /\ QueueOk(t) /\ ConflictOk(t, R)
    BY <1>2, <2>1, <2>2, <2>3, <2>4, ForceAtLevelCore
  <2>6. t.stop = s.stop
    BY <1>1, <1>2, <2>2, <2>4, ForceAtLevelStop
  <2> QED
    BY <2>5, <2>6 DEF t, Continues
<1>6. CASE ~MustAssert(s, l0, l1)
  BY <1>4, <1>6 DEF t, Continues
<1> QED
  BY <1>5, <1>6 DEF t

LEMMA StoredWatch ==
  ASSUME WatchInv, NEW c, NEW w, Cardinality(c) > 3 => Watched(c, w), watches' = StoreExplicit(c, w)
  PROVE  WatchInv' /\ Explicit' \subseteq Explicit \cup {c}
<1>1. CASE watches' = watches
  BY <1>1 DEF Explicit, WatchInv
<1>2. CASE watches' # watches
  <2>1. /\ Cardinality(c) > 3 /\ c \notin Explicit
        /\ watches' = [k \in Explicit \cup {c} |-> IF k = c THEN w ELSE watches[k]]
    BY <1>2 DEF StoreExplicit
  <2>2. Explicit' = Explicit \cup {c}
    BY <2>1 DEF Explicit
  <2>3. \A k \in Explicit \cup {c} : watches'[k] = IF k = c THEN w ELSE watches[k]
    BY <2>1
  <2> QED
    BY <2>1, <2>2, <2>3 DEF WatchInv
<1> QED
  BY <1>1, <1>2

LEMMA IntegrateSound ==
  ASSUME CallsFit, TypeOK, LevelInv, Sound, Integrate
  PROVE  Sound'
<1>1. /\ SolverInv /\ ControlInv /\ DbInv /\ WatchInv /\ pc \in {"idle", "integrate"} /\ ~Busy
      /\ pc' = "integrate" /\ ~Busy' /\ formula' = formula /\ ret' = ret
      /\ "integrate" \in Api /\ ~sol.conflict.has
  BY DEF Sound, Integrate, Counted, Idle, Busy
<1>2. /\ Good(sol) /\ sol \in State /\ ~sol.stop.set /\ Core(sol, Sure) /\ QueueOk(sol)
      /\ ConflictOk(sol, Sure)
  BY <1>1, PlainSol
<1>3. sol.implied.level <= sol.bt
  BY <1>1, <1>2 DEF CallsFit, Core, LiveHeld
<1>4. PICK c \in Consequences :
       /\ \A l \in c : ~(IsTrue(sol, l) /\ LevelOf(sol, l) = 0)
       /\ \E l0 \in Highest(sol, c) :
          \E l1 \in IF c = {l0} THEN {0} ELSE Highest(sol, c \ {l0}) :
            /\ sol' = Admitted(sol, c, l0, l1)
            /\ imps' = StoreImp(c)
            /\ watches' = StoreExplicit(c, {l0, l1})
  BY DEF Integrate, Admitted
<1>5. PICK l0 \in Highest(sol, c) :
        \E l1 \in IF c = {l0} THEN {0} ELSE Highest(sol, c \ {l0}) :
            /\ sol' = Admitted(sol, c, l0, l1)
            /\ imps' = StoreImp(c)
            /\ watches' = StoreExplicit(c, {l0, l1})
  BY <1>4
<1>6. PICK l1 \in IF c = {l0} THEN {0} ELSE Highest(sol, c \ {l0}) :
            /\ sol' = Admitted(sol, c, l0, l1)
            /\ imps' = StoreImp(c)
            /\ watches' = StoreExplicit(c, {l0, l1})
  BY <1>5
<1>7. c \in Sure /\ c \in SUBSET Lit /\ l0 \in c /\ l0 \in Lit
  BY <1>4 DEF Consequences, Sure, SureOf, Assignments, Fulfils, Holds, Highest
<1>8. IsFiniteSet(c) /\ Cardinality(c) \in Nat
  BY <1>7, LitFinite, FS_Subset, FS_CardinalityType
<1>9. /\ Good(sol') /\ Core(sol', Sure) /\ QueueOk(sol') /\ ConflictOk(sol', Sure)
      /\ Facts(sol) \subseteq Facts(sol') /\ sol'.stop = sol.stop
      /\ Cardinality(c) > 3 => Watched(c, {l0, l1})
  <2>1. CASE c = {l0}
    <3>1. l1 = 0 /\ ~(IsTrue(sol, l0) /\ LevelOf(sol, l0) = 0) /\ {l0} \in Sure
      BY <1>4, <1>6, <1>7, <2>1
    <3>2. sol' = Admitted(sol, {l0}, l0, 0)
      BY <1>6, <2>1, <3>1
    <3>3. Cardinality(c) = 1
      BY <2>1, FS_Singleton
    <3>4. ~(Cardinality(c) > 3)
      BY <3>3
    <3> QED
      BY <1>1, <1>2, <1>3, <1>7, <3>1, <3>2, <3>4, AdmittedUnit DEF Continues
  <2>2. CASE c # {l0}
    <3>1. Cardinality(c) # 1
      <4>1. ~(Cardinality(c) <= 1)
        BY <1>7, <1>8, <2>2, SingleElement
      <4> QED
        BY <1>8, <4>1
    <3>2. l1 \in Highest(sol, c \ {l0})
      BY <1>6, <2>2
    <3>3. Watched(c, {l0, l1})
      BY <1>7, <3>2 DEF Watched, Highest
    <3>4. Continues(sol, sol', Sure)
      BY <1>2, <1>3, <1>6, <1>7, <3>1, <3>2, AdmittedLong
    <3> QED
      BY <3>3, <3>4 DEF Continues
  <2> QED
    BY <2>1, <2>2
<1>10. WatchInv' /\ Explicit' \subseteq Explicit \cup {c} /\ imps' \subseteq imps \cup {c}
  BY <1>1, <1>6, <1>9, StoredWatch DEF StoreImp
<1>11. SolverOk(sol', Sure)
  BY <1>2, <1>9, PlainOk DEF Good
<1>12. SolverInv' /\ AnalysisInv' /\ DbInv'
  BY <1>1, <1>7, <1>9, <1>10, <1>11, StepOutside
<1>13. ControlInv'
  BY <1>1 DEF ControlInv, Labels
<1> QED
  BY <1>10, <1>12, <1>13 DEF Sound

LEMMA NextSound ==
  ASSUME CallsFit, TypeOK, LevelInv, Sound, [Next]_vars
  PROVE  Sound'
<1>1. CASE UNCHANGED vars
  BY <1>1 DEF vars, Sound, SolverInv, ControlInv, AnalysisInv, DbInv, WatchInv, Busy, Sure,
              Resolving, Resolved, Open, OpenOf, NothingToLose, QueueEmpty, Clauses, Explicit, Panics,
              NewReasons
<1>2. CASE ApiCall
  <2>1. ~SetBacktrack
    BY DEF CallsFit, SetBacktrack, Begin, Counted
  <2> QED
    BY <1>2, <2>1, CallAsideSound, LevelCallSound, PushRootSound, IntegrateSound DEF ApiCall
<1> QED
  BY <1>1, <1>2, RunningSound DEF Next

(***************************************************************************)
(* The beginning.                                                          *)
(***************************************************************************)
LEMMA NewSolverCore ==
  ASSUME NEW R
  PROVE  SolverOk(NewSolver, R) /\ DL(NewSolver) = 0
<1> DEFINE s == NewSolver
<1>1. /\ s \in State /\ s.trail = <<>> /\ s.implied.lits = <<>> /\ s.implied.level = 0 /\ s.bt = 0
      /\ s.implied.front = 0 /\ ~s.conflict.has /\ ~s.stop.set /\ DL(s) = 0 /\ s.front = 0
  BY DEF NewSolver, State, NoStop, NoConflict, DL
<1> HIDE DEF s
<1>2. DOMAIN s.trail = {} /\ DOMAIN s.implied.lits = {} /\ Len(s.trail) = 0 /\ Len(s.implied.lits) = 0
  BY <1>1
<1>3. TrailOk(s, R)
  BY <1>2 DEF TrailOk, TrailShape, Reasoned, DecisionsFirst
<1>4. ImpliedOk(s, R) /\ LiveHeld(s)
  BY <1>1, <1>2 DEF ImpliedOk, LiveHeld
<1>5. QueueOk(s) /\ ConflictOk(s, R)
  BY <1>1, <1>2 DEF QueueOk, ConflictOk
<1> QED
  BY <1>1, <1>3, <1>4, <1>5, PlainOk DEF Core, s

LEMMA FirstTwoWatched ==
  ASSUME NEW c, IsFiniteSet(c), Cardinality(c) > 3
  PROVE  Watched(c, FirstTwo(c))
<1> DEFINE first == CHOOSE l \in c : TRUE
           second == CHOOSE l \in c \ {first} : TRUE
<1>1. c # {}
  BY FS_EmptySet
<1>2. first \in c
  BY <1>1
<1> HIDE DEF first
<1>3. c # {first}
  BY FS_Singleton
<1>4. second \in c \ {first}
  BY <1>2, <1>3
<1>5. FirstTwo(c) = {first, second}
  BY DEF FirstTwo, first
<1> HIDE DEF second
<1> QED
  BY <1>2, <1>4, <1>5 DEF Watched

LEMMA InitSound ==
  ASSUME Init
  PROVE  Sound
<1>1. /\ sol = NewSolver /\ pc = "init" /\ ret = [ok |-> "idle", fail |-> "idle"]
      /\ imps \subseteq formula /\ formula \subseteq SUBSET Lit
      /\ watches = [c \in {k \in formula : Cardinality(k) > 3} |-> FirstTwo(c)]
  BY KernelAssumption DEF Init
<1>2. SolverInv /\ ControlInv /\ AnalysisInv
  BY <1>1, NewSolverCore DEF SolverInv, ControlInv, AnalysisInv, Busy, Labels
<1>3. /\ Explicit \subseteq formula
      /\ \A c \in Explicit : Cardinality(c) > 3 /\ watches[c] = FirstTwo(c)
  BY <1>1 DEF Explicit
<1>4. DbInv
  BY <1>1, <1>3 DEF DbInv, Clauses, Sure, SureOf, Fulfils
<1>5. WatchInv
  <2> SUFFICES ASSUME NEW c \in Explicit PROVE Watched(c, watches[c])
    BY DEF WatchInv
  <2>1. IsFiniteSet(c)
    BY <1>1, <1>3, LitFinite, FS_Subset
  <2> QED
    BY <1>3, <2>1, FirstTwoWatched
<1> QED
  BY <1>2, <1>4, <1>5 DEF Sound

LEMMA AlwaysSound ==
  ASSUME CallsFit
  PROVE  Spec => [](TypeOK /\ LevelInv /\ Sound)
<1>1. Init => TypeOK /\ LevelInv /\ Sound
  BY InitSafe, InitSound
<1>2. (TypeOK /\ LevelInv /\ Sound) /\ [Next]_vars => (TypeOK /\ LevelInv /\ Sound)'
  BY NextSafe, NextSound DEF Safe
<1> QED
  BY <1>1, <1>2, PTL DEF Spec

(***************************************************************************)
(* What follows from the invariant in every state.                         *)
(***************************************************************************)
LEMMA SolReasoned ==
  ASSUME TypeOK, LevelInv, Sound
  PROVE  TrailShape(sol) /\ Reasoned(sol, Sure)
<1>1. CASE Busy
  BY <1>1 DEF Sound, SolverInv, Core, TrailOk
<1>2. CASE ~Busy
  <2>1. TrailShape(Base(sol)) /\ Reasoned(Base(sol), Sure)
    BY <1>2 DEF Sound, SolverInv, SolverOk, Whole, Core, TrailOk
  <2>2. Base(sol).trail = sol.trail /\ DL(Base(sol)) = DL(sol)
    BY BaseFacts DEF TypeOK
  <2> QED
    BY <2>1, <2>2 DEF TrailShape, Reasoned
<1> QED
  BY <1>1, <1>2

LEMMA SoundTrail ==
  ASSUME TypeOK, LevelInv, Sound
  PROVE  TrailSound
BY SolReasoned DEF TrailSound, Reasoned

(* The facts are premises of every level.                                  *)
LEMMA FactsArePremises ==
  ASSUME TypeOK, NEW n \in Nat
  PROVE  Facts(sol) \subseteq Premises(n)
<1>1. DL(sol) \in Nat /\ \A i \in DOMAIN sol.trail : sol.trail[i].level \in Nat
  BY Typed DEF TypeOK
<1>2. 0 <= MinOf(n, DL(sol))
  BY <1>1 DEF MinOf
<1> QED
  BY <1>2 DEF Facts, Premises, Entries

LEMMA SoundAssignment ==
  ASSUME TypeOK, LevelInv, Sound
  PROVE  AssignmentSound
<1> SUFFICES ASSUME NEW i \in DOMAIN sol.trail, NEW m \in Models,
                    AllHold(m, Premises(sol.trail[i].level))
             PROVE  Holds(m, sol.trail[i].lit)
  BY DEF AssignmentSound, Entries
<1> DEFINE n == sol.trail[i].level
<1>1. /\ sol \in State /\ DL(sol) \in Nat /\ n \in Nat /\ TrailShape(sol) /\ Reasoned(sol, Sure)
      /\ m \in Assignments /\ Fulfils(m, formula)
  BY Typed, SolReasoned DEF TypeOK, Models
<1>2. MinOf(n, DL(sol)) = n
  BY <1>1 DEF TrailShape, MinOf
<1> HIDE DEF n
<1>3. AllHold(m, Premises(n))
  BY DEF n
<1>4. \A j \in DOMAIN sol.trail :
        sol.trail[j].ante = NoAnte /\ sol.trail[j].level <= n => Holds(m, sol.trail[j].lit)
  BY <1>2, <1>3 DEF AllHold, Premises, Entries
<1>5. \A c \in Sure : \E l \in c : Holds(m, l)
  BY <1>1, <1>3, FactsArePremises DEF Sure, SureOf, AllHold
<1>6. \A j \in DOMAIN sol.trail : sol.trail[j].level <= n => Holds(m, sol.trail[j].lit)
  BY <1>1, <1>4, <1>5, Entailed
<1>7. sol.trail[i].level <= n
  BY <1>1 DEF n
<1> QED
  BY <1>6, <1>7

LEMMA SoundDb ==
  ASSUME TypeOK, LevelInv, Sound
  PROVE  DbEntailed
<1> SUFFICES ASSUME NEW m \in Models, AllHold(m, Premises(0)), NEW c \in Clauses
             PROVE  \E l \in c : Holds(m, l)
  BY DEF DbEntailed, Fulfils
<1>1. c \in Sure
  BY DEF Sound, DbInv
<1>2. AllHold(m, Facts(sol))
  BY FactsArePremises DEF AllHold
<1> QED
  BY <1>1, <1>2 DEF Sure, SureOf, Models

LEMMA SoundQueue ==
  ASSUME TypeOK, LevelInv, Sound
  PROVE  QueueInv
<1>1. sol \in State
  BY DEF TypeOK
<1>2. ASSUME ~Busy PROVE sol.front <= Len(sol.trail)
  BY <1>2 DEF Sound, SolverInv, SolverOk
<1>3. ASSUME sol.stop.set PROVE sol.stop.front <= Len(sol.trail)
  <2>1. SolverOk(sol, Sure)
    BY <1>3 DEF Sound, SolverInv
  <2>2. Base(sol).front = sol.stop.front /\ Base(sol).trail = sol.trail
    BY <1>1, <1>3, BaseFacts
  <2> QED
    BY <2>1, <2>2 DEF SolverOk, Whole, QueueOk
<1> QED
  BY <1>2, <1>3 DEF QueueInv, Busy

LEMMA SoundLearnt ==
  ASSUME TypeOK, LevelInv, Sound
  PROVE  LearntAsserting
<1> SUFFICES ASSUME pc = "learn"
             PROVE  /\ IsTrue(sol, an.uip) /\ LevelOf(sol, an.uip) = DL(sol)
                    /\ \A l \in an.lits : IsFalse(sol, l) /\ LevelOf(sol, l) \in 1..(DL(sol) - 1)
  BY DEF LearntAsserting
<1>1. sol \in State /\ TrailShape(sol) /\ an.uip \in Lit /\ an.lits \in SUBSET Lit
  BY SolReasoned DEF TypeOK, Analysis
<1>2. Resolved
  BY DEF Sound, AnalysisInv
<1>3. IsTrue(sol, an.uip) /\ LevelOf(sol, an.uip) = DL(sol)
  BY <1>1, <1>2, TrueAt DEF Resolved
<1>4. ASSUME NEW l \in an.lits
      PROVE  IsFalse(sol, l) /\ LevelOf(sol, l) \in 1..(DL(sol) - 1)
  <2>1. PICK n \in 1..(DL(sol) - 1) : AtLevel(sol, -l, n)
    BY <1>2 DEF Resolved, AllFalse
  <2>2. IsFalse(sol, l) /\ LevelOf(sol, l) = n
    BY <1>1, <2>1, TrueAt
  <2> QED
    BY <2>2
<1> QED
  BY <1>3, <1>4

LEMMA SoundConflict ==
  ASSUME "integrate" \notin Api, TypeOK, LevelInv, Sound
  PROVE  ConflictOnLevel
<1> SUFFICES ASSUME pc = "analyze"
             PROVE  /\ \A l \in an.cur : IsTrue(sol, l)
                    /\ an.on + Cardinality(OnLevel(NewReasons)) > 0
  BY DEF ConflictOnLevel
<1>1. sol \in State /\ TrailShape(sol) /\ an.cur \in SUBSET Lit
  BY SolReasoned DEF TypeOK, Analysis
<1>2. Resolving
  BY DEF Sound, AnalysisInv
<1>3. IsFiniteSet(OnLevel(NewReasons)) /\ Cardinality(OnLevel(NewReasons)) \in Nat
  <2>1. OnLevel(NewReasons) \in SUBSET Lit
    BY <1>1 DEF OnLevel, NewReasons
  <2> QED
    BY <2>1, LitFinite, FS_Subset, FS_CardinalityType
<1>4. IsFiniteSet(Open) /\ an.on \in Nat
  <2>1. Open \in SUBSET Lit
    BY <1>1, Typed DEF Open, OpenOf, TrueLits
  <2> QED
    BY <1>2, <2>1, LitFinite, FS_Subset, FS_CardinalityType DEF Resolving
<1>5. CASE an.on > 0
  BY <1>2, <1>3, <1>4, <1>5 DEF Resolving
<1>6. CASE ~(an.on > 0)
  <2>1. PICK l \in an.cur : AtLevel(sol, l, DL(sol)) /\ Var(l) \notin an.seen
    BY <1>2, <1>6 DEF Resolving
  <2>2. LevelOf(sol, l) = DL(sol)
    BY <1>1, <2>1, TrueAt
  <2>3. l \in OnLevel(NewReasons)
    BY <2>1, <2>2 DEF OnLevel, NewReasons
  <2>4. Cardinality(OnLevel(NewReasons)) # 0
    BY <1>3, <2>3, FS_EmptySet
  <2>5. \A x, y \in Nat : y # 0 => x + y > 0
    OBVIOUS
  <2> HIDE DEF OnLevel
  <2> QED
    BY <1>2, <1>3, <1>4, <2>4, <2>5 DEF Resolving
<1> QED
  BY <1>5, <1>6

(***************************************************************************)
(* The theorems.                                                           *)
(***************************************************************************)
(* A reason explains its literal by literals assigned before it, for every *)
(* problem and any number of variables: force_implied, the re-assignment   *)
(* of the implied list and set_reason never leave a reason that conflict   *)
(* analysis would meet out of order.                                       *)
THEOREM ReasonsComeFirst ==
  ASSUME CallsFit
  PROVE  Spec => []TrailSound
<1>1. TypeOK /\ LevelInv /\ Sound => TrailSound
  BY SoundTrail
<1> QED
  BY <1>1, AlwaysSound, PTL

(* Each assigned literal holds in every model of the problem in which the  *)
(* decisions, flipped decisions and units up to its level hold: neither    *)
(* backjumping nor the assignment of implied literals below the level they *)
(* were found on keeps a literal longer than what it depends on.           *)
THEOREM AssignmentFollows ==
  ASSUME CallsFit
  PROVE  Spec => []AssignmentSound
<1>1. TypeOK /\ LevelInv /\ Sound => AssignmentSound
  BY SoundAssignment
<1> QED
  BY <1>1, AlwaysSound, PTL

(* Every clause of the database, learnt by conflict analysis and           *)
(* minimised, integrated from another solver, or shortened by simplify,    *)
(* follows from the problem and the literals fixed at the top level.       *)
THEOREM ClausesFollow ==
  ASSUME CallsFit
  PROVE  Spec => []DbEntailed
<1>1. TypeOK /\ LevelInv /\ Sound => DbEntailed
  BY SoundDb
<1> QED
  BY <1>1, AlwaysSound, PTL

(* The propagation queue, and the position a stop conflict has saved, are  *)
(* positions of the trail: q_pop and clear_stop_conflict never index       *)
(* behind it.                                                              *)
THEOREM QueueInBounds ==
  ASSUME CallsFit
  PROVE  Spec => []QueueInv
<1>1. TypeOK /\ LevelInv /\ Sound => QueueInv
  BY SoundQueue
<1> QED
  BY <1>1, AlwaysSound, PTL

(* analyze_conflict ends with an asserting clause: one literal of the      *)
(* conflict level, and the others false on lower levels above the top      *)
(* level.                                                                  *)
THEOREM LearntIsAsserting ==
  ASSUME CallsFit
  PROVE  Spec => []LearntAsserting
<1>1. TypeOK /\ LevelInv /\ Sound => LearntAsserting
  BY SoundLearnt
<1> QED
  BY <1>1, AlwaysSound, PTL

(* The assertions of analyze_conflict: what is resolved on is true, and    *)
(* part of it is on the conflict level. Without clauses of other solvers,  *)
(* that is: a clause that integrate finds false on the top level is        *)
(* resolved on a level it does not touch.                                  *)
THEOREM ConflictIsAsserting ==
  ASSUME CallsFit, "integrate" \notin Api
  PROVE  Spec => []ConflictAsserting
<1>1. TypeOK /\ LevelInv /\ Sound => ConflictAsserting
  BY SoundLearnt, SoundConflict DEF ConflictAsserting
<1> QED
  BY <1>1, AlwaysSound, PTL
=============================================================================

---------------------------- MODULE ServiceProofs ---------------------------
(***************************************************************************)
(* Proofs that the clauses of a solver that works alone never lose a part  *)
(* of the problem, and that it answers as SearchService says.              *)
(***************************************************************************)
EXTENDS PropagationProofs

(* The clauses that hold in every model of the problem.                    *)
Valid == SureOf(formula, {})

(***************************************************************************)
(* Where literals come from. One without a reason is a unit of the problem *)
(* or the decision of a level not above its own, and the decisions up to   *)
(* level n are true by their levels.                                       *)
(***************************************************************************)
Explained(s, e) ==
  e.ante = NoAnte =>
    \/ {e.lit} \in formula
    \/ \E k \in 1..DL(s) : k <= e.level /\ e.lit = s.decisions[k]
Known(s) == \A i \in DOMAIN s.trail : Explained(s, s.trail[i])
Rooted(s, n) == \A k \in 1..n : TrueBy(s, s.decisions[k], k)

(* A conflict is a valid clause that the assignment falsifies.             *)
Real(s, R) ==
  s.conflict.has => (\A l \in s.conflict.lits : IsTrue(s, l)) /\ Neg(s.conflict.lits) \in R

(* What a stretch of code does to the assignment: it keeps what belongs to *)
(* the levels it leaves open, and what it assigns belongs to the last one. *)
Moves(s, t) ==
  /\ Stays(s, t, DL(t))
  /\ \A i \in DOMAIN t.trail :
       \/ i \in DOMAIN s.trail /\ t.trail[i] = s.trail[i]
       \/ t.trail[i].level = DL(t) /\ Explained(t, t.trail[i])
  /\ \A k \in 1..DL(t) : IF k <= DL(s) THEN t.decisions[k] = s.decisions[k]
                         ELSE TrueBy(t, t.decisions[k], k)

LEMMA MovesTrans ==
  ASSUME NEW s \in State, NEW t \in State, NEW u, Moves(s, t), Moves(t, u), u.decisions = t.decisions
  PROVE  Moves(s, u)
<1>1. DL(u) = DL(t) /\ DL(t) \in Nat
  BY Typed DEF DL
<1>2. Stays(s, u, DL(u))
  <2> SUFFICES ASSUME NEW i \in DOMAIN s.trail, s.trail[i].level <= DL(u)
               PROVE  /\ i \in DOMAIN u.trail /\ u.trail[i].lit = s.trail[i].lit
                      /\ u.trail[i].level = s.trail[i].level
    BY DEF Stays
  <2>1. i \in DOMAIN t.trail /\ t.trail[i].lit = s.trail[i].lit /\ t.trail[i].level = s.trail[i].level
    BY <1>1 DEF Moves, Stays
  <2> QED
    BY <1>1, <2>1 DEF Moves, Stays
<1>3. ASSUME NEW i \in DOMAIN u.trail
      PROVE  \/ i \in DOMAIN s.trail /\ u.trail[i] = s.trail[i]
             \/ u.trail[i].level = DL(u) /\ Explained(u, u.trail[i])
  <2>1. \A e : Explained(t, e) => Explained(u, e)
    BY <1>1 DEF Explained
  <2> QED
    BY <1>1, <2>1 DEF Moves
<1>4. ASSUME NEW k \in 1..DL(u)
      PROVE  IF k <= DL(s) THEN u.decisions[k] = s.decisions[k] ELSE TrueBy(u, u.decisions[k], k)
  <2>1. CASE k <= DL(s)
    BY <1>1, <2>1 DEF Moves
  <2>2. CASE ~(k <= DL(s))
    <3>1. TrueBy(t, t.decisions[k], k)
      BY <1>1, <2>2 DEF Moves
    <3>2. Stays(t, u, DL(t))
      BY <1>1 DEF Moves
    <3>3. TrueBy(u, t.decisions[k], k)
      BY <1>1, <3>1, <3>2, StaysTrue
    <3> QED
      BY <2>2, <3>3
  <2> QED
    BY <2>1, <2>2
<1> QED
  BY <1>2, <1>3, <1>4 DEF Moves

LEMMA MovesKeep ==
  ASSUME NEW s \in State, NEW t \in State, Moves(s, t), TrailShape(t), Known(s),
         NEW n \in Nat, Rooted(s, n), n <= DL(s), n = DL(s) \/ DL(t) <= n
  PROVE  /\ Known(t) /\ Rooted(t, DL(t))
         /\ \A l : TrueBy(s, l, 0) => TrueBy(t, l, 0)
         /\ DL(t) > 0 => \A l : TrueBy(t, l, 0) => TrueBy(s, l, 0)
<1>1. /\ DL(s) \in Nat /\ DL(t) \in Nat /\ Stays(s, t, DL(t))
      /\ \A i \in DOMAIN t.trail : t.trail[i].level \in Nat /\ t.trail[i].level <= DL(t)
  BY Typed DEF Moves, TrailShape
<1>2. ASSUME NEW i \in DOMAIN t.trail PROVE Explained(t, t.trail[i])
  <2> SUFFICES ASSUME i \in DOMAIN s.trail, t.trail[i] = s.trail[i], t.trail[i].ante = NoAnte,
                      {t.trail[i].lit} \notin formula
               PROVE  \E k \in 1..DL(t) : k <= t.trail[i].level /\ t.trail[i].lit = t.decisions[k]
    BY DEF Moves, Explained
  <2>1. PICK k \in 1..DL(s) : k <= t.trail[i].level /\ t.trail[i].lit = s.decisions[k]
    BY DEF Known, Explained
  <2>2. k \in 1..DL(t) /\ k <= DL(s)
    BY <1>1, <2>1
  <2>3. t.decisions[k] = s.decisions[k]
    BY <2>2 DEF Moves
  <2> QED
    BY <2>1, <2>2, <2>3
<1>3. ASSUME NEW k \in 1..DL(t) PROVE TrueBy(t, t.decisions[k], k)
  <2>1. CASE k <= DL(s)
    <3>1. k \in 1..n /\ t.decisions[k] = s.decisions[k]
      BY <1>1, <2>1 DEF Moves
    <3>2. TrueBy(s, t.decisions[k], k)
      BY <3>1 DEF Rooted
    <3> QED
      BY <1>1, <3>2, StaysTrue
  <2>2. CASE ~(k <= DL(s))
    BY <2>2 DEF Moves
  <2> QED
    BY <2>1, <2>2
<1>4. \A l : TrueBy(s, l, 0) => TrueBy(t, l, 0)
  BY <1>1, StaysTrue
<1>5. ASSUME DL(t) > 0, NEW l, TrueBy(t, l, 0) PROVE TrueBy(s, l, 0)
  <2>1. PICK j \in DOMAIN t.trail : t.trail[j].lit = l /\ t.trail[j].level <= 0
    BY <1>5 DEF TrueBy
  <2>2. j \in DOMAIN s.trail /\ t.trail[j] = s.trail[j]
    BY <1>1, <1>5, <2>1 DEF Moves
  <2> QED
    BY <2>1, <2>2 DEF TrueBy
<1> QED
  BY <1>2, <1>3, <1>4, <1>5 DEF Known, Rooted

(* The same assignment under other levels, queue or conflict.              *)
LEMMA SameMoves ==
  ASSUME NEW s \in State, NEW t, t.trail = s.trail, t.decisions = s.decisions
  PROVE  Moves(s, t)
<1>1. DL(t) = DL(s) /\ DL(s) \in Nat
  BY Typed DEF DL
<1> QED
  BY <1>1 DEF Moves, Stays

(***************************************************************************)
(* The operators of SolverState.                                           *)
(***************************************************************************)
(* What force may be given: a literal that a valid clause implies.         *)
Implied(s, R, l, ante) ==
  /\ l \in Lit /\ ante \in SUBSET Lit /\ {l} \cup ante \in R
  /\ \A k \in ante \ {l} : IsFalse(s, k)
  /\ ante = NoAnte => {l} \in formula

LEMMA FreeMoves ==
  ASSUME NEW s \in State, NEW R, NEW l \in Lit, IsFree(s, l), NEW ante \in SUBSET Lit,
         ante = NoAnte => {l} \in formula
  PROVE  LET t == ForceLit(s, l, ante)
         IN /\ Moves(s, t) /\ t.conflict = s.conflict /\ t.decisions = s.decisions
            /\ Real(s, R) => Real(t, R)
<1> DEFINE t == ForceLit(s, l, ante)
           e == [lit |-> l, level |-> DL(s), ante |-> ante]
<1>0. /\ DOMAIN s.trail = 1..Len(s.trail) /\ Len(s.trail) \in Nat /\ DL(s) \in Nat
      /\ s.trail \in Seq(Entry)
  BY Typed DEF State
<1>1. t = [s EXCEPT !.trail = Append(@, e)]
  BY DEF ForceLit, IsFree
<1>2. e \in Entry /\ e.lit = l /\ e.level = DL(s) /\ e.ante = ante
  BY <1>0 DEF Entry
<1>3. t.trail = Append(s.trail, e) /\ t.conflict = s.conflict /\ t.decisions = s.decisions
  BY <1>1 DEF State
<1> HIDE DEF t, e
<1>4. /\ DOMAIN t.trail = 1..(Len(s.trail) + 1) /\ t.trail[Len(s.trail) + 1] = e
      /\ \A j \in 1..Len(s.trail) : t.trail[j] = s.trail[j]
  BY <1>0, <1>2, <1>3, AppendProperties
<1>5. DL(t) = DL(s)
  BY <1>3 DEF DL
<1>6. Explained(t, e)
  BY <1>2 DEF Explained
<1>7. \A i \in DOMAIN t.trail : \/ i \in DOMAIN s.trail /\ t.trail[i] = s.trail[i]
                                \/ t.trail[i].level = DL(t) /\ Explained(t, t.trail[i])
  BY <1>0, <1>2, <1>4, <1>5, <1>6
<1>8. \A j \in DOMAIN s.trail : j \in DOMAIN t.trail /\ t.trail[j] = s.trail[j]
  BY <1>0, <1>4
<1>9. Moves(s, t)
  BY <1>0, <1>3, <1>5, <1>7, <1>8 DEF Moves, Stays
<1>10. Real(s, R) => Real(t, R)
  BY <1>3, <1>8 DEF Real, IsTrue, TrueLits
<1> QED
  BY <1>3, <1>9, <1>10 DEF t

LEMMA ForceMoves ==
  ASSUME NEW s \in State, NEW R, NEW l, NEW ante, Implied(s, R, l, ante)
  PROVE  LET t == ForceLit(s, l, ante) IN Moves(s, t) /\ (Real(s, R) => Real(t, R))
<1> DEFINE t == ForceLit(s, l, ante)
<1>0. /\ DOMAIN s.trail = 1..Len(s.trail) /\ Len(s.trail) \in Nat /\ DL(s) \in Nat
      /\ s.trail \in Seq(Entry) /\ l \in Lit /\ ante \in SUBSET Lit
  BY Typed DEF State, Implied
<1>1. CASE IsTrue(s, l)
  <2>1. t = s
    BY <1>1 DEF ForceLit
  <2> QED
    BY <2>1, SameMoves
<1>2. CASE ~IsTrue(s, l) /\ IsFalse(s, l)
  <2>1. t = SetConflict(s, l, ante)
    BY <1>2 DEF ForceLit
  <2>2. /\ t.trail = s.trail /\ t.decisions = s.decisions
        /\ t.conflict.lits = {-l} \cup Neg(ante \ {l})
    <3>1. /\ t.trail = s.trail /\ t.decisions = s.decisions
          /\ t.conflict = [has |-> TRUE, lits |-> {-l} \cup Neg(ante \ {l})]
      BY <2>1 DEF SetConflict, State
    <3> QED
      BY <3>1
  <2> HIDE DEF t
  <2>3. \A k \in t.conflict.lits : IsTrue(t, k)
    BY <1>2, <2>2 DEF Implied, IsTrue, IsFalse, TrueLits, Neg
  <2>4. Neg(t.conflict.lits) = {l} \cup ante
    <3>1. t.conflict.lits = Neg({l} \cup ante)
      BY <2>2 DEF Neg
    <3>2. {l} \cup ante \in SUBSET Lit
      BY <1>0
    <3> QED
      BY <3>1, <3>2, NegNeg
  <2>5. Real(t, R)
    BY <2>3, <2>4 DEF Real, Implied
  <2> QED
    BY <2>2, <2>5, SameMoves DEF t
<1>3. CASE ~IsTrue(s, l) /\ ~IsFalse(s, l)
  BY <1>0, <1>3, FreeMoves DEF IsFree, Implied
<1> QED
  BY <1>1, <1>2, <1>3

LEMMA AssumeMoves ==
  ASSUME NEW s \in State, NEW l \in FreeLits(s)
  PROVE  LET t == Assume(s, l)
         IN Moves(s, t) /\ t.conflict = s.conflict /\ t.stop = s.stop /\ DL(t) = DL(s) + 1
<1> DEFINE u == [s EXCEPT !.decisions = Append(@, l)]
           e == [lit |-> l, level |-> DL(u), ante |-> NoAnte]
           t == Assume(s, l)
<1>0. /\ DOMAIN s.trail = 1..Len(s.trail) /\ Len(s.trail) \in Nat /\ DL(s) \in Nat
      /\ s.trail \in Seq(Entry) /\ s.decisions \in Seq(Lit) /\ l \in Lit /\ IsFree(s, l)
  BY Typed DEF State, FreeLits
<1>1. /\ u.trail = s.trail /\ u.decisions = Append(s.decisions, l) /\ u.conflict = s.conflict
      /\ u.stop = s.stop
  BY DEF State
<1>2. t = ForceLit(u, l, NoAnte)
  BY <1>0 DEF Assume, IsFree
<1>3. ~IsTrue(u, l) /\ ~IsFalse(u, l)
  BY <1>0, <1>1 DEF IsFree, IsTrue, IsFalse, TrueLits
<1>4. t = [u EXCEPT !.trail = Append(@, e)]
  BY <1>2, <1>3 DEF ForceLit
<1>5. /\ t.trail = Append(s.trail, e) /\ t.decisions = Append(s.decisions, l)
      /\ t.conflict = s.conflict /\ t.stop = s.stop
  BY <1>1, <1>4 DEF State
<1>6. /\ DL(u) = DL(s) + 1 /\ DL(t) = DL(s) + 1 /\ t.decisions[DL(t)] = l
      /\ \A k \in 1..DL(s) : t.decisions[k] = s.decisions[k]
  BY <1>0, <1>1, <1>5, AppendProperties DEF DL
<1>7. e \in Entry /\ e.lit = l /\ e.level = DL(t) /\ e.ante = NoAnte
  BY <1>0, <1>6 DEF Entry, NoAnte
<1> HIDE DEF t, e, u
<1>8. /\ DOMAIN t.trail = 1..(Len(s.trail) + 1) /\ t.trail[Len(s.trail) + 1] = e
      /\ \A j \in 1..Len(s.trail) : t.trail[j] = s.trail[j]
  BY <1>0, <1>5, <1>7, AppendProperties
<1>9. Explained(t, e)
  BY <1>0, <1>6, <1>7 DEF Explained
<1>10. TrueBy(t, l, DL(t))
  <2>1. Len(s.trail) + 1 \in DOMAIN t.trail /\ DL(t) \in Nat
    BY <1>0, <1>6, <1>8
  <2> QED
    BY <1>7, <1>8, <2>1 DEF TrueBy
<1>11. \A j \in DOMAIN s.trail : j \in DOMAIN t.trail /\ t.trail[j] = s.trail[j]
  BY <1>0, <1>8
<1>12. \A i \in DOMAIN t.trail : \/ i \in DOMAIN s.trail /\ t.trail[i] = s.trail[i]
                                 \/ t.trail[i].level = DL(t) /\ Explained(t, t.trail[i])
  BY <1>0, <1>7, <1>8, <1>9
<1>13. \A k \in 1..DL(t) : IF k <= DL(s) THEN t.decisions[k] = s.decisions[k]
                           ELSE TrueBy(t, t.decisions[k], k)
  BY <1>0, <1>6, <1>10
<1> QED
  BY <1>5, <1>6, <1>11, <1>12, <1>13 DEF Moves, Stays, t

LEMMA ResetMoves ==
  ASSUME NEW s, Good(s), TrailShape(s), NEW level \in Nat
  PROVE  Moves(s, Reset(s, level))
<1> DEFINE r == Reset(s, level)
           target == MaxOf(level, s.bt)
<1>1. /\ Good(r) /\ DL(r) = MinOf(DL(s), target)
      /\ Cut(s, r, target) /\ \A i \in DOMAIN r.trail : r.trail[i].level <= DL(r)
  BY ResetFacts
<1>2. s \in State /\ DL(s) \in Nat /\ s.bt \in Nat /\ target \in Nat
      /\ \A i \in DOMAIN s.trail : s.trail[i].level \in Nat
  BY Typed DEF Good, MaxOf
<1>3. r.decisions = IF DL(s) <= target THEN s.decisions ELSE SubSeq(s.decisions, 1, target)
  <2> HIDE DEF target
  <2>1. CASE DL(s) <= target
    BY <1>2, <2>1 DEF Reset, State, target
  <2>2. CASE ~(DL(s) <= target)
    BY <1>2, <2>2 DEF Reset, State, target
  <2> QED
    BY <2>1, <2>2
<1> HIDE DEF r, target
<1>4. DL(r) <= target /\ DL(r) <= DL(s)
  BY <1>1, <1>2 DEF MinOf
<1>5. \A k \in 1..DL(r) : r.decisions[k] = s.decisions[k]
  <2>1. CASE DL(s) <= target
    BY <1>3, <2>1
  <2>2. CASE ~(DL(s) <= target)
    <3>1. s.decisions \in Seq(Lit) /\ Len(s.decisions) = DL(s)
      BY <1>2 DEF State, DL
    <3>2. \A i \in 1..target : s.decisions[i] \in Lit
      BY <1>2, <2>2, <3>1
    <3>3. \A k \in 1..target : SubSeq(s.decisions, 1, target)[k] = s.decisions[k]
      BY <1>2, <2>2, <3>1, <3>2, SubSeqProperties
    <3>4. DL(r) = target
      BY <1>1, <1>2, <2>2 DEF MinOf
    <3> QED
      BY <1>3, <2>2, <3>3, <3>4
  <2> QED
    BY <2>1, <2>2
<1>6. \A i \in DOMAIN s.trail : s.trail[i].level <= DL(r) => s.trail[i].level <= target
  <2>1. DL(r) \in Nat
    BY <1>1, Typed DEF Good
  <2> QED
    BY <1>2, <1>4, <2>1
<1>7. Stays(s, r, DL(r))
  BY <1>1, <1>6 DEF Cut, Stays
<1>8. \A k \in 1..DL(r) : k <= DL(s)
  <2>1. DL(r) \in Nat
    BY <1>1, Typed DEF Good
  <2> QED
    BY <1>2, <1>4, <2>1
<1> QED
  BY <1>1, <1>5, <1>7, <1>8 DEF Moves, Cut, r

(* The walk of ImpliedList::assign forces valid clauses only; at the top   *)
(* level it has nothing to force.                                          *)
Walks(s, R, acc) ==
  /\ acc.sol \in State /\ LevelsSame(s, acc.sol) /\ Moves(s, acc.sol) /\ Real(acc.sol, R)
  /\ DL(s) = 0 => acc.sol = s

LEMMA WalksStep ==
  ASSUME NEW R, NEW s \in State, ListFits(s, R), Listed(s),
         NEW i \in DOMAIN s.implied.lits, NEW acc, Walks(s, R, acc)
  PROVE  Walks(s, R, AssignNext(s, i, acc))
<1> DEFINE e == s.implied.lits[i]
           u == ForceLit(acc.sol, e.lit, e.ante)
<1>1. CASE Visited(s, i) /\ ~acc.sol.conflict.has
  <2>1. AssignNext(s, i, acc).sol = u
    BY <1>1 DEF AssignNext
  <2>2. /\ e.lit \in Lit /\ e.ante \in SUBSET Lit /\ e.level \in Nat /\ DL(s) \in Nat
        /\ e.level <= DL(s) /\ e.level > 0 /\ e.ante # NoAnte
    BY <1>1, Typed DEF Visited, Listed
  <2>3. /\ e.ante \in R /\ e.lit \in e.ante
        /\ \A k \in e.ante \ {e.lit} : TrueBy(s, -k, e.level)
    BY <2>2 DEF ListFits, EntryOk
  <2>4. Stays(s, acc.sol, DL(s))
    BY DEF Walks, LevelsSame, Moves, DL
  <2>5. \A k \in e.ante \ {e.lit} : IsFalse(acc.sol, k)
    <3> SUFFICES ASSUME NEW k \in e.ante \ {e.lit} PROVE IsFalse(acc.sol, k)
      OBVIOUS
    <3>1. TrueBy(acc.sol, -k, e.level)
      BY <2>2, <2>3, <2>4, StaysTrue
    <3> QED
      BY <3>1 DEF TrueBy, IsFalse, TrueLits
  <2>6. Implied(acc.sol, R, e.lit, e.ante)
    <3>1. {e.lit} \cup e.ante = e.ante
      BY <2>3
    <3> QED
      BY <2>2, <2>3, <2>5, <3>1 DEF Implied
  <2>7. Moves(acc.sol, u) /\ Real(u, R)
    BY <2>6, ForceMoves DEF Walks
  <2>8. u \in State /\ LevelsSame(acc.sol, u)
    BY <2>2, ForceType DEF Walks
  <2>9. Moves(s, u)
    BY <2>7, <2>8, MovesTrans DEF Walks, LevelsSame
  <2> HIDE DEF u
  <2> QED
    BY <2>1, <2>2, <2>7, <2>8, <2>9 DEF Walks, LevelsSame
<1>2. CASE ~(Visited(s, i) /\ ~acc.sol.conflict.has)
  <2>1. AssignNext(s, i, acc).sol = acc.sol
    BY <1>2 DEF AssignNext
  <2> QED
    BY <2>1 DEF Walks
<1> QED
  BY <1>1, <1>2

LEMMA AssignMoves ==
  ASSUME NEW R, NEW s \in State, ListFits(s, R), Listed(s), ~s.conflict.has
  PROVE  LET t == ImpliedAssign(s)
         IN Moves(s, t) /\ Real(t, R) /\ (DL(s) = 0 => /\ t.trail = s.trail /\ t.front = s.front
                                                   /\ t.conflict = s.conflict)
<1> DEFINE n == Len(s.implied.lits)
           f == AssignUpTo(s)
           t == ImpliedAssign(s)
<1>1. n \in Nat /\ DOMAIN s.implied.lits = 1..n
  BY Typed
<1>2. f[0] = [sol |-> s, kept |-> <<>>]
  BY AssignUpToSteps
<1>3. \A i \in 1..n : f[i] = AssignNext(s, i, f[i - 1])
  BY AssignUpToSteps
<1>4. /\ t.trail = f[n].sol.trail /\ t.decisions = f[n].sol.decisions
      /\ t.conflict = f[n].sol.conflict /\ t.front = f[n].sol.front
  <2>1. f[n].sol \in State
    BY AssignUpToType DEF Walked
  <2> HIDE DEF f, n
  <2> QED
    BY <2>1 DEF ImpliedAssign, State, f, n
<1> HIDE DEF f, n, t
<1> DEFINE S == {i \in Nat : i <= n => Walks(s, R, f[i])}
<1>5. 0 \in S
  <2>1. Walks(s, R, f[0])
    BY <1>2, SameMoves DEF Walks, LevelsSame, Real
  <2> QED
    BY <2>1
<1>6. \A i \in Nat : i \in S => i + 1 \in S
  <2> SUFFICES ASSUME NEW i \in Nat, i \in S, i + 1 <= n PROVE Walks(s, R, f[i + 1])
    OBVIOUS
  <2>1. Walks(s, R, f[i])
    BY <1>1
  <2>2. i + 1 \in DOMAIN s.implied.lits /\ i + 1 \in 1..n /\ (i + 1) - 1 = i
    BY <1>1
  <2>3. f[i + 1] = AssignNext(s, i + 1, f[i])
    BY <1>3, <2>2
  <2> QED
    BY <2>1, <2>2, <2>3, WalksStep
<1>7. Nat \subseteq S
  <2> HIDE DEF S
  <2> QED
    BY <1>5, <1>6, NatSetInduction
<1>8. Walks(s, R, f[n])
  BY <1>1, <1>7
<1>9. Moves(s, t)
  <2>1. DL(t) = DL(f[n].sol) /\ \A e : Explained(t, e) <=> Explained(f[n].sol, e)
    BY <1>4 DEF DL, Explained
  <2>2. \A l, k : TrueBy(t, l, k) <=> TrueBy(f[n].sol, l, k)
    BY <1>4 DEF TrueBy
  <2> QED
    BY <1>4, <1>8, <2>1, <2>2 DEF Walks, Moves, Stays
<1>10. Real(t, R)
  BY <1>4, <1>8 DEF Walks, Real, IsTrue, TrueLits
<1> QED
  BY <1>4, <1>8, <1>9, <1>10 DEF Walks, t

(***************************************************************************)
(* undo_until and pop_root_level of a solver that works alone.             *)
(***************************************************************************)
LEMMA UndoMoves ==
  ASSUME NEW R, NEW s, Good(s), TrailShape(s), Ordered(s), NEW level \in Nat,
         Lossless(s, MaxOf(level, s.bt))
  PROVE  LET t == UndoUntil(s, level)
         IN Moves(s, t) /\ Real(t, R) /\ Quiet(t) /\ t.stop = s.stop /\ NoneNew(s, t)
<1> DEFINE t == UndoUntil(s, level)
<1>1. t = Reset(s, level) /\ Quiet(t) /\ t.stop = s.stop /\ NoneNew(s, t)
  BY UndoQuiet DEF Cut, NoneNew
<1> HIDE DEF t
<1>2. Moves(s, t)
  BY <1>1, ResetMoves
<1> QED
  BY <1>1, <1>2 DEF Real, Quiet, t

LEMMA PopRootMoves ==
  ASSUME NEW R, NEW s, Good(s), Core(Base(s), R), Ordered(Base(s)), NEW n \in Nat,
         Lossless(Base(s), RootAfter(s, n))
  PROVE  LET t == PopRootLevel(s, n)
         IN /\ Moves(s, t) /\ Real(t, R) /\ ~t.stop.set
            /\ DL(t) = 0 => Quiet(t) /\ NoneNew(s, t)
<1> DEFINE c    == Base(s)
           x    == Popped(s, n)
           root == RootAfter(s, n)
           r    == Reset(x, root)
           t    == PopRootLevel(s, n)
<1>1. /\ t = UndoUntil(x, root)
      /\ root \in Nat /\ root <= DL(c) /\ DL(x) = DL(c)
      /\ Good(x) /\ TrailShape(x) /\ Reasoned(x, R) /\ ~x.stop.set
      /\ x.root = root /\ x.bt = root /\ x.trail = c.trail /\ x.decisions = c.decisions
      /\ x.implied.lits = c.implied.lits /\ x.implied.level = c.implied.level /\ x.implied.front = 0
      /\ c \in State
  BY PoppedFacts
<1>2. /\ Good(r) /\ r.root = x.root /\ r.bt = x.bt /\ r.implied = x.implied /\ r.stop = x.stop
      /\ r.front = Len(r.trail) /\ r.conflict = NoConflict
      /\ DL(r) = MinOf(DL(x), MaxOf(root, x.bt))
      /\ Cut(x, r, MaxOf(root, x.bt)) /\ \A i \in DOMAIN r.trail : r.trail[i].level <= DL(r)
      /\ t = IF ImpliedActive(r) THEN ImpliedAssign(r) ELSE r
  BY <1>1, ResetFacts
<1>3. Moves(x, r)
  BY <1>1, ResetMoves
<1>4. ~t.stop.set
  BY PopRootFollows
<1> HIDE DEF x, t, root, r, c
<1>5. c.trail = s.trail /\ c.decisions = s.decisions /\ s \in State /\ x \in State /\ r \in State
  BY <1>1, <1>2, BaseFacts DEF Good, c
<1>6. DL(r) = root /\ MaxOf(root, x.bt) = root
  BY <1>1, <1>2, Typed DEF MinOf, MaxOf
<1>7. Moves(s, r)
  <2>1. DL(x) = DL(s)
    BY <1>1, <1>5 DEF DL
  <2> QED
    BY <1>1, <1>3, <1>5, <2>1 DEF Moves, Stays
<1>8. ListFits(r, R) /\ Listed(r)
  <2>1. \A i \in DOMAIN c.implied.lits : EntryOk(c, R, c.implied.lits[i])
        /\ c.implied.lits[i].level \in Nat
    BY <1>1, Typed DEF Core, ImpliedOk, c
  <2>2. ASSUME NEW i \in DOMAIN c.implied.lits, c.implied.lits[i].level <= root
        PROVE  EntryOk(r, R, c.implied.lits[i])
    <3>1. \A l : TrueBy(x, l, c.implied.lits[i].level) => TrueBy(r, l, c.implied.lits[i].level)
      BY <1>1, <1>2, <1>5, <1>6, <2>1, <2>2, CutTrue
    <3>2. \A l, k : TrueBy(c, l, k) <=> TrueBy(x, l, k)
      BY <1>1 DEF TrueBy
    <3> QED
      BY <2>1, <3>1, <3>2 DEF EntryOk
  <2>3. \A i \in DOMAIN c.implied.lits : i >= 1
    BY <1>1, Typed
  <2>4. Listed(r)
    BY <1>1, <1>2 DEF Ordered, Listed, c
  <2>5. Len(r.implied.lits) \in Nat
    BY <1>5, Typed
  <2> QED
    BY <1>1, <1>2, <1>6, <2>2, <2>3, <2>4, <2>5 DEF ListFits
<1>9. CASE ImpliedActive(r)
  <2>1. /\ t = ImpliedAssign(r) /\ Moves(r, t) /\ Real(t, R)
        /\ DL(r) = 0 => t.trail = r.trail /\ t.front = r.front /\ t.conflict = r.conflict
    BY <1>2, <1>5, <1>8, <1>9, AssignMoves DEF NoConflict
  <2>2. t \in State /\ LevelsSame(r, t)
    BY <1>2, <1>5, <1>9, ImpliedAssignType
  <2>3. Moves(s, t)
    BY <1>5, <1>7, <2>1, <2>2, MovesTrans DEF LevelsSame
  <2>4. DL(t) = 0 => Quiet(t) /\ NoneNew(s, t)
    BY <1>1, <1>2, <1>5, <2>1, <2>2 DEF Quiet, NoConflict, LevelsSame, DL, Cut, NoneNew
  <2> QED
    BY <1>4, <2>1, <2>3, <2>4 DEF t
<1>10. CASE ~ImpliedActive(r)
  <2>1. t = r
    BY <1>2, <1>10
  <2> QED
    BY <1>1, <1>2, <1>4, <1>5, <1>7, <2>1 DEF Real, Quiet, NoConflict, t, Cut, NoneNew
<1> QED
  BY <1>9, <1>10

(* force_implied of a free literal below the backtrack level.              *)
LEMMA BelowMoves ==
  ASSUME NEW s, Good(s), TrailShape(s), Ordered(s), Quiet(s), DL(s) = s.bt,
         NEW l \in Lit, IsFree(s, l), NEW c \in SUBSET Lit, c # {},
         NEW level \in Nat, level < DL(s)
  PROVE  LET t == ForceImplied(s, l, level, c) IN Moves(s, t) /\ t.decisions = s.decisions
<1> DEFINE e == [lit |-> l, level |-> level, ante |-> c]
           u == UndoUntil(s, level)
           v == AddImplied(u, e)
           t == ForceLit(v, l, c)
<1>1. /\ s \in State /\ DL(s) \in Nat /\ s.bt \in Nat /\ MaxOf(level, s.bt) = s.bt
      /\ MinOf(DL(s), s.bt) = s.bt
  BY Typed DEF Good, MaxOf, MinOf
<1>2. u = Reset(s, level) /\ Good(u) /\ DL(u) = DL(s) /\ Cut(s, u, s.bt) /\ u.decisions = s.decisions
  <2>1. Lossless(s, MaxOf(level, s.bt))
    BY DEF Lossless
  <2>2. u.decisions = s.decisions
    BY <1>1, UndoUntilType
  <2> QED
    BY <1>1, <2>1, <2>2, UndoQuiet
<1>3. Moves(s, u)
  BY <1>2, ResetMoves
<1>4. e \in Entry
  BY DEF Entry
<1>5. v \in State /\ v.trail = u.trail /\ v.decisions = u.decisions
  BY <1>2, <1>4, AddImpliedType DEF Good, AddImplied, State
<1>6. IsFree(v, l)
  BY <1>2, <1>5 DEF Cut, IsFree, IsTrue, IsFalse, TrueLits
<1>7. ForceImplied(s, l, level, c) = t
  <2>1. ~IsTrue(s, l) /\ DL(u) # level
    BY <1>1, <1>2 DEF IsFree
  <2>2. ~IsTrue(v, l)
    BY <1>6 DEF IsFree
  <2> HIDE DEF u
  <2> QED
    BY <2>1, <2>2 DEF ForceImplied, u
<1> HIDE DEF u, v
<1>8. Moves(v, t) /\ t.decisions = v.decisions
  BY <1>5, <1>6, FreeMoves DEF NoAnte
<1> HIDE DEF t
<1>9. Moves(u, v) /\ u \in State
  BY <1>2, <1>5, SameMoves DEF Good
<1>10. Moves(s, v)
  BY <1>1, <1>3, <1>5, <1>9, MovesTrans
<1>11. Moves(s, t)
  BY <1>1, <1>5, <1>8, <1>10, MovesTrans
<1> QED
  BY <1>2, <1>5, <1>7, <1>8, <1>11

(* A learnt clause asserts its first literal on a level jumped back to.    *)
LEMMA LearntMoves ==
  ASSUME NEW R, NEW s, Good(s), Core(s, R), Ordered(s), s.bt < DL(s),
         NEW u, NEW tail, Asserting(s, R, u, tail), NEW l1 \in Second(s, tail)
  PROVE  LET t == Learnt(s, u, tail, l1)
         IN /\ Moves(s, t) /\ DL(t) < DL(s) /\ ~t.conflict.has
            /\ IsFree(JumpedBack(s, l1), -u)
<1> DEFINE l0 == -u
           c == {l0} \cup tail
           back == JumpedBack(s, l1)
           t == Learnt(s, u, tail, l1)
<1>1. l0 \in Lit /\ c \in SUBSET Lit /\ c # {} /\ s \in State /\ TrailShape(s)
  BY Complements DEF Asserting, Good, Core, TrailOk
<1>2. ~t.conflict.has
  BY LearntFollows DEF LearntFits
<1>3. PICK level \in Nat : Lands(s, u, tail, l1, level)
  BY LearntLands
<1>4. /\ \E n \in Nat : back = Reset(s, n)
      /\ Good(back) /\ TrailShape(back) /\ Ordered(back) /\ Quiet(back)
      /\ DL(back) < DL(s) /\ IsFree(back, l0)
      /\ level <= DL(back) /\ (level < DL(back) => level > 0 /\ DL(back) = back.bt)
      /\ t = ForceAtLevel(back, l0, level, c)
  BY <1>3 DEF Lands
<1> HIDE DEF t, back, c, l0
<1>5. Moves(s, back) /\ back \in State
  BY <1>1, <1>4, ResetMoves DEF Good
<1>6. CASE level = DL(back)
  <2>1. t = ForceLit(back, l0, c)
    BY <1>4, <1>6 DEF ForceAtLevel
  <2>2. Moves(back, t) /\ t.decisions = back.decisions
    <3>1. c = NoAnte => {l0} \in formula
      BY <1>1 DEF NoAnte
    <3>2. Moves(back, ForceLit(back, l0, c)) /\ ForceLit(back, l0, c).decisions = back.decisions
      BY <1>1, <1>4, <1>5, <3>1, FreeMoves
    <3> QED
      BY <2>1, <3>2
  <2>3. t \in State
    BY <1>1, <1>5, <2>1, ForceType
  <2>4. Moves(s, t)
    BY <1>1, <1>5, <2>2, <2>3, MovesTrans
  <2> QED
    BY <1>2, <1>4, <2>2, <2>4 DEF DL, back, t, l0
<1>7. CASE level # DL(back)
  <2>1. t = ForceImplied(back, l0, level, c)
    BY <1>4, <1>7 DEF ForceAtLevel
  <2>2. DL(back) \in Nat
    BY <1>5, Typed
  <2>3. DL(back) = back.bt /\ level < DL(back)
    BY <1>4, <1>7, <2>2
  <2>4. Moves(back, t) /\ t.decisions = back.decisions
    BY <1>1, <1>4, <2>1, <2>3, BelowMoves
  <2>5. Moves(s, t)
    BY <1>1, <1>5, <2>4, MovesTrans
  <2> QED
    BY <1>2, <1>4, <2>4, <2>5 DEF DL, back, t, l0
<1> QED
  BY <1>6, <1>7

(***************************************************************************)
(* The ledger of a running solver: every literal without a reason and      *)
(* every conflict comes from the problem or from a decision still open.    *)
(***************************************************************************)
Ledger ==
  /\ Known(sol)
  /\ Rooted(sol, IF Busy THEN DL(sol) - 1 ELSE DL(sol))
  /\ ~Busy => Real(Base(sol), Valid)
Steady == TypeOK /\ LevelInv /\ Sound /\ Propagated /\ Ledger

(* The top-level facts of the assignment are units of the problem.         *)
LEMMA KnownSure ==
  ASSUME NEW s \in State, Known(s)
  PROVE  /\ SureOf(formula, Facts(s)) = Valid
         /\ \A l \in Facts(s) : {l} \in formula
<1>1. ASSUME NEW l \in Facts(s) PROVE {l} \in formula
  <2>1. PICK i \in DOMAIN s.trail : s.trail[i].lit = l /\ s.trail[i].ante = NoAnte /\ s.trail[i].level = 0
    BY DEF Facts
  <2>2. Explained(s, s.trail[i])
    BY DEF Known
  <2>3. DL(s) \in Nat
    BY Typed
  <2>4. ~\E k \in 1..DL(s) : k <= 0
    BY <2>3
  <2> QED
    BY <2>1, <2>2, <2>4 DEF Explained
<1>2. ASSUME NEW m, Fulfils(m, formula) PROVE AllHold(m, Facts(s))
  BY <1>1, <1>2 DEF Fulfils, AllHold
<1> QED
  BY <1>1, <1>2 DEF SureOf, Valid, AllHold

LEMMA SteadySure ==
  ASSUME Steady
  PROVE  Sure = Valid /\ sol \in State /\ Known(sol) /\ Clauses \subseteq Valid
<1>1. sol \in State /\ Known(sol)
  BY DEF Steady, TypeOK, Ledger
<1>2. Sure = Valid
  BY <1>1, KnownSure DEF Sure
<1> QED
  BY <1>1, <1>2 DEF Steady, Sound, DbInv

LEMMA UnitValid ==
  ASSUME NEW l \in Lit, {l} \in formula
  PROVE  {l} \in Valid
BY DEF Valid, SureOf, Fulfils

(* The state without its stop conflict, when conflict and stop are kept.   *)
LEMMA SameReal ==
  ASSUME NEW R, NEW s \in State, NEW t \in State, t.trail = s.trail, t.conflict = s.conflict,
         t.stop = s.stop, Real(Base(s), R)
  PROVE  Real(Base(t), R)
<1>1. CASE s.stop.set
  <2>1. ~Base(t).conflict.has
    BY <1>1, BaseFacts
  <2> QED
    BY <2>1 DEF Real
<1>2. CASE ~s.stop.set
  BY <1>2, BaseFacts DEF Real, IsTrue, TrueLits
<1> QED
  BY <1>1, <1>2

(* A step of a solver that is not analysing a conflict.                    *)
Shifts == Moves(sol, sol') /\ Real(Base(sol'), Valid)

LEMMA ShapeNext ==
  ASSUME TypeOK', Sound'
  PROVE  sol' \in State /\ TrailShape(sol')
<1>1. sol' \in State
  BY DEF TypeOK
<1>2. Core(sol', Sure') \/ Core(Base(sol'), Sure')
  BY DEF Sound, SolverInv, SolverOk, Whole
<1> QED
  BY <1>1, <1>2, BaseFacts DEF Core, TrailOk, TrailShape, DL

LEMMA ShiftsLedger ==
  ASSUME Steady, TypeOK', Sound', ~Busy', formula' = formula, Shifts,
         ~Busy \/ DL(sol') < DL(sol)
  PROVE  Ledger'
<1>1. sol' \in State /\ TrailShape(sol') /\ sol \in State /\ Known(sol)
  BY ShapeNext, SteadySure
<1>2. DL(sol) \in Nat /\ DL(sol') \in Nat
  BY <1>1, Typed
<1> DEFINE n == IF Busy THEN DL(sol) - 1 ELSE DL(sol)
<1>3. n \in Nat /\ Rooted(sol, n) /\ n <= DL(sol) /\ (n = DL(sol) \/ DL(sol') <= n)
  BY <1>2 DEF Steady, Ledger
<1> HIDE DEF n
<1>4. Known(sol') /\ Rooted(sol', DL(sol'))
  BY <1>1, <1>3, MovesKeep DEF Shifts
<1>5. Valid' = Valid
  BY DEF Valid, SureOf
<1>6. Known(sol)'
  BY <1>4 DEF Known, Explained
<1> QED
  BY <1>4, <1>5, <1>6 DEF Ledger, Shifts, Rooted

(* A step that changes neither the trail nor the levels nor the conflict.  *)
LEMMA SameShifts ==
  ASSUME Steady, ~Busy, sol' \in State, sol'.trail = sol.trail, sol'.decisions = sol.decisions,
         sol'.conflict = sol.conflict, sol'.stop = sol.stop
  PROVE  Shifts
<1>1. sol \in State /\ Real(Base(sol), Valid)
  BY SteadySure DEF Steady, Ledger
<1> QED
  BY <1>1, SameMoves, SameReal DEF Shifts

(* A step that leaves no stop conflict.                                    *)
LEMMA PlainShifts ==
  ASSUME sol' \in State, ~sol'.stop.set, Moves(sol, sol'), Real(sol', Valid)
  PROVE  Shifts
BY BaseFacts DEF Shifts

LEMMA SteadyPlain ==
  ASSUME Steady, ~sol.stop.set
  PROVE  /\ sol \in State /\ Base(sol) = sol /\ Good(sol) /\ Ordered(sol) /\ Core(sol, Valid)
         /\ TrailShape(sol) /\ (~Busy => Real(sol, Valid)) /\ Closure(sol, imps, watches)
<1>1. Sure = Valid
  BY SteadySure
<1> QED
  BY <1>1, PlainProp DEF Steady, Ledger

(* A clause or a unit forces a literal.                                    *)
LEMMA ForceShifts ==
  ASSUME Steady, ~Busy, ~sol.stop.set, NEW l, NEW ante, Implied(sol, Valid, l, ante),
         sol' = ForceLit(sol, l, ante)
  PROVE  Shifts
<1>1. sol \in State /\ Real(sol, Valid)
  BY SteadyPlain
<1>2. Moves(sol, sol') /\ Real(sol', Valid)
  BY <1>1, ForceMoves
<1>3. sol' \in State /\ sol'.stop = sol.stop
  BY <1>1, ForceType DEF Implied, LevelsSame
<1> QED
  BY <1>2, <1>3, PlainShifts

LEMMA PropagationShifts ==
  ASSUME Steady, Propagation
  PROVE  /\ Shifts /\ ~Busy /\ ~Busy' /\ formula' = formula
         /\ sol'.stop = sol.stop /\ sol'.decisions = sol.decisions
<1>1. formula' = formula /\ pc = "prop" /\ ~Busy
  BY DEF Propagation, ForceByShort, MoveWatch, ForceByWatch, Dequeue, PropagateReturns, Propagating, Busy
<1>2. ~Busy'
  BY DEF Propagation, ForceByShort, MoveWatch, ForceByWatch, Dequeue, PropagateReturns, Propagating, Busy,
         Steady, Sound, ControlInv
<1> SUFFICES Shifts /\ sol'.stop = sol.stop /\ sol'.decisions = sol.decisions
  BY <1>1, <1>2
<1>3. /\ TypeOK /\ LevelInv /\ Sound /\ sol \in State /\ Sure = Valid /\ Clauses \subseteq Valid
      /\ sol.front \in Nat /\ Len(sol.trail) \in Nat
  BY SteadySure, Typed DEF Steady
<1>4. ASSUME Propagating, NEW c \in Clauses, NEW l \in c, \A k \in c \ {l} : IsFalse(sol, k),
             sol' = ForceLit(sol, l, c)
      PROVE  Shifts /\ sol'.stop = sol.stop /\ sol'.decisions = sol.decisions
  <2>1. ~sol.stop.set
    BY <1>1, <1>3, <1>4, NotStopped DEF Propagating
  <2>2. c \in SUBSET Lit /\ {l} \cup c = c
    BY <1>3 DEF TypeOK, Clauses
  <2>3. Implied(sol, Valid, l, c)
    BY <1>3, <1>4, <2>2 DEF Implied, NoAnte
  <2>4. sol'.stop = sol.stop /\ sol'.decisions = sol.decisions
    BY <1>3, <1>4, <2>2, ForceType DEF LevelsSame
  <2> QED
    BY <1>1, <1>4, <2>1, <2>3, <2>4, ForceShifts
<1>5. CASE ForceByShort
  <2>1. PICK c \in ShortPending : \E l \in Forced(c, c \ {-QHead}) : sol' = ForceLit(sol, l, c)
    BY <1>5 DEF ForceByShort
  <2>2. PICK l \in Forced(c, c \ {-QHead}) : sol' = ForceLit(sol, l, c)
    BY <2>1
  <2>3. c \in Clauses /\ l \in c /\ Cardinality(NotFalse(c)) <= 1 /\ NotFalse(c) \subseteq c
    BY DEF ShortPending, Clauses, Forced, NotFalse, Forcing
  <2>4. \A k \in c \ {l} : IsFalse(sol, k)
    <3>1. CASE NotFalse(c) = {}
      BY <3>1 DEF NotFalse
    <3>2. CASE NotFalse(c) # {}
      <4>1. l \in NotFalse(c)
        BY <3>2 DEF Forced
      <4>2. IsFiniteSet(NotFalse(c))
        <5>1. c \subseteq Lit
          BY <1>3, <2>3 DEF TypeOK, Clauses
        <5> QED
          BY <2>3, <5>1, LitFinite, FS_Subset
      <4>3. NotFalse(c) = {l}
        BY <2>3, <4>1, <4>2, SingleElement
      <4> QED
        BY <4>3 DEF NotFalse
    <3> QED
      BY <3>1, <3>2
  <2> QED
    BY <1>1, <1>4, <1>5, <2>2, <2>3, <2>4 DEF ForceByShort
<1>6. CASE ForceByWatch
  <2>1. PICK c \in WatchPending : /\ NotFalse(c) \subseteq watches[c]
                                  /\ \E l \in watches[c] \ {-QHead} : sol' = ForceLit(sol, l, c)
    BY <1>6 DEF ForceByWatch
  <2>2. PICK l \in watches[c] \ {-QHead} : sol' = ForceLit(sol, l, c)
    BY <2>1
  <2>3. Propagating /\ c \in Clauses /\ c \in Explicit /\ -QHead \in watches[c]
    BY <1>6 DEF WatchPending, Clauses, ForceByWatch
  <2>4. PICK a, b \in c : a # b /\ watches[c] = {a, b}
    BY <1>3, <2>3 DEF Sound, WatchInv, Watched
  <2>5. watches[c] = {l, -QHead} /\ l \in c
    BY <2>3, <2>4
  <2>6. IsFalse(sol, -QHead)
    <3>1. -(-QHead) = QHead /\ sol.front + 1 \in DOMAIN sol.trail
      BY <1>3, <2>3, HeadOfQueue
    <3> QED
      BY <3>1 DEF IsFalse, TrueLits, QHead
  <2>7. \A k \in c \ {l} : IsFalse(sol, k)
    BY <2>1, <2>5, <2>6 DEF NotFalse
  <2> QED
    BY <1>1, <1>4, <2>2, <2>3, <2>5, <2>7
<1>7. CASE MoveWatch
  <2>1. sol' = sol
    BY <1>7 DEF MoveWatch
  <2> QED
    BY <1>1, <1>3, <2>1, SameShifts
<1>8. CASE Dequeue \/ PropagateReturns
  <2>1. PICK n \in Nat : sol' = [sol EXCEPT !.front = n]
    <3>1. sol.front + 1 \in Nat
      BY <1>3
    <3> QED
      BY <1>3, <1>8, <3>1 DEF Dequeue, PropagateReturns
  <2>2. /\ sol' \in State /\ sol'.trail = sol.trail /\ sol'.decisions = sol.decisions
        /\ sol'.conflict = sol.conflict /\ sol'.stop = sol.stop
    BY <1>3, <2>1 DEF State
  <2> QED
    BY <1>1, <2>2, SameShifts
<1> QED
  BY <1>5, <1>6, <1>7, <1>8 DEF Propagation

(***************************************************************************)
(* The actions, one after the other.                                       *)
(***************************************************************************)
LEMMA AssumeShifts ==
  ASSUME Steady, ~Busy, NothingToLose, NEW l \in FreeLits(sol), sol' = Assume(sol, l), sol' \in State
  PROVE  Shifts /\ ~sol'.conflict.has /\ ~sol'.stop.set /\ DL(sol') = DL(sol) + 1
<1>1. ~sol.stop.set /\ ~sol.conflict.has
  BY NotStopped DEF Steady, NothingToLose
<1>2. sol \in State
  BY SteadySure
<1>3. /\ Moves(sol, sol') /\ sol'.conflict = sol.conflict /\ sol'.stop = sol.stop
      /\ DL(sol') = DL(sol) + 1
  BY <1>2, AssumeMoves
<1>4. Real(sol', Valid)
  BY <1>1, <1>3 DEF Real
<1> QED
  BY <1>1, <1>3, <1>4, PlainShifts

LEMMA UndoShifts ==
  ASSUME Steady, ~sol.stop.set, NEW level \in Nat, Lossless(sol, MaxOf(level, sol.bt)),
         sol' = UndoUntil(sol, level), sol' \in State
  PROVE  Shifts /\ Quiet(sol') /\ ~sol'.stop.set /\ NoneNew(sol, sol')
<1>1. Good(sol) /\ TrailShape(sol) /\ Ordered(sol)
  BY SteadyPlain
<1>2. Moves(sol, sol') /\ Real(sol', Valid) /\ Quiet(sol') /\ sol'.stop = sol.stop /\ NoneNew(sol, sol')
  BY <1>1, UndoMoves
<1> QED
  BY <1>2, PlainShifts

LEMMA PopRootShifts ==
  ASSUME Steady, ~Busy, NEW n \in Nat, sol' = PopRootLevel(sol, n), sol' \in State,
         Lossless(Base(sol), RootAfter(sol, n))
  PROVE  Shifts /\ ~sol'.stop.set /\ (DL(sol') = 0 => Quiet(sol') /\ NoneNew(sol, sol'))
<1>1. Good(sol) /\ Core(Base(sol), Sure) /\ Ordered(Base(sol))
  BY GoodSol DEF Steady, Sound, SolverInv, SolverOk, Whole, Propagated, PropOk
<1>2. Sure = Valid
  BY SteadySure
<1>3. Moves(sol, sol') /\ Real(sol', Valid) /\ ~sol'.stop.set
      /\ (DL(sol') = 0 => Quiet(sol') /\ NoneNew(sol, sol'))
  BY <1>1, <1>2, PopRootMoves
<1> QED
  BY <1>3, PlainShifts

LEMMA SetupShifts ==
  ASSUME Steady, TypeOK', AddFact \/ EndInit \/ Ready \/ PushRootAssume
  PROVE  /\ Shifts /\ ~Busy /\ ~Busy' /\ formula' = formula
         /\ PushRootAssume => sol' = sol \/ DL(sol') = DL(sol) + 1
<1>1. formula' = formula /\ ~Busy /\ ~Busy' /\ ControlInv /\ sol \in State /\ sol' \in State
  BY DEF AddFact, EndInit, Ready, PushRootAssume, Busy, Call, Steady, Sound, TypeOK
<1>2. ASSUME sol' = sol PROVE Shifts
  BY <1>1, <1>2, SameShifts
<1>3. ASSUME AddFact PROVE Shifts
  <2>1. PICK l \in UnitLits(formula) \ TrueLits(sol) : sol' = ForceLit(sol, l, NoAnte)
    BY <1>3 DEF AddFact
  <2>2. ~sol.stop.set
    BY <1>1, <1>3, NotStopped DEF AddFact, Steady
  <2>3. l \in Lit /\ {l} \in formula
    BY DEF UnitLits
  <2>4. {l} \in Valid /\ {l} \cup NoAnte = {l}
    BY <2>3, UnitValid DEF NoAnte
  <2>5. Implied(sol, Valid, l, NoAnte)
    BY <2>3, <2>4 DEF Implied, NoAnte
  <2> QED
    BY <1>1, <2>1, <2>2, <2>5, ForceShifts
<1>4. ASSUME EndInit \/ Ready PROVE Shifts
  BY <1>2, <1>4 DEF EndInit, Ready
<1>5. ASSUME PushRootAssume, sol' # sol PROVE Shifts /\ DL(sol') = DL(sol) + 1
  <2> DEFINE t == Assume(sol, arg)
  <2>1. arg \in FreeLits(sol) /\ sol' = PushRootLevel(t, 1) /\ NothingToLose
    BY <1>1, <1>5 DEF PushRootAssume, ControlInv
  <2>2. ~sol.stop.set /\ ~sol.conflict.has
    BY <1>1, <2>1, NotStopped DEF Steady, NothingToLose
  <2>3. Moves(sol, t) /\ t.conflict = sol.conflict /\ t.stop = sol.stop /\ DL(t) = DL(sol) + 1
    BY <1>1, <2>1, AssumeMoves
  <2>4. t \in State
    <3>1. Good(sol) /\ Ordered(sol) /\ Quiet(sol)
      BY <2>1, <2>2, SteadyPlain DEF NothingToLose, QueueEmpty, Quiet
    <3> QED
      BY <2>1, <3>1, AssumeFollows
  <2> HIDE DEF t
  <2>5. /\ sol'.trail = t.trail /\ sol'.decisions = t.decisions /\ sol'.conflict = t.conflict
        /\ sol'.stop = t.stop
    BY <2>1, <2>4 DEF PushRootLevel, State
  <2>6. Moves(t, sol')
    BY <2>4, <2>5, SameMoves
  <2>7. Moves(sol, sol')
    BY <1>1, <2>3, <2>4, <2>5, <2>6, MovesTrans
  <2>8. Real(sol', Valid) /\ ~sol'.stop.set
    BY <2>2, <2>3, <2>5 DEF Real
  <2> QED
    BY <1>1, <2>3, <2>5, <2>7, <2>8, PlainShifts DEF DL
<1> QED
  BY <1>1, <1>2, <1>3, <1>4, <1>5

LEMMA SearchShifts ==
  ASSUME Steady, TypeOK', LevelInv',
         SearchAside \/ SearchSimplify \/ SimplifyTop \/ Decide \/ BacktrackOnly \/ Learn
  PROVE  Shifts /\ ~Busy' /\ formula' = formula /\ (~Busy \/ DL(sol') < DL(sol))
<1>1. formula' = formula /\ ControlInv /\ sol \in State /\ sol' \in State
  BY DEF SearchAside, SearchTop, ModelFound, GiveUp, Refute, LimitReached, Continue,
         SearchSimplify, SimplifyTop, Decide, BacktrackOnly, Learn, Steady, Sound, TypeOK
<1>2. CASE SearchAside \/ SearchSimplify \/ SimplifyTop
  <2>1. sol' = sol /\ ~Busy /\ ~Busy'
    BY <1>2 DEF SearchAside, SearchTop, ModelFound, GiveUp, Refute, LimitReached, Continue, Return,
                SearchSimplify, SimplifyTop, Call, Busy
  <2> QED
    BY <1>1, <2>1, SameShifts
<1>3. CASE Decide
  <2>1. (\E l \in FreeLits(sol) : sol' = Assume(sol, l)) /\ ~Busy /\ ~Busy' /\ NothingToLose
    BY <1>1, <1>3 DEF Decide, Call, Busy, ControlInv
  <2> QED
    BY <1>1, <2>1, AssumeShifts
<1>4. CASE BacktrackOnly
  <2>1. ~Busy' /\ ~Busy
    BY <1>4 DEF BacktrackOnly, Call, Busy
  <2>2. ~sol.stop.set
    BY <1>4, BacktrackUndoes DEF Steady
  <2>3. PICK level \in Nat : Lossless(sol, MaxOf(level, sol.bt)) /\ sol' = UndoUntil(sol, level)
    BY <1>4, BacktrackUndoes DEF Steady
  <2> QED
    BY <1>1, <2>1, <2>2, <2>3, UndoShifts
<1>5. CASE Learn
  <2>1. pc = "learn" /\ Busy /\ SolverInv
    BY <1>5 DEF Learn, Busy, Steady, Sound
  <2>2. ~sol.stop.set /\ sol.bt < DL(sol)
    BY <2>1 DEF SolverInv
  <2>3. Good(sol) /\ Core(sol, Valid) /\ Ordered(sol) /\ Sure = Valid
    BY <2>2, SteadyPlain, SteadySure
  <2>4. PICK tail \in SUBSET Lit : \E l1 \in Second(sol, tail) : Learns(tail, l1)
    BY <1>5, LearnChoice DEF Steady
  <2>5. PICK l1 \in Second(sol, tail) : Learns(tail, l1)
    BY <2>4
  <2>6. Asserting(sol, Valid, an.uip, tail) /\ sol' = Learnt(sol, an.uip, tail, l1) /\ pc' = "prop"
    BY <2>3, <2>5 DEF Learns
  <2>7. Moves(sol, sol') /\ DL(sol') < DL(sol) /\ ~sol'.conflict.has
    BY <2>2, <2>3, <2>6, LearntMoves
  <2>8. Real(Base(sol'), Valid)
    BY <1>1, <2>7, BaseFacts DEF Real
  <2> QED
    BY <1>1, <2>6, <2>7, <2>8 DEF Shifts, Busy
<1> QED
  BY <1>2, <1>3, <1>4, <1>5

(* Conflict analysis takes away literals of the conflict level only.       *)
Analyses ==
  /\ Busy' /\ formula' = formula /\ imps' = imps /\ watches' = watches
  /\ Cut(sol, sol', DL(sol) - 1) /\ sol'.decisions = sol.decisions
  /\ sol'.conflict.has /\ sol.conflict.has /\ ~sol.stop.set /\ DL(sol) > 0

LEMMA AnalysisLedger ==
  ASSUME Steady, TypeOK', StartAnalysis \/ AnalysisPanics \/ Analyze
  PROVE  Analyses /\ Ledger'
<1>1. /\ Busy' /\ formula' = formula /\ imps' = imps /\ watches' = watches
      /\ sol \in State /\ sol' \in State
  BY DEF StartAnalysis, AnalysisPanics, Analyze, Busy, db, Steady, TypeOK
<1>2. /\ DL(sol) \in Nat /\ sol.root \in Nat /\ sol.bt \in Nat
      /\ DOMAIN sol.trail = 1..Len(sol.trail) /\ Len(sol.trail) \in Nat
  BY <1>1, Typed
<1>3. /\ Cut(sol, sol', DL(sol) - 1) /\ sol'.decisions = sol.decisions
      /\ sol'.conflict = sol.conflict /\ sol.conflict.has /\ ~sol.stop.set /\ DL(sol) > 0
  <2>1. CASE StartAnalysis
    <3>1. sol' = sol /\ sol.conflict.has /\ DL(sol) > sol.root /\ ~Busy
      BY <2>1 DEF StartAnalysis, Busy
    <3>2. ~sol.stop.set
      BY <1>2, <3>1 DEF Steady, Sound, SolverInv, SolverOk
    <3> QED
      BY <1>2, <3>1, <3>2 DEF Cut
  <2>2. CASE AnalysisPanics
    <3>1. sol' = sol /\ Busy /\ sol.conflict.has
      BY <2>2 DEF AnalysisPanics, Busy, Steady, Propagated
    <3>2. ~sol.stop.set /\ sol.bt < DL(sol)
      BY <3>1 DEF Steady, Sound, SolverInv
    <3> QED
      BY <1>2, <3>1, <3>2 DEF Cut
  <2>3. CASE Analyze
    <3>1. Busy /\ sol.conflict.has
      BY <2>3 DEF Analyze, Busy, Steady, Propagated
    <3> QED
      BY <1>2, <2>3, <3>1, AnalyzeCuts DEF Steady
  <2> QED
    BY <2>1, <2>2, <2>3
<1>4. DL(sol') = DL(sol)
  BY <1>3 DEF DL
<1>5. Known(sol)'
  <2>1. \A i \in DOMAIN sol'.trail : Explained(sol, sol'.trail[i])
    BY <1>3, SteadySure DEF Known, Cut
  <2> QED
    BY <1>1, <1>3, <1>4, <2>1 DEF Known, Explained
<1>6. Rooted(sol', DL(sol') - 1)
  <2>1. Rooted(sol, DL(sol) - 1)
    BY <1>2 DEF Steady, Ledger, Rooted
  <2>2. DL(sol) - 1 \in Nat
    BY <1>2, <1>3
  <2> SUFFICES ASSUME NEW k \in 1..(DL(sol) - 1) PROVE TrueBy(sol', sol.decisions[k], k)
    BY <1>3, <1>4 DEF Rooted
  <2>3. TrueBy(sol, sol.decisions[k], k) /\ k \in Nat /\ k <= DL(sol) - 1
    BY <2>1, <2>2 DEF Rooted
  <2> QED
    BY <1>1, <1>3, <2>2, <2>3, CutTrue
<1> QED
  BY <1>1, <1>3, <1>5, <1>6 DEF Analyses, Ledger, Rooted

(* A stop conflict comes and goes on top of the state.                     *)
LEMMA StopShifts ==
  ASSUME Steady, TypeOK', SetStop \/ ClearStop
  PROVE  /\ Shifts /\ sol'.trail = sol.trail /\ sol'.decisions = sol.decisions
         /\ Base(sol').front = Base(sol).front
         /\ sol.conflict.has /\ ~sol.stop.set => sol'.conflict.has /\ ~sol'.stop.set
<1>1. ~Busy /\ sol \in State /\ sol' \in State /\ Real(Base(sol), Valid)
  BY DEF SetStop, ClearStop, Begin, Idle, Busy, Steady, Ledger, TypeOK
<1>2. CASE ClearStop
  <2>1. sol' = Base(sol)
    BY <1>2 DEF ClearStop, Base
  <2>2. Base(sol') = sol' /\ sol'.trail = sol.trail /\ sol'.decisions = sol.decisions
        /\ (~sol.stop.set => sol' = sol)
    BY <1>1, <2>1, BaseFacts
  <2> QED
    BY <1>1, <2>1, <2>2, SameMoves DEF Shifts
<1>3. CASE SetStop /\ sol.conflict.has
  <2>1. sol' = PushRootLevel(sol, DL(sol))
    BY <1>3 DEF SetStop, SetStopConflict
  <2>2. /\ sol'.trail = sol.trail /\ sol'.decisions = sol.decisions /\ sol'.conflict = sol.conflict
        /\ sol'.stop = sol.stop /\ sol'.front = sol.front
    BY <1>1, <2>1 DEF PushRootLevel, State
  <2>3. Base(sol').front = Base(sol).front
    BY <1>1, <2>2, BaseFacts
  <2> QED
    BY <1>1, <1>3, <2>2, <2>3, SameMoves, SameReal DEF Shifts
<1>4. CASE SetStop /\ ~sol.conflict.has
  <2> DEFINE saved == [set |-> TRUE, root |-> sol.root, bt |-> sol.bt, front |-> sol.front]
             m == [sol EXCEPT !.stop = saved, !.conflict = [has |-> TRUE, lits |-> {}]]
  <2>1. sol' = PushRootLevel(m, DL(sol))
    BY <1>4 DEF SetStop, SetStopConflict
  <2>2. m.trail = sol.trail /\ m.decisions = sol.decisions /\ m.stop = saved /\ DL(m) = DL(sol)
    BY <1>1 DEF State, DL
  <2>3. sol'.trail = sol.trail /\ sol'.decisions = sol.decisions /\ sol'.stop = saved
    <3>1. sol'.trail = m.trail /\ sol'.decisions = m.decisions /\ sol'.stop = m.stop
      BY <1>1, <2>1 DEF PushRootLevel, State
    <3> QED
      BY <2>2, <3>1
  <2>4. sol'.stop.set /\ sol'.stop.front = sol.front
    BY <2>3
  <2>5. ~sol.stop.set
    BY <1>1, <1>4, NotStopped DEF Steady
  <2>6. Base(sol').front = Base(sol).front /\ ~Base(sol').conflict.has
    BY <1>1, <2>4, <2>5, BaseFacts
  <2> QED
    BY <1>1, <1>4, <2>3, <2>6, SameMoves DEF Shifts, Real
<1> QED
  BY <1>2, <1>3, <1>4 DEF SetStop

LEMMA CallShifts ==
  ASSUME Steady, TypeOK',
         Search \/ Propagate \/ Choose \/ Restart \/ PushRoot \/ PopRoot \/ SetStop \/ ClearStop \/ Split
  PROVE  Shifts /\ ~Busy /\ ~Busy' /\ formula' = formula
<1>1. ~Busy /\ ~Busy' /\ formula' = formula /\ sol \in State /\ sol' \in State
  BY DEF Search, Propagate, Choose, Restart, PushRoot, PopRoot, SetStop, ClearStop, Split, Begin,
         Idle, Busy, Call, Steady, TypeOK
<1>2. CASE sol' = sol
  BY <1>1, <1>2, SameShifts
<1>3. CASE Choose
  BY <1>1, <1>3, AssumeShifts DEF Choose
<1>4. CASE Restart
  <2>1. NothingToLose /\ sol' = UndoUntil(sol, 0) /\ 0 \in Nat
    BY <1>4 DEF Restart
  <2>2. ~sol.stop.set
    BY <1>1, <2>1, NotStopped DEF NothingToLose, Steady
  <2>3. Lossless(sol, MaxOf(0, sol.bt))
    BY <2>1 DEF Lossless, Quiet, NothingToLose, QueueEmpty
  <2> QED
    BY <1>1, <2>1, <2>2, <2>3, UndoShifts
<1>5. CASE PopRoot
  BY <1>1, <1>5, PopRootUndoes, PopRootShifts DEF Steady
<1>6. CASE PushRoot /\ sol' # sol
  <2>1. 0 \in Nat
    OBVIOUS
  <2> QED
    BY <1>1, <1>6, <2>1, PushRootUndoes, PopRootShifts DEF Steady
<1>7. CASE Split
  <2>1. sol' = PushRootLevel(sol, 1)
    BY <1>7 DEF Split
  <2>2. /\ sol'.trail = sol.trail /\ sol'.decisions = sol.decisions /\ sol'.conflict = sol.conflict
        /\ sol'.stop = sol.stop
    BY <1>1, <2>1 DEF PushRootLevel, State
  <2> QED
    BY <1>1, <2>2, SameShifts
<1> QED
  BY <1>1, <1>2, <1>3, <1>4, <1>5, <1>6, <1>7, StopShifts DEF Search, Propagate

(* The calls of a solver that works alone.                                 *)
LEMMA AloneNext ==
  ASSUME CallsAlone, Sound, [Next]_vars
  PROVE  \/ UNCHANGED vars
         \/ AddFact \/ EndInit \/ Ready \/ PushRootAssume
         \/ Propagation
         \/ SearchAside \/ SearchSimplify \/ SimplifyTop \/ Decide \/ BacktrackOnly \/ Learn
         \/ StartAnalysis \/ AnalysisPanics \/ Analyze
         \/ Search \/ Propagate \/ Choose \/ Restart \/ PushRoot \/ PopRoot \/ SetStop \/ ClearStop \/ Split
<1>1. ~Integrate /\ ~BacktrackStep /\ ~SetBacktrack
  BY DEF CallsAlone, Integrate, BacktrackStep, SetBacktrack, Begin, Counted
<1>2. pc # "integrate" /\ pc # "flip"
  BY DEF CallsAlone, Sound, ControlInv
<1>3. ~Integrated /\ ~Flip
  BY <1>2 DEF Integrated, Flip
<1>4. SearchStep => \/ SearchAside \/ SearchSimplify \/ SimplifyTop \/ Decide \/ BacktrackOnly \/ Learn
                    \/ StartAnalysis \/ AnalysisPanics \/ Analyze
  BY DEF SearchStep, SearchAside
<1> QED
  BY <1>1, <1>3, <1>4 DEF Next, Running, ApiCall

LEMMA NextShifts ==
  ASSUME CallsAlone, Steady, TypeOK', LevelInv', Sound', [Next]_vars
  PROVE  \/ UNCHANGED vars
         \/ Analyses /\ (StartAnalysis \/ AnalysisPanics \/ Analyze)
         \/ Shifts /\ ~Busy' /\ formula' = formula /\ (~Busy \/ DL(sol') < DL(sol))
<1>1. Sound
  BY DEF Steady
<1> QED
  BY <1>1, AloneNext, SetupShifts, PropagationShifts, SearchShifts, AnalysisLedger, CallShifts

LEMMA NextLedger ==
  ASSUME CallsAlone, Steady, TypeOK', LevelInv', Sound', [Next]_vars
  PROVE  Ledger'
<1>1. CASE UNCHANGED vars
  <2>1. sol' = sol /\ formula' = formula /\ pc' = pc
    BY <1>1 DEF vars
  <2>2. Known(sol)' /\ Valid' = Valid /\ Busy' = Busy
    BY <2>1 DEF Steady, Ledger, Known, Explained, Valid, SureOf, Busy
  <2> QED
    BY <2>1, <2>2 DEF Steady, Ledger, Rooted, Real, Base
<1> QED
  BY <1>1, NextShifts, AnalysisLedger, ShiftsLedger

LEMMA InitLedger ==
  ASSUME Init
  PROVE  Ledger
<1>1. /\ sol.trail = <<>> /\ sol.decisions = <<>> /\ ~sol.conflict.has /\ ~sol.stop.set /\ pc = "init"
      /\ sol = NewSolver
  BY DEF Init, NewSolver, NoConflict, NoStop
<1>2. Base(sol) = sol
  BY <1>1 DEF Base, ClearStopConflict
<1>3. DL(sol) = 0 /\ ~Busy
  BY <1>1 DEF DL, Busy
<1> QED
  BY <1>1, <1>2, <1>3 DEF Ledger, Known, Rooted, Real

LEMMA AlwaysSteady ==
  ASSUME CallsAlone
  PROVE  Spec => []Steady
<1>1. Spec => [](TypeOK /\ LevelInv /\ Sound /\ Propagated)
  BY AlwaysPropagated
<1>2. Init => Ledger
  BY InitLedger
<1>3. /\ TypeOK /\ LevelInv /\ Sound /\ Propagated /\ (TypeOK /\ LevelInv /\ Sound /\ Propagated)'
      /\ Ledger /\ [Next]_vars
      => Ledger'
  BY NextLedger DEF Steady
<1> QED
  BY <1>1, <1>2, <1>3, PTL DEF Spec, Steady

(***************************************************************************)
(* Where the thread is. The top level is set up, or found in conflict,     *)
(* while no level is open; a conflict that ends the search is on the root  *)
(* level.                                                                  *)
(***************************************************************************)
AtTop == DL(sol) = 0 /\ ~sol.stop.set
Flow ==
  /\ formula \in Formulas /\ excluded = {}
  /\ ~Idle => result = "none"
  /\ pc \in {"init", "ready", "giveup"} => AtTop
  /\ pc = "prop" /\ ret.ok = "ready" => AtTop
  /\ pc = "prop" /\ ret.fail = "giveup" => AtTop
  /\ pc = "prop" /\ ret.ok = "after" => ~sol.stop.set
  /\ pc = "after" /\ sol.conflict.has => DL(sol) = sol.root

LEMMA InitFlow ==
  ASSUME Init
  PROVE  Flow
<1>1. sol.decisions = <<>> /\ ~sol.stop.set /\ pc = "init"
  BY DEF Init, NewSolver, NoStop
<1>2. AtTop
  BY <1>1 DEF AtTop, DL
<1> QED
  BY <1>1, <1>2 DEF Init, Flow

LEMMA NextFlow ==
  ASSUME CallsAlone, Steady, Flow, TypeOK', LevelInv', Sound', [Next]_vars
  PROVE  Flow'
<1>1. /\ ControlInv /\ sol \in State /\ sol' \in State /\ DL(sol) \in Nat /\ sol.root \in Nat
      /\ sol.bt \in Nat /\ sol.root <= sol.bt /\ sol.bt <= DL(sol)
  BY Typed DEF Steady, Sound, TypeOK, LevelInv
<1>2. CASE UNCHANGED vars
  BY <1>2 DEF Flow, vars, AtTop, Idle
<1>3. CASE AddFact
  <2>1. /\ formula' = formula /\ excluded' = excluded /\ result' = result /\ pc' = "init" /\ pc = "init"
        /\ \E l \in Lit : sol' = ForceLit(sol, l, NoAnte)
    BY <1>3 DEF AddFact, UnitLits
  <2>2. sol'.decisions = sol.decisions /\ sol'.stop = sol.stop
    BY <1>1, <2>1, ForceType DEF LevelsSame, NoAnte
  <2> QED
    BY <2>1, <2>2 DEF Flow, AtTop, DL, Idle
<1>4. CASE EndInit
  BY <1>4 DEF Flow, EndInit, Call, AtTop, Idle
<1>5. CASE Ready
  BY <1>5 DEF Flow, Ready, AtTop, Idle
<1>6. CASE PushRootAssume
  BY <1>6 DEF Flow, PushRootAssume, Call, AtTop, Idle
<1>7. CASE Propagation
  <2>1. formula' = formula /\ sol'.stop = sol.stop /\ sol'.decisions = sol.decisions
    BY <1>7, PropagationShifts
  <2>2. AtTop' = AtTop
    BY <2>1 DEF AtTop, DL
  <2>3. excluded' = excluded /\ result' = result /\ ret' = ret /\ pc = "prop"
    BY <1>7 DEF Propagation, ForceByShort, MoveWatch, ForceByWatch, Dequeue, PropagateReturns, Propagating
  <2>4. CASE pc' = pc
    BY <2>1, <2>2, <2>3, <2>4 DEF Flow, Idle
  <2>5. CASE PropagateReturns
    <3>1. sol' = [sol EXCEPT !.front = Len(sol.trail)]
      BY <2>5 DEF PropagateReturns
    <3>2. sol'.conflict = sol.conflict
      BY <1>1, <3>1 DEF State
    <3>3. pc' = IF sol.conflict.has THEN ret.fail ELSE ret.ok
      BY <2>5 DEF PropagateReturns
    <3> QED
      BY <1>1, <2>1, <2>2, <2>3, <3>2, <3>3 DEF Flow, Idle, ControlInv
  <2> QED
    BY <1>7, <2>3, <2>4, <2>5 DEF Propagation, ForceByShort, MoveWatch, ForceByWatch, Dequeue
<1>8. CASE SearchAside \/ SearchSimplify
  <2>1. /\ formula' = formula /\ excluded' = excluded /\ sol' = sol
        /\ pc' \in {"idle", "resolve", "prop", "after", "decide"}
        /\ pc' # "idle" => result' = result /\ ~Idle
        /\ pc' = "prop" => ret' = [ok |-> "simplify", fail |-> "resolve"]
    BY <1>8 DEF SearchAside, SearchTop, ModelFound, GiveUp, Refute, LimitReached, Continue, Return,
                SearchSimplify, Call, Idle
  <2>2. pc' = "after" => GiveUp
    BY <1>8 DEF SearchAside, SearchTop, ModelFound, Refute, LimitReached, Continue, Return,
                SearchSimplify, Call
  <2>3. GiveUp /\ sol.conflict.has => DL(sol) = sol.root
    BY <1>1 DEF GiveUp
  <2> QED
    BY <2>1, <2>2, <2>3 DEF Flow, AtTop, Idle
<1>9. CASE SimplifyTop
  <2>1. ~sol.stop.set
    BY <1>9, NotStopped DEF SimplifyTop, Busy, Steady
  <2> QED
    BY <1>9, <2>1 DEF Flow, SimplifyTop, Call, AtTop, Idle
<1>10. CASE Decide
  BY <1>10 DEF Flow, Decide, Call, AtTop, Idle
<1>11. CASE BacktrackOnly
  <2>1. PICK level \in Nat : Lossless(sol, MaxOf(level, sol.bt)) /\ sol' = UndoUntil(sol, level)
    BY <1>11, BacktrackUndoes DEF Steady
  <2>2. ~sol'.stop.set
    BY <1>1, <1>11, <2>1, BacktrackUndoes, UndoShifts DEF Steady
  <2> QED
    BY <1>11, <2>2 DEF Flow, BacktrackOnly, Call, AtTop, Idle
<1>12. CASE Learn
  <2>1. ~sol'.stop.set /\ pc' = "prop" /\ ret' = [ok |-> "after", fail |-> "resolve"]
    <3>1. \E tail \in SUBSET Lit : \E l1 \in Second(sol, tail) : Learns(tail, l1)
      BY <1>12, LearnChoice DEF Steady
    <3>2. ~sol'.conflict.has /\ pc' = "prop" /\ ret' = [ok |-> "after", fail |-> "resolve"]
      BY <3>1 DEF Learns, LearntFits
    <3>3. ~sol'.stop.set
      BY <3>2 DEF Sound, SolverInv, SolverOk, Busy
    <3> QED
      BY <3>2, <3>3
  <2> QED
    BY <1>12, <2>1 DEF Flow, Learn, AtTop, Idle
<1>13. CASE StartAnalysis \/ AnalysisPanics \/ Analyze
  BY <1>13 DEF Flow, StartAnalysis, AnalysisPanics, Analyze, AtTop, Idle
<1>14. CASE \/ Search \/ Propagate \/ Choose \/ Restart \/ PushRoot \/ PopRoot \/ SetStop \/ ClearStop
            \/ Split
  <2>1. /\ formula' = formula /\ excluded' = excluded /\ result' = "none"
        /\ pc' \in {"idle", "top", "prop", "push"}
        /\ pc' = "prop" => ret'.ok \in {"idle", "push"} /\ ret'.fail = "idle"
    BY <1>14 DEF Search, Propagate, Choose, Restart, PushRoot, PopRoot, SetStop, ClearStop, Split,
                 Begin, Counted, Call, Idle
  <2> QED
    BY <2>1 DEF Flow, Idle
<1> QED
  BY <1>1, <1>2, <1>3, <1>4, <1>5, <1>6, <1>7, <1>8, <1>9, <1>10, <1>11, <1>12, <1>13, <1>14, AloneNext
  DEF Steady

(***************************************************************************)
(* What the problem says is said: by the clauses that are left, together   *)
(* with what is true at the top level. The units of the problem are true   *)
(* there. Short clauses are shrunk at the top level only, before a level   *)
(* is opened: later no ternary clause has a literal that is false there    *)
(* unless it has a true one as well.                                       *)
(***************************************************************************)
Said ==
  \A m \in Assignments : Fulfils(m, Clauses) /\ AllHold(m, TopLits(sol)) =>
    \A c \in formula : Cardinality(c) > 1 => \E l \in c : Holds(m, l)
UnitsTop == pc # "init" => UnitLits(formula) \subseteq TopLits(sol)
Early ==
  AtTop /\ (pc \in {"init", "ready", "after"} \/ (pc = "prop" /\ ret.ok \in {"ready", "after"}))
Clean ==
  \A c \in imps : Cardinality(c) = 3 /\ c \cap TopLits(sol) = {} => c \cap Neg(TopLits(sol)) = {}
Drained == DL(sol) = 0 => Base(sol).front = Len(sol.trail)
Tidy == Said /\ (Refuted \/ (UnitsTop /\ (Early \/ (Clean /\ Drained))))

LEMMA TopTrue ==
  ASSUME NEW s \in State
  PROVE  \A l : l \in TopLits(s) <=> TrueBy(s, l, 0)
<1>1. \A i \in DOMAIN s.trail : s.trail[i].level \in Nat
  BY Typed
<1>2. \A i \in DOMAIN s.trail : s.trail[i].level = 0 <=> s.trail[i].level <= 0
  BY <1>1
<1> QED
  BY <1>2 DEF TopLits, TrueBy

TopKept == /\ TopLits(sol) \subseteq TopLits(sol')
           /\ DL(sol') > 0 => TopLits(sol') \subseteq TopLits(sol)

LEMMA NextTop ==
  ASSUME CallsAlone, Steady, TypeOK', LevelInv', Sound', [Next]_vars
  PROVE  TopKept /\ formula' = formula
<1>1. sol' \in State /\ TrailShape(sol') /\ sol \in State /\ Known(sol)
  BY ShapeNext, SteadySure
<1>2. DL(sol) \in Nat /\ DL(sol') \in Nat
  BY <1>1, Typed
<1>3. CASE UNCHANGED vars
  BY <1>3 DEF vars, TopKept
<1>4. CASE Analyses
  <2>1. DL(sol) - 1 \in Nat /\ 0 <= DL(sol) - 1
    BY <1>2, <1>4 DEF Analyses
  <2>2. \A l : TrueBy(sol, l, 0) => TrueBy(sol', l, 0)
    BY <1>1, <1>4, <2>1, CutTrue DEF Analyses
  <2>3. \A l : TrueBy(sol', l, 0) => TrueBy(sol, l, 0)
    BY <1>4 DEF Analyses, Cut, TrueBy
  <2> QED
    BY <1>1, <1>4, <2>2, <2>3, TopTrue DEF TopKept, Analyses
<1>5. CASE Shifts /\ formula' = formula /\ (~Busy \/ DL(sol') < DL(sol))
  <2> DEFINE n == IF Busy THEN DL(sol) - 1 ELSE DL(sol)
  <2>1. n \in Nat /\ Rooted(sol, n) /\ n <= DL(sol) /\ (n = DL(sol) \/ DL(sol') <= n)
    BY <1>2, <1>5 DEF Steady, Ledger
  <2> HIDE DEF n
  <2>2. /\ \A l : TrueBy(sol, l, 0) => TrueBy(sol', l, 0)
        /\ DL(sol') > 0 => \A l : TrueBy(sol', l, 0) => TrueBy(sol, l, 0)
    BY <1>1, <1>5, <2>1, MovesKeep DEF Shifts
  <2> QED
    BY <1>1, <1>5, <2>2, TopTrue DEF TopKept
<1> QED
  BY <1>3, <1>4, <1>5, NextShifts

LEMMA TidyStep ==
  ASSUME Tidy, TopKept, formula' = formula, imps \subseteq imps', Explicit \subseteq DOMAIN watches',
         Early' \/ (\A c \in imps' \ imps : c \cap Neg(TopLits(sol)) = {}),
         pc' # "init" => pc # "init" \/ Refuted' \/ UnitLits(formula) \subseteq TopLits(sol),
         Refuted => Refuted', Early => Early' \/ Refuted', DL(sol) \in Nat, DL(sol') \in Nat,
         DL(sol') = 0 => \/ Refuted' \/ Early'
                         \/ Base(sol').front = Len(sol'.trail) /\ TopLits(sol') \subseteq TopLits(sol)
  PROVE  Tidy'
<1>1. Said'
  <2> SUFFICES ASSUME NEW m \in Assignments, Fulfils(m, Clauses'), AllHold(m, TopLits(sol'))
               PROVE  \A c \in formula : Cardinality(c) > 1 => \E l \in c : Holds(m, l)
    BY DEF Said, Assignments
  <2>1. Clauses \subseteq Clauses'
    BY DEF Clauses, Explicit
  <2>2. Fulfils(m, Clauses) /\ AllHold(m, TopLits(sol))
    BY <2>1 DEF Fulfils, AllHold, TopKept
  <2> QED
    BY <2>2 DEF Tidy, Said
<1>2. ASSUME ~Refuted' PROVE UnitsTop'
  BY <1>2 DEF Tidy, UnitsTop, TopKept, UnitLits
<1>3. ASSUME ~Refuted', ~Early' PROVE Clean' /\ Drained'
  <2>1. Clean /\ Drained
    BY <1>3 DEF Tidy
  <2>2. TopLits(sol') = TopLits(sol)
    <3>1. DL(sol') = 0 \/ DL(sol') > 0
      OBVIOUS
    <3>2. TopLits(sol') \subseteq TopLits(sol)
      BY <1>3, <3>1, Zenon DEF TopKept
    <3> QED
      BY <3>2 DEF TopKept
  <2>3. Clean'
    <3> SUFFICES ASSUME NEW c \in imps', Cardinality(c) = 3, c \cap TopLits(sol) = {}
                 PROVE  c \cap Neg(TopLits(sol)) = {}
      BY <2>2 DEF Clean, Neg
    <3> QED
      BY <1>3, <2>1 DEF Clean
  <2>4. Drained'
    BY <1>3 DEF Drained
  <2> QED
    BY <2>3, <2>4
<1> QED
  BY <1>1, <1>2, <1>3 DEF Tidy

(* The trail, the levels and the clauses stay as they are.                 *)
LEMMA SameTidy ==
  ASSUME Tidy, TopKept, formula' = formula, imps' = imps, watches' = watches,
         sol'.trail = sol.trail, sol'.decisions = sol.decisions, Base(sol').front = Base(sol).front,
         pc' # "init" => pc # "init" \/ Refuted' \/ UnitLits(formula) \subseteq TopLits(sol),
         Refuted => Refuted', Early => Early' \/ Refuted', DL(sol) \in Nat
  PROVE  Tidy'
<1>1. DL(sol') = DL(sol) /\ TopLits(sol') = TopLits(sol)
  BY DEF DL, TopLits
<1>2. DL(sol') = 0 => Refuted' \/ Early' \/ Base(sol').front = Len(sol'.trail)
  BY <1>1 DEF Tidy, Drained
<1> QED
  BY <1>1, <1>2, TidyStep DEF Explicit

(* At a top level on which everything is propagated, an open ternary       *)
(* clause has one false literal at most.                                   *)
LEMMA OneFalse ==
  ASSUME Steady, NothingToLose, ~Busy, DL(sol) = 0, NEW c \in imps, Cardinality(c) = 3,
         c \cap TopLits(sol) = {}, NEW f \in c, f \in Neg(TopLits(sol))
  PROVE  /\ c \ Neg(TopLits(sol)) = c \ {f} /\ Cardinality(c \ {f}) = 2
         /\ c \ {f} \subseteq FreeLits(sol)
<1>1. /\ ~sol.stop.set /\ ~sol.conflict.has /\ sol.front = Len(sol.trail)
  BY NotStopped DEF Steady, NothingToLose, QueueEmpty
<1>2. /\ sol \in State /\ ShortOk(sol, c) /\ TrailShape(sol) /\ Listed(sol) /\ c \in SUBSET Lit
  BY <1>1, SteadyPlain DEF Closure, Ordered, Steady, TypeOK
<1>3. \A i \in DOMAIN sol.trail : sol.trail[i].level = 0 /\ i <= sol.front
  BY <1>1, <1>2, Typed DEF TrailShape
<1>4. \A l : l \in TopLits(sol) => Done(sol, l, 0)
  BY <1>3 DEF TopLits, Done
<1>5. TrueLits(sol) = TopLits(sol)
  BY <1>3 DEF TopLits, TrueLits
<1>6. IsFiniteSet(c)
  BY <1>2, LitFinite, FS_Subset
<1>7. Cardinality(c \ {f}) = 2 /\ IsFiniteSet(c \ {f})
  BY <1>6, FS_RemoveElement
<1>8. ASSUME NEW g \in c \ {f}, g \in Neg(TopLits(sol)) PROVE FALSE
  <2>1. Cardinality((c \ {f}) \ {g}) = 1 /\ IsFiniteSet((c \ {f}) \ {g})
    BY <1>7, FS_RemoveElement
  <2>2. PICK x : (c \ {f}) \ {g} = {x}
    BY <2>1, FS_CardinalityType, FS_Singleton
  <2>3. x \in c /\ c \ {x} = {f, g}
    BY <2>2
  <2>4. -f \in TopLits(sol) /\ -g \in TopLits(sol)
    <3>1. TopLits(sol) \subseteq Lit
      BY <1>2, Typed DEF TopLits, Entry
    <3>2. \A h \in Neg(TopLits(sol)) : -h \in TopLits(sol)
      BY <3>1, Complements DEF Neg
    <3> QED
      BY <1>8, <3>2
  <2>5. \A y \in c \ {x} : Done(sol, -y, 0)
    BY <1>4, <2>3, <2>4
  <2>6. Settled(sol, 0) /\ 0 \in Nat
    BY <1>1 DEF Settled
  <2>7. Answered(sol, x, 0)
    BY <1>2, <2>3, <2>5, <2>6 DEF ShortOk
  <2>8. ~TrueBy(sol, x, 0)
    BY <1>2, <2>3, TopTrue
  <2>9. PICK i \in DOMAIN sol.implied.lits : sol.implied.lits[i].level <= 0
    BY <2>7, <2>8 DEF Answered, Remembered
  <2>10. sol.implied.lits[i].level > 0 /\ sol.implied.lits[i].level \in Nat
    BY <1>2, Typed DEF Listed
  <2> QED
    BY <2>9, <2>10
<1>9. c \ Neg(TopLits(sol)) = c \ {f}
  BY <1>8
<1>10. ASSUME NEW l \in c \ {f} PROVE l \in FreeLits(sol)
  <2>1. l \in Lit /\ ~IsTrue(sol, l)
    BY <1>2, <1>5 DEF IsTrue
  <2>2. ~IsFalse(sol, l)
    <3>1. -(-l) = l
      BY <2>1, Complements
    <3> QED
      BY <1>5, <1>8, <3>1 DEF IsFalse, Neg
  <2> QED
    BY <2>1, <2>2 DEF FreeLits, IsFree
<1> QED
  BY <1>7, <1>9, <1>10

(* Simplifying drops satisfied clauses, and shrinks others by literals     *)
(* that are false for good.                                                *)
LEMMA SimplifyTidy ==
  ASSUME Steady, Tidy, NothingToLose, ~Busy, formula' = formula, sol' = sol, watches' = watches,
         imps' = Simplified(imps, sol), pc # "init",
         DL(sol) = 0 \/ Clean
  PROVE  Tidy'
<1> DEFINE top == TopLits(sol)
<1>1. ~sol.stop.set /\ ~sol.conflict.has /\ sol.front = Len(sol.trail) /\ sol \in State
  BY NotStopped, SteadySure DEF Steady, NothingToLose, QueueEmpty
<1>2. Base(sol) = sol
  BY <1>1, BaseFacts
<1>3. ASSUME NEW c \in imps, c \cap top = {} PROVE \E d \in imps' : d \subseteq c
  <2>1. CASE ~(Cardinality(c) = 3 /\ c \cap Neg(top) # {})
    BY <1>3, <2>1 DEF Simplified
  <2>2. CASE Cardinality(c) = 3 /\ c \cap Neg(top) # {}
    <3>1. DL(sol) = 0
      BY <1>3, <2>2 DEF Clean
    <3>2. PICK f \in c : f \in Neg(top)
      BY <2>2
    <3>3. /\ c \ Neg(top) = c \ {f} /\ Cardinality(c \ {f}) = 2 /\ c \ {f} \subseteq FreeLits(sol)
      BY <1>3, <2>2, <3>1, <3>2, OneFalse
    <3>4. c \ Neg(top) \in imps'
      BY <1>3, <2>2, <3>3 DEF Simplified
    <3> QED
      BY <3>4
  <2> QED
    BY <2>1, <2>2
<1>4. Said'
  <2> SUFFICES ASSUME NEW m \in Assignments, Fulfils(m, Clauses'), AllHold(m, top)
               PROVE  \A c \in formula : Cardinality(c) > 1 => \E l \in c : Holds(m, l)
    BY DEF Said, Assignments
  <2>1. \A c \in imps : \E l \in c : Holds(m, l)
    <3> SUFFICES ASSUME NEW c \in imps PROVE \E l \in c : Holds(m, l)
      OBVIOUS
    <3>1. CASE c \cap top # {}
      BY <3>1 DEF AllHold
    <3>2. CASE c \cap top = {}
      <4>1. PICK d \in imps' : d \subseteq c
        BY <1>3, <3>2
      <4>2. \E l \in d : Holds(m, l)
        BY DEF Fulfils, Clauses
      <4> QED
        BY <4>1, <4>2
    <3> QED
      BY <3>1, <3>2
  <2>2. Fulfils(m, Clauses)
    BY <2>1 DEF Fulfils, Clauses, Explicit
  <2> QED
    BY <2>2 DEF Tidy, Said
<1>5. Clean'
  <2> SUFFICES ASSUME NEW c \in imps', Cardinality(c) = 3 PROVE c \cap Neg(top) = {}
    BY DEF Clean
  <2>1. CASE c \in imps /\ ~(Cardinality(c) = 3 /\ c \cap Neg(top) # {})
    BY <2>1
  <2>2. CASE ~(c \in imps /\ ~(Cardinality(c) = 3 /\ c \cap Neg(top) # {}))
    <3>1. PICK k \in imps : c = k \ Neg(top) /\ Cardinality(k \ Neg(top)) = 2
      BY <2>2 DEF Simplified
    <3> QED
      BY <3>1
  <2> QED
    BY <2>1, <2>2
<1>6. UnitsTop' /\ Drained'
  BY <1>1, <1>2 DEF Tidy, Refuted, UnitsTop, Drained, UnitLits
<1> QED
  BY <1>4, <1>5, <1>6 DEF Tidy

LEMMA PropagationTidy ==
  ASSUME Steady, Flow, Tidy, TopKept, sol' \in State, formula' = formula, Propagation
  PROVE  Tidy'
<1>1. /\ sol \in State /\ DL(sol) \in Nat /\ DL(sol') = DL(sol) /\ sol'.stop = sol.stop
      /\ ~Busy /\ AtTop' = AtTop
  BY SteadySure, Typed, PropagationShifts DEF DL, AtTop
<1>2. imps' = imps /\ Explicit \subseteq DOMAIN watches' /\ ret' = ret /\ pc = "prop"
  BY DEF Propagation, ForceByShort, MoveWatch, ForceByWatch, Dequeue, PropagateReturns, Propagating,
         Explicit, db
<1>3. CASE PropagateReturns
  <2>1. sol' = [sol EXCEPT !.front = Len(sol.trail)]
    BY <1>3 DEF PropagateReturns
  <2>2. /\ sol'.trail = sol.trail /\ sol'.conflict = sol.conflict /\ sol'.front = Len(sol.trail)
    BY <1>1, <2>1 DEF State
  <2>3. pc' = IF sol.conflict.has THEN ret.fail ELSE ret.ok
    BY <1>3 DEF PropagateReturns
  <2>4. Refuted => Refuted'
    BY <1>1, <2>2 DEF Refuted
  <2>5. Early => Early' \/ Refuted'
    BY <1>1, <1>2, <2>2, <2>3 DEF Early, Refuted, AtTop
  <2>6. DL(sol') = 0 => Refuted' \/ Early' \/ Base(sol').front = Len(sol'.trail)
    <3>1. CASE sol.stop.set
      <4>1. ~Refuted /\ ~Early
        BY <3>1 DEF Refuted, Early, AtTop
      <4>2. Base(sol').front = Base(sol).front
        BY <1>1, <3>1, BaseFacts
      <4> QED
        BY <1>1, <2>2, <4>1, <4>2 DEF Tidy, Drained
    <3>2. CASE ~sol.stop.set
      BY <1>1, <2>2, <3>2, BaseFacts
    <3> QED
      BY <3>1, <3>2
  <2>7. TopLits(sol') \subseteq TopLits(sol)
    BY <2>2 DEF TopLits
  <2> QED
    BY <1>1, <1>2, <2>4, <2>5, <2>6, <2>7, TidyStep
<1>4. CASE ~PropagateReturns
  <2>1. pc' = pc /\ ~sol.conflict.has /\ sol.front # Len(sol.trail)
    BY <1>4 DEF Propagation, ForceByShort, MoveWatch, ForceByWatch, Dequeue, Propagating, QueueEmpty
  <2>2. ~sol.stop.set
    BY <1>1, <2>1, NotStopped DEF Steady
  <2>3. Early' = Early /\ ~Refuted
    BY <1>1, <1>2, <2>1 DEF Early, Refuted
  <2>4. DL(sol') = 0 => Early
    BY <1>1, <2>1, <2>2, <2>3, BaseFacts DEF Tidy, Drained
  <2> QED
    BY <1>1, <1>2, <2>3, <2>4, TidyStep
<1> QED
  BY <1>3, <1>4

LEMMA SetupTidy ==
  ASSUME Steady, Flow, Tidy, TopKept, TypeOK', formula' = formula,
         AddFact \/ EndInit \/ Ready \/ PushRootAssume
  PROVE  Tidy'
<1>1. /\ sol \in State /\ sol' \in State /\ DL(sol) \in Nat /\ DL(sol') \in Nat /\ ~Busy /\ ControlInv
      /\ TrailShape(sol)
  <2>1. ~Busy /\ ControlInv
    BY DEF AddFact, EndInit, Ready, PushRootAssume, Busy, Steady, Sound
  <2>2. sol \in State /\ sol' \in State
    BY DEF Steady, TypeOK
  <2>3. Core(Base(sol), Sure)
    BY <2>1 DEF Steady, Sound, SolverInv, SolverOk, Whole
  <2> QED
    BY <2>1, <2>2, <2>3, BaseFacts, Typed DEF Core, TrailOk, TrailShape
<1>2. CASE AddFact
  <2>1. /\ imps' = imps /\ watches' = watches /\ pc = "init" /\ pc' = "init" /\ ~sol.conflict.has
        /\ \E l \in Lit : sol' = ForceLit(sol, l, NoAnte)
    BY <1>2 DEF AddFact, UnitLits, db
  <2>2. sol'.decisions = sol.decisions /\ sol'.stop = sol.stop
    BY <1>1, <2>1, ForceType DEF LevelsSame, NoAnte
  <2>3. Early' /\ ~Refuted
    BY <2>1, <2>2 DEF Early, AtTop, DL, Flow, Refuted
  <2> QED
    BY <1>1, <2>1, <2>3, TidyStep DEF Explicit
<1>3. CASE EndInit
  <2>1. /\ imps' = imps /\ watches' = watches /\ pc = "init" /\ sol' = sol
        /\ IF sol.conflict.has THEN pc' = "idle" /\ UNCHANGED ret ELSE Call("ready", "idle")
    BY <1>3 DEF EndInit, db
  <2>2. Refuted => Refuted'
    BY <2>1 DEF Refuted
  <2>3. Early' \/ Refuted'
    BY <2>1 DEF Early, AtTop, Refuted, Flow, Call
  <2>4. ~sol.conflict.has => UnitLits(formula) \subseteq TopLits(sol)
    <3>1. \A i \in DOMAIN sol.trail : sol.trail[i].level = 0
      BY <1>1, <2>1, Typed DEF TrailShape, Flow, AtTop
    <3>2. TopLits(sol) = TrueLits(sol)
      BY <3>1 DEF TopLits, TrueLits
    <3> QED
      BY <1>3, <3>2 DEF EndInit
  <2>5. sol.conflict.has => Refuted'
    BY <2>1 DEF Refuted, Flow, AtTop
  <2> QED
    BY <1>1, <2>1, <2>2, <2>3, <2>4, <2>5, SameTidy
<1>4. CASE Ready
  <2>1. DL(sol) = 0 /\ NothingToLose /\ pc # "init"
    BY <1>1, <1>4 DEF Ready, Flow, AtTop, ControlInv
  <2> QED
    BY <1>1, <1>4, <2>1, SimplifyTidy DEF Ready
<1>5. CASE PushRootAssume
  <2>1. pc = "push" /\ NothingToLose /\ imps' = imps /\ watches' = watches /\ ~Refuted /\ ~Early
    BY <1>1, <1>5 DEF PushRootAssume, ControlInv, NothingToLose, Refuted, Early, db
  <2>2. CASE sol' = sol
    BY <1>1, <2>1, <2>2, SameTidy
  <2>3. CASE sol' # sol
    <3>1. DL(sol') = DL(sol) + 1
      BY <1>5, <2>3, SetupShifts
    <3>2. ~(DL(sol') = 0)
      BY <1>1, <3>1
    <3> QED
      BY <1>1, <2>1, <3>2, TidyStep DEF Explicit
  <2> QED
    BY <2>2, <2>3
<1> QED
  BY <1>2, <1>3, <1>4, <1>5

(* A learnt ternary clause has no literal of the top level.                *)
LEMMA LearntClean ==
  ASSUME NEW R, NEW s \in State, TrailShape(s), NEW u, NEW tail, Asserting(s, R, u, tail), DL(s) > 0
  PROVE  ({-u} \cup tail) \cap Neg(TopLits(s)) = {}
<1>1. /\ TopLits(s) \subseteq Lit /\ DL(s) \in Nat
      /\ \A i \in DOMAIN s.trail : s.trail[i].lit \in Lit
  BY Typed DEF TopLits
<1>2. ASSUME NEW l \in Lit, NEW n \in Nat, n > 0, AtLevel(s, l, n), l \in TopLits(s) PROVE FALSE
  BY <1>2 DEF AtLevel, TopLits, TrailShape
<1>3. /\ u \in Lit /\ AtLevel(s, u, DL(s))
      /\ \A k \in tail : k \in Lit /\ \E n \in 1..(DL(s) - 1) : AtLevel(s, -k, n)
  BY DEF Asserting, AllFalse
<1>4. ASSUME NEW k \in {-u} \cup tail, k \in Neg(TopLits(s)) PROVE FALSE
  <2>1. -k \in TopLits(s) /\ -k \in Lit
    BY <1>1, <1>4, Complements DEF Neg
  <2>2. CASE k = -u
    BY <1>1, <1>2, <1>3, <2>1, <2>2, Complements
  <2>3. CASE k \in tail
    <3>1. PICK n \in 1..(DL(s) - 1) : AtLevel(s, -k, n)
      BY <1>3, <2>3
    <3> QED
      BY <1>1, <1>2, <2>1, <3>1
  <2> QED
    BY <1>4, <2>2, <2>3
<1> QED
  BY <1>4

LEMMA SearchTidy ==
  ASSUME Steady, Flow, Tidy, TopKept, TypeOK', LevelInv', formula' = formula,
         SearchAside \/ SearchSimplify \/ SimplifyTop \/ Decide \/ BacktrackOnly \/ Learn
  PROVE  Tidy'
<1>1. /\ sol \in State /\ sol' \in State /\ DL(sol) \in Nat /\ DL(sol') \in Nat /\ ControlInv
      /\ sol.root \in Nat /\ sol.bt \in Nat
  BY Typed DEF Steady, TypeOK, Sound
<1>2. pc # "init"
  BY DEF SearchAside, SearchTop, ModelFound, GiveUp, Refute, LimitReached, Continue, SearchSimplify,
         SimplifyTop, Decide, BacktrackOnly, Learn
<1>3. CASE SearchAside
  <2>1. imps' = imps /\ watches' = watches /\ sol' = sol /\ (pc = "after" => sol.conflict.has) /\ pc # "prop"
        /\ pc # "ready"
    BY <1>3 DEF SearchAside, SearchTop, ModelFound, GiveUp, Refute, LimitReached, Continue, db
  <2>2. (Refuted => Refuted') /\ (Early => Refuted')
    BY <1>2, <2>1 DEF Early, Refuted, AtTop
  <2> QED
    BY <1>1, <1>2, <2>1, <2>2, SameTidy
<1>4. CASE SearchSimplify
  <2>1. pc = "simplify" /\ NothingToLose /\ ~Busy
    BY <1>1, <1>4 DEF SearchSimplify, ControlInv, Busy
  <2>2. Clean
    BY <2>1 DEF Tidy, Refuted, Early, NothingToLose
  <2> QED
    BY <1>2, <1>4, <2>1, <2>2, SimplifyTidy DEF SearchSimplify
<1>5. CASE SimplifyTop
  <2>1. pc = "after" /\ ~sol.conflict.has /\ sol' = sol /\ watches' = watches /\ ~Refuted /\ ~Busy
    BY <1>5 DEF SimplifyTop, Refuted, Busy
  <2>2. CASE DL(sol) = 0 /\ ~QueueEmpty
    <3>1. imps' = imps /\ pc' = "prop" /\ ret'.ok = "after"
      BY <1>5, <2>2 DEF SimplifyTop, Call
    <3>2. Early => Early'
      BY <2>1, <3>1 DEF Early, AtTop
    <3> QED
      BY <1>1, <1>2, <2>1, <3>1, <3>2, SameTidy
  <2>3. CASE DL(sol) = 0 /\ QueueEmpty
    <3>1. imps' = Simplified(imps, sol) /\ NothingToLose
      BY <1>5, <2>3 DEF SimplifyTop, NothingToLose
    <3> QED
      BY <1>2, <2>1, <2>3, <3>1, SimplifyTidy
  <2>4. CASE DL(sol) # 0
    <3>1. imps' = imps /\ ~Early
      BY <1>5, <2>4 DEF SimplifyTop, Early, AtTop
    <3> QED
      BY <1>1, <1>2, <2>1, <3>1, SameTidy
  <2> QED
    BY <2>2, <2>3, <2>4
<1>6. CASE Decide
  <2>1. /\ \E l \in FreeLits(sol) : sol' = Assume(sol, l)
        /\ imps' = imps /\ watches' = watches /\ ~Busy /\ NothingToLose /\ ~Early /\ ~Refuted
    BY <1>1, <1>6 DEF Decide, Busy, ControlInv, db, Early, Refuted, NothingToLose
  <2>2. DL(sol') = DL(sol) + 1
    BY <1>1, <2>1, AssumeShifts
  <2>3. ~(DL(sol') = 0)
    BY <1>1, <2>2
  <2> QED
    BY <1>1, <1>2, <2>1, <2>3, TidyStep DEF Explicit
<1>7. CASE BacktrackOnly
  <2>1. /\ imps' = imps /\ watches' = watches /\ DL(sol) > sol.root
        /\ pc' = "prop" /\ ret'.ok = "after"
    BY <1>7 DEF BacktrackOnly, Call, db
  <2>2. ~Early /\ ~Refuted
    BY <1>1, <2>1 DEF Early, Refuted, AtTop
  <2>3. PICK level \in Nat : Lossless(sol, MaxOf(level, sol.bt)) /\ sol' = UndoUntil(sol, level)
    BY <1>7, BacktrackUndoes DEF Steady
  <2>4. ~sol'.stop.set
    BY <1>1, <1>7, <2>3, BacktrackUndoes, UndoShifts DEF Steady
  <2>5. DL(sol') = 0 => Early'
    BY <2>1, <2>4 DEF Early, AtTop
  <2> QED
    BY <1>1, <1>2, <2>1, <2>2, <2>5, TidyStep DEF Explicit
<1>8. CASE Learn
  <2>1. SolverInv /\ Busy
    BY <1>8 DEF Learn, Busy, Steady, Sound
  <2>2. ~sol.stop.set /\ sol.bt < DL(sol)
    BY <2>1 DEF SolverInv
  <2>3. ~Early /\ ~Refuted /\ DL(sol) > 0
    BY <1>1, <2>2 DEF Early, Refuted, AtTop
  <2>4. PICK tail \in SUBSET Lit : \E l1 \in Second(sol, tail) : Learns(tail, l1)
    BY <1>8, LearnChoice DEF Steady
  <2>5. PICK l1 \in Second(sol, tail) : Learns(tail, l1)
    BY <2>4
  <2> DEFINE c == {-an.uip} \cup tail
  <2>6. /\ Asserting(sol, Sure, an.uip, tail) /\ imps' = StoreImp(c)
        /\ watches' = StoreExplicit(c, {-an.uip, l1})
        /\ pc' = "prop" /\ ret' = [ok |-> "after", fail |-> "resolve"] /\ ~sol'.conflict.has
    BY <2>5 DEF Learns, LearntFits
  <2>7. c \cap Neg(TopLits(sol)) = {}
    BY <1>1, <2>2, <2>3, <2>6, SteadyPlain, LearntClean
  <2> HIDE DEF c
  <2>8. imps \subseteq imps' /\ Explicit \subseteq DOMAIN watches' /\ imps' \ imps \subseteq {c}
    BY <2>6 DEF StoreImp, StoreExplicit, Explicit
  <2>9. ~sol'.stop.set
    BY <1>8, <2>6, LearnSound DEF Steady, Sound, SolverInv, SolverOk, Busy
  <2>10. DL(sol') = 0 => Early'
    BY <2>6, <2>9 DEF Early, AtTop
  <2> QED
    BY <1>1, <1>2, <2>3, <2>7, <2>8, <2>10, TidyStep
<1> QED
  BY <1>3, <1>4, <1>5, <1>6, <1>7, <1>8

LEMMA CallTidy ==
  ASSUME Steady, Flow, Tidy, TopKept, TypeOK', formula' = formula,
         Search \/ Propagate \/ Choose \/ Restart \/ PushRoot \/ PopRoot \/ SetStop \/ ClearStop \/ Split
  PROVE  Tidy'
<1>1. /\ sol \in State /\ sol' \in State /\ DL(sol) \in Nat /\ DL(sol') \in Nat
      /\ sol.root \in Nat /\ sol.root <= DL(sol)
  BY Typed DEF Steady, TypeOK, LevelInv
<1>2. /\ imps' = imps /\ watches' = watches /\ pc = "idle" /\ ~Busy /\ ~Early
  BY DEF Search, Propagate, Choose, Restart, PushRoot, PopRoot, SetStop, ClearStop, Split, Begin,
         Idle, Busy, Early, db
<1>3. CASE Search \/ Propagate
  <2>1. sol' = sol
    BY <1>3 DEF Search, Propagate
  <2>2. Refuted => Refuted'
    BY <2>1 DEF Refuted
  <2> QED
    BY <1>1, <1>2, <2>1, <2>2, SameTidy
<1>4. CASE Choose
  <2>1. ~Refuted /\ DL(sol') = DL(sol) + 1
    BY <1>1, <1>2, <1>4, AssumeShifts DEF Choose, Refuted, NothingToLose
  <2>2. ~(DL(sol') = 0)
    BY <1>1, <2>1
  <2> QED
    BY <1>1, <1>2, <2>1, <2>2, TidyStep DEF Explicit
<1>5. ASSUME ~Refuted, ~sol'.stop.set, DL(sol') = 0 => Quiet(sol') /\ NoneNew(sol, sol') PROVE Tidy'
  <2>1. DL(sol') = 0 => Base(sol').front = Len(sol'.trail) /\ TopLits(sol') \subseteq TopLits(sol)
    BY <1>1, <1>5, BaseFacts DEF Quiet, NoneNew, TopLits
  <2> QED
    BY <1>1, <1>2, <1>5, <2>1, TidyStep DEF Explicit
<1>6. CASE Restart
  <2>1. NothingToLose /\ sol' = UndoUntil(sol, 0) /\ 0 \in Nat /\ ~Refuted
    BY <1>6 DEF Restart, NothingToLose, Refuted
  <2>2. ~sol.stop.set
    BY <1>2, <2>1, NotStopped DEF NothingToLose, Steady
  <2>3. Lossless(sol, MaxOf(0, sol.bt))
    BY <2>1 DEF Lossless, Quiet, NothingToLose, QueueEmpty
  <2>4. Quiet(sol') /\ ~sol'.stop.set /\ NoneNew(sol, sol')
    BY <1>1, <2>1, <2>2, <2>3, UndoShifts
  <2> QED
    BY <1>5, <2>1, <2>4
<1>7. CASE PopRoot
  <2>1. ~Refuted
    <3>1. \E n \in 0..sol.root : n > 0 \/ NothingToLose
      BY <1>7 DEF PopRoot
    <3> QED
      BY <1>1, <3>1 DEF Refuted, NothingToLose
  <2>2. ~sol'.stop.set /\ (DL(sol') = 0 => Quiet(sol') /\ NoneNew(sol, sol'))
    BY <1>1, <1>2, <1>7, PopRootUndoes, PopRootShifts DEF Steady
  <2> QED
    BY <1>5, <2>1, <2>2
<1>8. CASE PushRoot
  <2>1. CASE sol' = sol
    <3>1. Refuted => Refuted'
      BY <2>1 DEF Refuted
    <3> QED
      BY <1>1, <1>2, <2>1, <3>1, SameTidy
  <2>2. CASE sol' # sol
    <3>1. ~Refuted /\ 0 \in Nat
      BY <1>8, <2>2 DEF PushRoot, Refuted
    <3>2. ~sol'.stop.set /\ (DL(sol') = 0 => Quiet(sol') /\ NoneNew(sol, sol'))
      BY <1>1, <1>2, <1>8, <2>2, <3>1, PushRootUndoes, PopRootShifts DEF Steady
    <3> QED
      BY <1>5, <3>1, <3>2
  <2> QED
    BY <2>1, <2>2
<1>9. CASE SetStop \/ ClearStop
  <2>1. Refuted => Refuted'
    BY <1>9, StopShifts DEF Refuted, DL
  <2> QED
    BY <1>1, <1>2, <1>9, <2>1, StopShifts, SameTidy
<1>10. CASE Split
  <2>1. sol' = PushRootLevel(sol, 1) /\ DL(sol) > sol.root
    BY <1>10 DEF Split
  <2>2. /\ sol'.trail = sol.trail /\ sol'.decisions = sol.decisions /\ sol'.stop = sol.stop
        /\ sol'.front = sol.front
    BY <1>1, <2>1 DEF PushRootLevel, State
  <2>3. Base(sol').front = Base(sol).front
    BY <1>1, <2>2, BaseFacts
  <2>4. ~Refuted
    BY <1>1, <2>1 DEF Refuted
  <2> QED
    BY <1>1, <1>2, <2>2, <2>3, <2>4, SameTidy
<1> QED
  BY <1>3, <1>4, <1>6, <1>7, <1>8, <1>9, <1>10

LEMMA NextTidy ==
  ASSUME CallsAlone, Steady, Flow, Tidy, TypeOK', LevelInv', Sound', [Next]_vars
  PROVE  Tidy'
<1>1. TopKept /\ formula' = formula /\ sol' \in State /\ Sound
  BY NextTop DEF TypeOK, Steady
<1>2. CASE UNCHANGED vars
  BY <1>2 DEF Tidy, Said, UnitsTop, Early, Clean, Drained, Refuted, AtTop, vars, Clauses, Explicit
<1>3. CASE StartAnalysis \/ AnalysisPanics \/ Analyze
  <2>1. Analyses
    BY <1>3, AnalysisLedger
  <2>2. /\ imps' = imps /\ watches' = watches /\ DL(sol') = DL(sol) /\ DL(sol) > 0 /\ DL(sol) \in Nat
    BY <2>1, SteadySure, Typed DEF Analyses, DL
  <2>3. ~Refuted /\ ~Early /\ pc # "init"
    BY <1>3, <2>2 DEF Refuted, Early, AtTop, StartAnalysis, AnalysisPanics, Analyze
  <2> QED
    BY <1>1, <2>2, <2>3, TidyStep DEF Explicit
<1> QED
  BY <1>1, <1>2, <1>3, AloneNext, PropagationTidy, SetupTidy, SearchTidy, CallTidy

LEMMA InitTidy ==
  ASSUME Init
  PROVE  Tidy
<1>1. /\ imps = {c \in formula : Cardinality(c) \in {2, 3}}
      /\ Explicit = {c \in formula : Cardinality(c) > 3}
      /\ pc = "init" /\ sol.decisions = <<>> /\ ~sol.stop.set
  BY DEF Init, Explicit, NewSolver, NoStop
<1>2. formula \subseteq SUBSET Lit
  BY KernelAssumption DEF Init
<1>3. ASSUME NEW c \in formula, Cardinality(c) > 1 PROVE c \in Clauses
  <2>1. Cardinality(c) \in Nat
    BY <1>2, LitFinite, FS_Subset, FS_CardinalityType
  <2>2. Cardinality(c) \in {2, 3} \/ Cardinality(c) > 3
    BY <1>3, <2>1
  <2> QED
    BY <1>1, <2>2 DEF Clauses
<1>4. Said
  BY <1>3 DEF Said, Fulfils
<1>5. Early /\ UnitsTop
  BY <1>1 DEF Early, UnitsTop, AtTop, DL
<1> QED
  BY <1>4, <1>5 DEF Tidy

Orderly == Steady /\ Flow /\ Tidy

LEMMA AlwaysOrderly ==
  ASSUME CallsAlone
  PROVE  Spec => []Orderly
<1>1. Spec => []Steady
  BY AlwaysSteady
<1>2. Init => Flow /\ Tidy
  BY InitFlow, InitTidy
<1>3. Steady /\ Steady' /\ Flow /\ Tidy /\ [Next]_vars => Flow' /\ Tidy'
  BY NextFlow, NextTidy DEF Steady
<1> QED
  BY <1>1, <1>2, <1>3, PTL DEF Spec, Orderly

(***************************************************************************)
(* The clauses say what the problem says.                                  *)
(***************************************************************************)
(* A conflict is the end of the search below the decisions that are open.  *)
LEMMA NoneLeft ==
  ASSUME Steady, ~Busy, sol.conflict.has, ~sol.stop.set, NEW m \in Assignments, Fulfils(m, formula),
         \A i \in DOMAIN sol.trail : sol.trail[i].ante = NoAnte => Holds(m, sol.trail[i].lit)
  PROVE  FALSE
<1>1. /\ sol \in State /\ Real(sol, Valid) /\ TrailShape(sol) /\ Reasoned(sol, Valid) /\ DL(sol) \in Nat
  BY SteadyPlain, Typed DEF Core, TrailOk
<1>2. \A c \in Valid : \E l \in c : Holds(m, l)
  BY DEF Valid, SureOf, AllHold
<1>3. \A i \in DOMAIN sol.trail : sol.trail[i].level <= DL(sol) => Holds(m, sol.trail[i].lit)
  BY <1>1, <1>2, Entailed
<1>4. \A l \in TrueLits(sol) : Holds(m, l) /\ l \in Lit
  BY <1>1, <1>3, Typed DEF TrueLits, TrailShape
<1>5. PICK l \in Neg(sol.conflict.lits) : Holds(m, l)
  BY <1>1, <1>2 DEF Real
<1>6. PICK k \in sol.conflict.lits : l = -k
  BY DEF Neg
<1>7. Holds(m, k) /\ k \in Lit
  BY <1>1, <1>4 DEF Real, IsTrue
<1> QED
  BY <1>5, <1>6, <1>7, HoldsOne

LEMMA SaidAll ==
  ASSUME Orderly, ~Refuted, pc # "init", NEW m \in Assignments, Fulfils(m, Clauses),
         AllHold(m, TopLits(sol))
  PROVE  m \in Models
<1>1. formula \subseteq ((SUBSET Lit) \ {{}})
  BY KernelAssumption DEF Orderly, Flow
<1>2. ASSUME NEW c \in formula PROVE \E l \in c : Holds(m, l)
  <2>1. c \in SUBSET Lit /\ c # {} /\ IsFiniteSet(c) /\ Cardinality(c) \in Nat /\ Cardinality(c) # 0
    <3>1. IsFiniteSet(c) /\ c # {} /\ c \in SUBSET Lit
      BY <1>1, LitFinite, FS_Subset
    <3> QED
      BY <3>1, FS_CardinalityType, FS_EmptySet
  <2>2. CASE Cardinality(c) = 1
    <3>1. PICK l : c = {l}
      BY <2>1, <2>2, FS_Singleton
    <3>2. l \in UnitLits(formula)
      BY <2>1, <3>1 DEF UnitLits
    <3>3. l \in TopLits(sol)
      BY <3>2 DEF Orderly, Tidy, UnitsTop
    <3> QED
      BY <3>1, <3>3 DEF AllHold
  <2>3. CASE Cardinality(c) > 1
    BY <2>3 DEF Orderly, Tidy, Said
  <2> QED
    BY <2>1, <2>2, <2>3
<1> QED
  BY <1>2 DEF Models, Fulfils

LEMMA OrderlyDb ==
  ASSUME Orderly
  PROVE  DbExact
<1>1. DbEntailed
  BY SoundDb DEF Orderly, Steady
<1>2. DbComplete
  BY SaidAll DEF DbComplete
<1>3. DbRefuted
  <2> SUFFICES ASSUME Refuted, NEW m \in Models, AllHold(m, Premises(0)) PROVE FALSE
    BY DEF DbRefuted
  <2>1. /\ sol \in State /\ DL(sol) = 0 /\ sol.conflict.has /\ ~sol.stop.set /\ Steady /\ TrailShape(sol)
        /\ sol.bt \in Nat
    BY SteadyPlain, Typed DEF Refuted, Orderly
  <2>2. ~Busy
    BY <2>1 DEF Steady, Sound, SolverInv
  <2>3. \A i \in DOMAIN sol.trail : sol.trail[i].level <= MinOf(0, DL(sol))
    BY <2>1 DEF TrailShape, MinOf
  <2>4. \A i \in DOMAIN sol.trail : sol.trail[i].ante = NoAnte => Holds(m, sol.trail[i].lit)
    BY <2>3 DEF AllHold, Premises, Entries
  <2> QED
    BY <2>1, <2>2, <2>4, NoneLeft DEF Models
<1> QED
  BY <1>1, <1>2, <1>3 DEF DbExact

(* For a solver that works alone, learning, shrinking and dropping clauses *)
(* (learnt clauses in Solver::add, satisfied ones in Solver::simplify)     *)
(* changes the clauses and never what they say, and a conflict without a   *)
(* decision means that the problem has no model.                           *)
THEOREM DbNeverDrifts ==
  ASSUME CallsAlone
  PROVE  Spec => []DbExact
<1>1. Spec => []Orderly
  BY AlwaysOrderly
<1>2. Orderly => DbExact
  BY OrderlyDb
<1> QED
  BY <1>1, <1>2, PTL

(***************************************************************************)
(* The solver implements SearchService. Steps that do not end a search map *)
(* to Service!Call (or to nothing), the three ways to end one to the three *)
(* answers.                                                                *)
(***************************************************************************)
(* A total set of literals, read as an assignment.                         *)
Reading(x) == [v \in Vars |-> v \in x]

LEMMA ServiceLits == Service!Lits = Lit /\ Service!Vars = Vars
BY DEF Service!Lits, Service!Vars, Lit, Vars

LEMMA ReadingHolds ==
  ASSUME NEW x \in Service!Totals
  PROVE  /\ Reading(x) \in Assignments
         /\ \A l \in Lit : Holds(Reading(x), l) <=> l \in x
<1>1. \A v \in Vars : v \in Nat /\ v > 0 /\ -(-v) = v
  BY NumVarsAssumption DEF Vars
<1>2. \A v \in Vars : v \in x <=> -v \notin x
  BY ServiceLits DEF Service!Totals
<1>3. ASSUME NEW v \in Vars PROVE Holds(Reading(x), v) <=> v \in x
  <2>1. Var(v) = v /\ v > 0
    BY <1>1 DEF Var
  <2>2. Reading(x)[v] = (v \in x)
    BY DEF Reading
  <2> QED
    BY <2>1, <2>2 DEF Holds
<1>4. ASSUME NEW v \in Vars PROVE Holds(Reading(x), -v) <=> -v \in x
  <2>1. Var(-v) = v /\ ~(-v > 0)
    BY <1>1 DEF Var
  <2>2. Reading(x)[v] = (v \in x)
    BY DEF Reading
  <2> QED
    BY <1>2, <2>1, <2>2 DEF Holds
<1> QED
  BY <1>3, <1>4 DEF Reading, Assignments, Lit

LEMMA ServiceModel ==
  ASSUME NEW x \in Service!Totals, formula \subseteq SUBSET Lit
  PROVE  x \in Service!Models <=> Reading(x) \in Models
<1>1. Reading(x) \in Assignments /\ \A l \in Lit : Holds(Reading(x), l) <=> l \in x
  BY ReadingHolds
<1>2. x \in Service!Models <=> \A c \in formula : \E l \in c : l \in x
  BY DEF Service!Models
<1>3. Reading(x) \in Models <=> \A c \in formula : \E l \in c : Holds(Reading(x), l)
  BY <1>1 DEF Models, Fulfils
<1> QED
  BY <1>1, <1>2, <1>3

LEMMA PathLits ==
  ASSUME NEW s \in State, s.root <= s.bt, s.bt <= DL(s)
  PROVE  {Decision(s, k) : k \in 1..s.root} \subseteq Lit
<1>1. s.decisions \in Seq(Lit) /\ s.root \in Nat /\ s.bt \in Nat /\ DL(s) \in Nat
  BY Typed DEF State
<1>2. \A k \in 1..s.root : k \in 1..DL(s)
  BY <1>1
<1> QED
  BY <1>1, <1>2 DEF Decision, DL

LEMMA ShownInit == Init => Service!Init
<1> SUFFICES ASSUME Init PROVE Service!Init
  OBVIOUS
<1>1. sol.root = 0 /\ sol.stop.set = FALSE /\ result = "none" /\ excluded = {} /\ formula \in Formulas
  BY DEF Init, NewSolver, NoStop
<1>2. {Decision(sol, k) : k \in 1..sol.root} = {}
  BY <1>1
<1> QED
  BY <1>1, <1>2 DEF Service!Init

(* Whatever a step does to the path and to a stop conflict: the caller     *)
(* sees a call.                                                            *)
LEMMA ShownCall ==
  ASSUME TypeOK', LevelInv', formula' = formula, excluded' = excluded, result' = "none"
  PROVE  Service!Call
<1>1. {Decision(sol', k) : k \in 1..sol'.root} \subseteq Lit
  BY PathLits DEF TypeOK, LevelInv
<1>2. sol'.stop.set \in BOOLEAN
  BY DEF TypeOK, State
<1> QED
  BY <1>1, <1>2, ServiceLits DEF Service!Call

(* A search that runs to its end without a conflict has found a model.     *)
LEMMA ShownTrue ==
  ASSUME Orderly, ModelFound
  PROVE  Service!AnswerTrue
<1> DEFINE x == TrueLits(sol)
           m == Reading(x)
<1>1. /\ pc = "decide" /\ FreeLits(sol) = {} /\ result' = "true" /\ sol' = sol /\ formula' = formula
      /\ excluded' = excluded
  BY DEF ModelFound, Return
<1>2. result = "none" /\ excluded = {} /\ formula \subseteq SUBSET Lit
  BY <1>1 DEF Orderly, Flow, Steady, TypeOK, Idle
<1>3. /\ sol \in State /\ TrailShape(sol) /\ ~sol.conflict.has /\ Rooted(sol, DL(sol)) /\ DL(sol) \in Nat
      /\ sol.root \in Nat /\ sol.root <= DL(sol)
  <2>1. NothingToLose /\ ~Busy /\ pc \notin {"analyze", "learn", "panic"}
    BY <1>1 DEF Orderly, Steady, Sound, ControlInv, Busy
  <2>2. ~sol.conflict.has
    BY <2>1 DEF NothingToLose
  <2>3. ~sol.stop.set
    BY <2>1, <2>2, NotStopped DEF Orderly, Steady
  <2>4. sol \in State /\ TrailShape(sol)
    BY <2>3, SteadyPlain DEF Orderly
  <2>5. DL(sol) \in Nat /\ sol.root \in Nat /\ sol.bt \in Nat
    BY <2>4, Typed
  <2> QED
    BY <2>1, <2>2, <2>4, <2>5 DEF Orderly, Steady, Ledger, LevelInv
<1>4. x \in Service!Totals
  <2>1. x \subseteq Lit
    BY <1>3, Typed DEF TrueLits, Entry
  <2>2. ASSUME NEW v \in Vars PROVE v \in x <=> -v \notin x
    <3>1. v \in Lit /\ -v \in Lit /\ v # -v /\ v > 0 /\ v \in Nat
      BY NumVarsAssumption DEF Lit, Vars
    <3>2. v \in x \/ -v \in x
      BY <1>1, <3>1 DEF FreeLits, IsFree, IsTrue, IsFalse
    <3>3. ASSUME v \in x, -v \in x PROVE FALSE
      <4>1. PICK i \in DOMAIN sol.trail : sol.trail[i].lit = v
        BY <3>3 DEF TrueLits
      <4>2. PICK j \in DOMAIN sol.trail : sol.trail[j].lit = -v
        BY <3>3 DEF TrueLits
      <4>3. Var(v) = Var(-v)
        BY <3>1 DEF Var
      <4>4. i = j
        BY <1>3, <4>1, <4>2, <4>3 DEF TrailShape
      <4> QED
        BY <3>1, <4>1, <4>2, <4>4
    <3> QED
      BY <3>2, <3>3
  <2> QED
    BY <2>1, <2>2, ServiceLits DEF Service!Totals
<1>5. m \in Assignments /\ \A l \in Lit : Holds(m, l) <=> l \in x
  BY <1>4, ReadingHolds
<1>6. \A c \in Clauses : \E l \in c : Holds(m, l)
  <2> SUFFICES ASSUME NEW c \in Clauses PROVE \E l \in c : Holds(m, l)
    OBVIOUS
  <2>1. c \subseteq Lit
    BY DEF Orderly, Steady, TypeOK, Clauses
  <2>2. ~Forcing(c)
    BY <1>1, NoneMissed DEF Orderly, Steady, NoMissedPropagation
  <2>3. CASE Satisfied(c)
    BY <1>5, <2>1, <2>3 DEF Satisfied, IsTrue
  <2>4. CASE ~Satisfied(c)
    <3>1. NotFalse(c) = {}
      BY <1>1, <2>1, <2>4 DEF NotFalse, Satisfied, FreeLits, IsFree
    <3>2. Cardinality(NotFalse(c)) <= 1
      BY <3>1, FS_EmptySet
    <3> QED
      BY <2>2, <2>4, <3>2 DEF Forcing
  <2> QED
    BY <2>3, <2>4
<1>7. AllHold(m, TopLits(sol))
  <2>1. TopLits(sol) \subseteq x /\ x \subseteq Lit
    BY <1>3, Typed DEF TopLits, TrueLits, Entry
  <2> QED
    BY <1>5, <2>1 DEF AllHold
<1>8. x \in Service!Models
  <2>1. ~Refuted /\ pc # "init"
    BY <1>1, <1>3 DEF Refuted
  <2>2. m \in Models
    BY <1>5, <1>6, <1>7, <2>1, SaidAll DEF Fulfils
  <2> QED
    BY <1>2, <1>4, <2>2, ServiceModel
<1>9. {Decision(sol, k) : k \in 1..sol.root} \subseteq x
  <2> SUFFICES ASSUME NEW k \in 1..sol.root PROVE Decision(sol, k) \in x
    OBVIOUS
  <2>1. k \in 1..DL(sol)
    BY <1>3
  <2>2. TrueBy(sol, sol.decisions[k], k)
    BY <1>3, <2>1 DEF Rooted
  <2> QED
    BY <2>2 DEF TrueBy, TrueLits, Decision
<1>10. x \in Service!Left
  BY <1>2, <1>8, <1>9 DEF Service!Left
<1> QED
  BY <1>1, <1>2, <1>10 DEF Service!AnswerTrue

(* A limit may end the search at any time.                                 *)
LEMMA ShownFree ==
  ASSUME Orderly, LimitReached
  PROVE  Service!AnswerFree
<1>1. /\ pc = "limit" /\ result' = "free" /\ sol' = sol /\ formula' = formula /\ excluded' = excluded
  BY DEF LimitReached, Return
<1>2. result = "none"
  BY <1>1 DEF Orderly, Flow, Idle
<1> QED
  BY <1>1, <1>2 DEF Service!AnswerFree

(* A conflict that ends the search leaves no model under the root path.    *)
LEMMA ShownFalse ==
  ASSUME Orderly, Refute
  PROVE  Service!AnswerFalse
<1>1. /\ pc \in {"after", "giveup"} /\ sol.conflict.has /\ result' = "false" /\ sol' = sol
      /\ formula' = formula /\ excluded' = excluded
  BY DEF Refute, Return
<1>2. result = "none" /\ formula \subseteq SUBSET Lit /\ ~Busy
  BY <1>1 DEF Orderly, Flow, Steady, TypeOK, Idle, Busy
<1> DEFINE path == {Decision(sol, k) : k \in 1..sol.root}
<1>3. ASSUME ~sol.stop.set, NEW x \in Service!Models, path \subseteq x PROVE FALSE
  <2> DEFINE m == Reading(x)
  <2>1. x \in Service!Totals
    BY DEF Service!Models
  <2>2. m \in Models /\ \A l \in Lit : Holds(m, l) <=> l \in x
    BY <1>2, <2>1, ReadingHolds, ServiceModel
  <2>3. m \in Assignments /\ Fulfils(m, formula)
    BY <2>2 DEF Models
  <2>4. sol \in State /\ Known(sol) /\ DL(sol) \in Nat /\ sol.root \in Nat /\ sol.bt \in Nat
    BY SteadySure, Typed DEF Orderly
  <2>5. DL(sol) = sol.root
    <3>1. sol.root <= sol.bt /\ sol.bt <= DL(sol)
      BY DEF Orderly, Steady, LevelInv
    <3>2. DL(sol) = 0 \/ DL(sol) = sol.root
      BY <1>1 DEF Orderly, Flow, AtTop
    <3> QED
      BY <2>4, <3>1, <3>2
  <2>6. ASSUME NEW i \in DOMAIN sol.trail, sol.trail[i].ante = NoAnte PROVE Holds(m, sol.trail[i].lit)
    <3>1. Explained(sol, sol.trail[i]) /\ sol.trail[i].lit \in Lit
      BY <2>4, Typed DEF Known, Entry
    <3>2. CASE {sol.trail[i].lit} \in formula
      BY <2>3, <3>2 DEF Fulfils
    <3>3. CASE \E k \in 1..DL(sol) : sol.trail[i].lit = sol.decisions[k]
      <4>1. sol.trail[i].lit \in path
        BY <2>5, <3>3 DEF Decision
      <4> HIDE DEF m, path
      <4> QED
        BY <1>3, <2>2, <3>1, <4>1
    <3> QED
      BY <2>6, <3>1, <3>2, <3>3 DEF Explained
  <2> HIDE DEF m
  <2> QED
    BY <1>1, <1>2, <1>3, <2>3, <2>6, NoneLeft DEF Orderly
<1>4. sol.stop.set \/ Service!Left = {}
  BY <1>3 DEF Service!Left
<1>5. sol.stop.set \in BOOLEAN
  BY SteadySure DEF Orderly, State
<1> QED
  BY <1>1, <1>2, <1>4 DEF Service!AnswerFalse

(* Every step of the solver is a step of the service, or none.             *)
LEMMA ShownNext ==
  ASSUME CallsAlone, Orderly, Orderly', [Next]_vars
  PROVE  [Service!Next]_Service!vars
<1>1. /\ Sound /\ formula' = formula /\ excluded' = excluded
      /\ Steady /\ TypeOK' /\ LevelInv' /\ Sound'
  BY NextTop DEF Orderly, Steady, Flow
<1>2. CASE UNCHANGED vars
  BY <1>2 DEF vars, Service!vars, Decision
<1>3. CASE ModelFound
  BY <1>3, ShownTrue DEF Service!Next
<1>4. CASE Refute
  BY <1>4, ShownFalse DEF Service!Next
<1>5. CASE LimitReached
  BY <1>5, ShownFree DEF Service!Next
<1>6. CASE \/ AddFact \/ EndInit \/ Ready \/ PushRootAssume \/ Propagation
           \/ SearchTop \/ GiveUp \/ Continue \/ SearchSimplify \/ SimplifyTop \/ Decide
           \/ BacktrackOnly \/ Learn \/ StartAnalysis \/ AnalysisPanics \/ Analyze
  <2>1. ~Idle /\ result' = result
    BY <1>6 DEF AddFact, EndInit, Ready, PushRootAssume, Propagation, ForceByShort, MoveWatch, ForceByWatch,
                Dequeue, PropagateReturns, Propagating, SearchTop, GiveUp, Continue, SearchSimplify,
                SimplifyTop, Decide, BacktrackOnly, Learn, StartAnalysis, AnalysisPanics, Analyze, Idle
  <2>2. result' = "none"
    BY <2>1 DEF Orderly, Flow
  <2> QED
    BY <1>1, <2>2, ShownCall DEF Service!Next
<1>7. CASE \/ Search \/ Propagate \/ Choose \/ Restart \/ PushRoot \/ PopRoot \/ SetStop \/ ClearStop
           \/ Split
  <2>1. result' = "none"
    BY <1>7 DEF Search, Propagate, Choose, Restart, PushRoot, PopRoot, SetStop, ClearStop, Split,
                Begin, Counted
  <2> QED
    BY <1>1, <2>1, ShownCall DEF Service!Next
<1> QED
  BY <1>1, <1>2, <1>3, <1>4, <1>5, <1>6, <1>7, AloneNext DEF SearchAside

(* A solver that works alone answers as its callers rely on: "true" with a *)
(* model of the problem that satisfies the root path, and "false" only     *)
(* when there is none left under that path or the caller has stopped it    *)
(* (the result of Solver::search).                                         *)
THEOREM AnswersAsPromised ==
  ASSUME CallsAlone
  PROVE  Spec => ImplementsService
<1>1. Spec => []Orderly
  BY AlwaysOrderly
<1>2. Init => Service!Init
  BY ShownInit
<1>3. Orderly /\ Orderly' /\ [Next]_vars => [Service!Next]_Service!vars
  BY ShownNext
<1> QED
  BY <1>1, <1>2, <1>3, PTL DEF Spec, ImplementsService, Service!Spec
=============================================================================

---------------------------- MODULE SplitProofs ----------------------------
(***************************************************************************)
(* Proofs that split partitions the search space while an enumerator goes  *)
(* back over models: what a guiding path hands out, what the root path     *)
(* keeps and what backtrack_step has left behind never overlap and never   *)
(* lose a model.                                                           *)
(***************************************************************************)
EXTENDS PropagationProofs

(* The calls of one enumerating solver: MCSolverEnum's and those of a      *)
(* search loop with restarts.                                              *)
CallsEnum == Api \subseteq {"search", "propagate", "assume", "restart", "split", "backtrack_step"}

(***************************************************************************)
(* A model and a state of the solver.                                      *)
(***************************************************************************)
(* The model makes the first n decisions.                                  *)
Upto(s, m, n) == \A k \in 1..n : Holds(m, s.decisions[k])

(* As long as the model makes the decisions, it has what is assigned or    *)
(* remembered up to their level.                                           *)
Tracks(s, m) ==
  \A n \in 0..DL(s) : Upto(s, m, n) => \A l : Answered(s, l, n) => Holds(m, l)

(* The assignment has left the model: it makes the decisions up to a level *)
(* that is not undone any more, and falsifies a literal of this level.     *)
Leaves(s, m) ==
  \E k \in 0..s.bt : Upto(s, m, k) /\ \E l \in Lit : TrueBy(s, l, k) /\ ~Holds(m, l)

(* A literal without a reason is a unit of the problem, a decision of a    *)
(* level not above its own, or remembered as a flipped decision.           *)
Origin(s, e) ==
  e.ante = NoAnte =>
    \/ {e.lit} \in formula
    \/ \E k \in 1..DL(s) : k <= e.level /\ e.lit = s.decisions[k]
    \/ \E i \in DOMAIN s.implied.lits : /\ s.implied.lits[i].lit = e.lit
                                        /\ s.implied.lits[i].level <= e.level
                                        /\ s.implied.lits[i].ante = NoAnte
Sourced(s) == \A i \in DOMAIN s.trail : Origin(s, s.trail[i])

(* The decisions up to level n are true by their levels.                   *)
Seated(s, n) == \A k \in 1..n : TrueBy(s, s.decisions[k], k)

(* From s to t, what belongs to the levels up to n stays.                  *)
Lasts(s, t, n) ==
  /\ Stays(s, t, n) /\ n <= DL(s) /\ n <= DL(t)
  /\ \A k \in 1..n : t.decisions[k] = s.decisions[k]

LEMMA LastsLeaves ==
  ASSUME NEW s \in State, NEW t \in State, NEW n \in Nat, Lasts(s, t, n),
         s.bt <= n, s.bt <= t.bt, NEW m, Leaves(s, m)
  PROVE  Leaves(t, m)
<1>0. s.bt \in Nat /\ t.bt \in Nat
  BY Typed
<1>1. PICK k \in 0..s.bt : Upto(s, m, k) /\ \E l \in Lit : TrueBy(s, l, k) /\ ~Holds(m, l)
  BY DEF Leaves
<1>2. PICK l \in Lit : TrueBy(s, l, k) /\ ~Holds(m, l)
  BY <1>1
<1>3. k \in Nat /\ k <= n /\ k \in 0..t.bt
  BY <1>0
<1>4. TrueBy(t, l, k)
  BY <1>2, <1>3, StaysTrue DEF Lasts
<1>5. Upto(t, m, k)
  BY <1>1, <1>3 DEF Upto, Lasts
<1> QED
  BY <1>2, <1>3, <1>4, <1>5 DEF Leaves

LEMMA LastsSeated ==
  ASSUME NEW s \in State, NEW t, NEW n \in Nat, Lasts(s, t, n), Seated(s, n)
  PROVE  Seated(t, n)
<1> SUFFICES ASSUME NEW k \in 1..n PROVE TrueBy(t, t.decisions[k], k)
  BY DEF Seated
<1>1. TrueBy(s, s.decisions[k], k) /\ k \in Nat /\ k <= n
  BY DEF Seated
<1> QED
  BY <1>1, StaysTrue DEF Lasts

(* Nothing new but what the model has.                                     *)
LEMMA GainTracks ==
  ASSUME NEW s \in State, NEW t \in State, NEW m, Tracks(s, m), DL(t) <= DL(s),
         \A k \in 1..DL(t) : t.decisions[k] = s.decisions[k],
         \A n \in 0..DL(t) : \A l :
           Answered(t, l, n) /\ Upto(t, m, n) => Answered(s, l, n) \/ Holds(m, l)
  PROVE  Tracks(t, m)
<1> SUFFICES ASSUME NEW n \in 0..DL(t), Upto(t, m, n), NEW l, Answered(t, l, n)
             PROVE  Holds(m, l)
  BY DEF Tracks
<1>1. DL(t) \in Nat /\ DL(s) \in Nat /\ n \in 0..DL(s)
  BY Typed
<1>2. Upto(s, m, n)
  BY <1>1 DEF Upto
<1> QED
  BY <1>1, <1>2 DEF Tracks

(***************************************************************************)
(* Forcing a literal.                                                      *)
(***************************************************************************)
Forces(s, t, l, ante) ==
  /\ t \in State /\ LevelsSame(s, t) /\ t.implied = s.implied /\ t.front = s.front
  /\ \A j \in DOMAIN s.trail : j \in DOMAIN t.trail /\ t.trail[j] = s.trail[j]
  /\ \A j \in DOMAIN t.trail :
       \/ j \in DOMAIN s.trail
       \/ t.trail[j].lit = l /\ t.trail[j].level = DL(s) /\ t.trail[j].ante = ante
  /\ t.conflict.has \/ IsTrue(t, l)
  /\ t.conflict.has => s.conflict.has \/ IsFalse(s, l)

LEMMA ForceForces ==
  ASSUME NEW s \in State, NEW l \in Lit, NEW ante \in SUBSET Lit
  PROVE  Forces(s, ForceLit(s, l, ante), l, ante)
<1> DEFINE t == ForceLit(s, l, ante)
           e == [lit |-> l, level |-> DL(s), ante |-> ante]
<1> SUFFICES Forces(s, t, l, ante)
  OBVIOUS
<1>0. /\ DOMAIN s.trail = 1..Len(s.trail) /\ Len(s.trail) \in Nat /\ DL(s) \in Nat
      /\ s.trail \in Seq(Entry)
  BY Typed DEF State
<1>1. t \in State /\ LevelsSame(s, t)
  BY ForceType
<1>2. CASE IsTrue(s, l)
  <2>1. t = s
    BY <1>2 DEF ForceLit
  <2> HIDE DEF t
  <2> QED
    BY <1>1, <1>2, <2>1 DEF Forces
<1>3. CASE ~IsTrue(s, l) /\ IsFalse(s, l)
  <2>1. t = SetConflict(s, l, ante)
    BY <1>3 DEF ForceLit
  <2>2. t.trail = s.trail /\ t.conflict.has /\ t.implied = s.implied /\ t.front = s.front
    BY <2>1 DEF SetConflict, State
  <2> HIDE DEF t
  <2> QED
    BY <1>1, <1>3, <2>2 DEF Forces
<1>4. CASE ~IsTrue(s, l) /\ ~IsFalse(s, l)
  <2>1. t = [s EXCEPT !.trail = Append(@, e)]
    BY <1>4 DEF ForceLit
  <2>2. e \in Entry /\ e.lit = l /\ e.level = DL(s) /\ e.ante = ante
    BY <1>0 DEF Entry
  <2>3. /\ t.trail = Append(s.trail, e) /\ t.conflict = s.conflict /\ t.implied = s.implied
        /\ t.front = s.front
    BY <2>1 DEF State
  <2> HIDE DEF t, e
  <2>4. /\ DOMAIN t.trail = 1..(Len(s.trail) + 1) /\ t.trail[Len(s.trail) + 1] = e
        /\ \A j \in 1..Len(s.trail) : t.trail[j] = s.trail[j]
    BY <1>0, <2>2, <2>3, AppendProperties
  <2>5. IsTrue(t, l)
    BY <1>0, <2>2, <2>4 DEF IsTrue, TrueLits
  <2>6. \A j \in DOMAIN s.trail : j \in DOMAIN t.trail /\ t.trail[j] = s.trail[j]
    BY <1>0, <2>4
  <2>7. \A j \in DOMAIN t.trail : j \in DOMAIN s.trail \/ t.trail[j] = e
    BY <1>0, <2>4
  <2>8. t.conflict.has => s.conflict.has
    BY <2>3
  <2>9. \A j \in DOMAIN t.trail :
          \/ j \in DOMAIN s.trail
          \/ t.trail[j].lit = l /\ t.trail[j].level = DL(s) /\ t.trail[j].ante = ante
    BY <2>2, <2>7
  <2> QED
    BY <1>1, <2>3, <2>5, <2>6, <2>8, <2>9 DEF Forces
<1> HIDE DEF t
<1> QED
  BY <1>2, <1>3, <1>4 DEF t

(* A model that has the literal goes on tracking, and a model that has the *)
(* assignment as well sees no conflict.                                    *)
LEMMA ForceTracks ==
  ASSUME NEW s \in State, NEW t, NEW l \in Lit, NEW ante, Forces(s, t, l, ante)
  PROVE  /\ DL(t) = DL(s) /\ Lasts(s, t, DL(s)) /\ Grown(s, t)
         /\ Sourced(s) /\ Origin(s, [lit |-> l, level |-> DL(s), ante |-> ante]) => Sourced(t)
         /\ \A m : Tracks(s, m) /\ (Upto(s, m, DL(s)) => Holds(m, l)) => Tracks(t, m)
<1>0. DL(s) \in Nat /\ DL(t) = DL(s) /\ t.decisions = s.decisions /\ t \in State
  BY Typed DEF Forces, LevelsSame, DL
<1>1. Lasts(s, t, DL(s)) /\ Grown(s, t)
  BY <1>0 DEF Lasts, Stays, Grown, Forces
<1>2. ASSUME Origin(s, [lit |-> l, level |-> DL(s), ante |-> ante]), Sourced(s)
      PROVE  Sourced(t)
  <2> SUFFICES ASSUME NEW j \in DOMAIN t.trail PROVE Origin(t, t.trail[j])
    BY DEF Sourced
  <2>1. \A e : Origin(s, e) => Origin(t, e)
    BY <1>0 DEF Origin, Forces
  <2>2. CASE j \in DOMAIN s.trail
    BY <1>2, <2>1, <2>2 DEF Sourced, Forces
  <2>3. CASE t.trail[j].lit = l /\ t.trail[j].level = DL(s) /\ t.trail[j].ante = ante
    <3>1. Origin(t, [lit |-> l, level |-> DL(s), ante |-> ante])
      BY <1>2, <2>1
    <3> QED
      BY <2>3, <3>1 DEF Origin
  <2> QED
    BY <2>2, <2>3 DEF Forces
<1>3. ASSUME NEW m, Tracks(s, m), Upto(s, m, DL(s)) => Holds(m, l) PROVE Tracks(t, m)
  <2> SUFFICES ASSUME NEW n \in 0..DL(t), NEW x, Answered(t, x, n), Upto(t, m, n)
               PROVE  Answered(s, x, n) \/ Holds(m, x)
    BY <1>0, <1>3, GainTracks
  <2>1. CASE Remembered(t, x, n)
    BY <2>1 DEF Remembered, Forces, Answered
  <2>2. CASE TrueBy(t, x, n)
    <3>1. PICK j \in DOMAIN t.trail : t.trail[j].lit = x /\ t.trail[j].level <= n
      BY <2>2 DEF TrueBy
    <3>2. CASE j \in DOMAIN s.trail
      BY <3>1, <3>2 DEF Forces, TrueBy, Answered
    <3>3. CASE x = l /\ DL(s) <= n
      <4>1. n = DL(s) /\ Upto(s, m, n)
        BY <1>0, <3>3 DEF Upto
      <4> QED
        BY <1>3, <3>3, <4>1
    <3> QED
      BY <3>1, <3>2, <3>3 DEF Forces
  <2> QED
    BY <2>1, <2>2 DEF Answered
<1> QED
  BY <1>0, <1>1, <1>2, <1>3

(***************************************************************************)
(* Going back: undo_until and the walk of ImpliedList::assign.             *)
(***************************************************************************)
(* An entry of the list that is implied up to a level.                     *)
ImpliedBy(s, l, ante, level) ==
  \E i \in DOMAIN s.implied.lits : /\ s.implied.lits[i].lit = l /\ s.implied.lits[i].ante = ante
                                   /\ s.implied.lits[i].level <= level
Clashes(s, t, level) ==
  \E i \in DOMAIN s.implied.lits : /\ s.implied.lits[i].level <= level
                                   /\ IsFalse(t, s.implied.lits[i].lit)
Heard(s, acc) ==
  /\ acc.sol \in State /\ LevelsSame(s, acc.sol) /\ acc.kept \in Seq(Entry)
  /\ \A j \in DOMAIN s.trail : j \in DOMAIN acc.sol.trail /\ acc.sol.trail[j] = s.trail[j]
  /\ \A j \in DOMAIN acc.sol.trail :
       \/ j \in DOMAIN s.trail
       \/ /\ acc.sol.trail[j].level = DL(s)
          /\ ImpliedBy(s, acc.sol.trail[j].lit, acc.sol.trail[j].ante, DL(s))
  /\ \A k \in DOMAIN acc.kept : \E i \in DOMAIN s.implied.lits : acc.kept[k] = s.implied.lits[i]
  /\ acc.sol.conflict.has => s.conflict.has \/ Clashes(s, acc.sol, DL(s))

LEMMA HeardStep ==
  ASSUME NEW s \in State, NEW i \in DOMAIN s.implied.lits, NEW acc, Heard(s, acc)
  PROVE  Heard(s, AssignNext(s, i, acc))
<1> DEFINE e   == s.implied.lits[i]
           f   == ForceLit(acc.sol, e.lit, e.ante)
           new == AssignNext(s, i, acc)
<1> SUFFICES Heard(s, new)
  OBVIOUS
<1>0. /\ e \in Entry /\ e.lit \in Lit /\ e.ante \in SUBSET Lit
      /\ acc.sol \in State /\ acc.kept \in Seq(Entry) /\ LevelsSame(s, acc.sol)
      /\ DL(acc.sol) = DL(s)
  BY Typed DEF Heard, LevelsSame, DL
<1>1. /\ new.sol = IF Visited(s, i) /\ ~acc.sol.conflict.has THEN f ELSE acc.sol
      /\ new.kept = IF Kept(s, i) THEN Append(acc.kept, e) ELSE acc.kept
  BY DEF AssignNext
<1>2. Forces(acc.sol, f, e.lit, e.ante)
  BY <1>0, ForceForces
<1>3. Visited(s, i) => e.level <= DL(s)
  BY DEF Visited
<1>4. /\ new.kept \in Seq(Entry)
      /\ \A k \in DOMAIN new.kept : new.kept[k] = e \/ \E j \in DOMAIN acc.kept : new.kept[k] = acc.kept[j]
  <2>1. CASE Kept(s, i)
    <3>1. /\ Append(acc.kept, e) \in Seq(Entry)
          /\ DOMAIN acc.kept = 1..Len(acc.kept) /\ Len(acc.kept) \in Nat
          /\ DOMAIN Append(acc.kept, e) = 1..(Len(acc.kept) + 1)
          /\ Append(acc.kept, e)[Len(acc.kept) + 1] = e
          /\ \A j \in 1..Len(acc.kept) : Append(acc.kept, e)[j] = acc.kept[j]
      BY <1>0, AppendProperties
    <3>2. \A k \in 1..(Len(acc.kept) + 1) : k \in 1..Len(acc.kept) \/ k = Len(acc.kept) + 1
      BY <3>1
    <3> HIDE DEF new, e
    <3> QED
      BY <1>1, <2>1, <3>1, <3>2
  <2>2. CASE ~Kept(s, i)
    BY <1>0, <1>1, <2>2
  <2> QED
    BY <2>1, <2>2
<1>5. \A k \in DOMAIN new.kept : \E j \in DOMAIN s.implied.lits : new.kept[k] = s.implied.lits[j]
  BY <1>4 DEF Heard
<1> HIDE DEF f, new
<1>6. CASE Visited(s, i) /\ ~acc.sol.conflict.has
  <2>1. new.sol = f /\ e.level <= DL(s)
    BY <1>1, <1>3, <1>6
  <2>2. /\ f \in State /\ LevelsSame(s, f)
        /\ \A j \in DOMAIN s.trail : j \in DOMAIN f.trail /\ f.trail[j] = s.trail[j]
    BY <1>0, <1>2 DEF Heard, Forces, LevelsSame
  <2>3. ImpliedBy(s, e.lit, e.ante, DL(s))
    BY <2>1 DEF ImpliedBy
  <2>4. ASSUME NEW j \in DOMAIN f.trail
        PROVE  \/ j \in DOMAIN s.trail
               \/ f.trail[j].level = DL(s) /\ ImpliedBy(s, f.trail[j].lit, f.trail[j].ante, DL(s))
    <3> HIDE DEF e
    <3>1. CASE j \in DOMAIN acc.sol.trail
      BY <1>2, <3>1 DEF Heard, Forces
    <3>2. CASE j \notin DOMAIN acc.sol.trail
      BY <1>0, <1>2, <2>3, <3>2 DEF Forces
    <3> QED
      BY <3>1, <3>2
  <2>5. f.conflict.has => Clashes(s, f, DL(s))
    <3> SUFFICES ASSUME f.conflict.has PROVE Clashes(s, f, DL(s))
      OBVIOUS
    <3>1. IsFalse(acc.sol, e.lit)
      BY <1>2, <1>6 DEF Forces
    <3>2. IsFalse(f, e.lit)
      BY <1>2, <3>1 DEF Forces, IsFalse, TrueLits
    <3> QED
      BY <2>1, <3>2 DEF Clashes
  <2> QED
    BY <1>4, <1>5, <2>1, <2>2, <2>4, <2>5 DEF Heard
<1>7. CASE ~(Visited(s, i) /\ ~acc.sol.conflict.has)
  <2>1. new.sol = acc.sol
    BY <1>1, <1>7
  <2> QED
    BY <1>4, <1>5, <2>1 DEF Heard
<1> QED
  BY <1>6, <1>7

LEMMA HeardHere ==
  ASSUME NEW s \in State
  PROVE  Heard(s, AssignUpTo(s)[Len(s.implied.lits)])
<1> DEFINE n == Len(s.implied.lits)
           f == AssignUpTo(s)
<1>1. n \in Nat /\ DOMAIN s.implied.lits = 1..n
  BY Typed
<1>2. f[0] = [sol |-> s, kept |-> <<>>]
  BY AssignUpToSteps
<1>3. \A i \in 1..n : f[i] = AssignNext(s, i, f[i - 1])
  BY AssignUpToSteps
<1> HIDE DEF f, n
<1> DEFINE S == {i \in Nat : i <= n => Heard(s, f[i])}
<1>4. 0 \in S
  <2>1. f[0].kept = <<>> /\ <<>> \in Seq(Entry) /\ f[0].sol = s /\ DOMAIN <<>> = {}
    BY <1>2
  <2>2. Heard(s, f[0])
    BY <2>1 DEF Heard, LevelsSame
  <2> QED
    BY <2>2
<1>5. \A i \in Nat : i \in S => i + 1 \in S
  <2> SUFFICES ASSUME NEW i \in Nat, i \in S, i + 1 <= n PROVE Heard(s, f[i + 1])
    OBVIOUS
  <2>1. Heard(s, f[i])
    BY <1>1
  <2>2. i + 1 \in DOMAIN s.implied.lits /\ i + 1 \in 1..n /\ (i + 1) - 1 = i
    BY <1>1
  <2>3. f[i + 1] = AssignNext(s, i + 1, f[i])
    BY <1>3, <2>2
  <2> QED
    BY <2>1, <2>2, <2>3, HeardStep
<1>6. Nat \subseteq S
  <2> HIDE DEF S
  <2> QED
    BY <1>4, <1>5, NatSetInduction
<1> QED
  BY <1>1, <1>6 DEF f, n

(* What going back from s to t does.                                       *)
Undoes(s, t) ==
  /\ t \in State /\ Lasts(s, t, DL(t))
  /\ t.bt = s.bt /\ t.root = s.root /\ t.stop = s.stop
  /\ \A j \in DOMAIN t.trail : t.trail[j].level <= DL(t)
  /\ \A j \in DOMAIN t.trail :
       \/ j \in DOMAIN s.trail /\ t.trail[j] = s.trail[j]
       \/ t.trail[j].level = DL(t) /\ ImpliedBy(s, t.trail[j].lit, t.trail[j].ante, DL(t))
  /\ \A i \in DOMAIN t.implied.lits : \E k \in DOMAIN s.implied.lits :
       t.implied.lits[i] = s.implied.lits[k]
  /\ \A k \in DOMAIN s.implied.lits :
       s.implied.lits[k].level <= DL(t) /\ s.implied.lits[k].ante = NoAnte =>
         \E i \in DOMAIN t.implied.lits : t.implied.lits[i] = s.implied.lits[k]
  /\ DOMAIN t.implied.lits = {} \/ t.implied.level = s.implied.level \/ t.implied.level = DL(t)
  /\ t.conflict.has => Clashes(s, t, DL(t))

LEMMA AssignUndoes ==
  ASSUME NEW s \in State, ~s.conflict.has, \A j \in DOMAIN s.trail : s.trail[j].level <= DL(s)
  PROVE  Undoes(s, ImpliedAssign(s))
<1> DEFINE n    == Len(s.implied.lits)
           done == AssignUpTo(s)[n]
           t    == ImpliedAssign(s)
<1>1. Heard(s, done) /\ Found(s, n, done) /\ n \in Nat /\ DOMAIN s.implied.lits = 1..n
  BY HeardHere, FoundHere, Typed
<1>2. t \in State /\ LevelsSame(s, t)
  BY ImpliedAssignType
<1>3. /\ t.trail = done.sol.trail /\ t.conflict = done.sol.conflict /\ t.implied.lits = done.kept
      /\ t.implied.level = IF done.kept = <<>> THEN 0 ELSE DL(s)
  <2>1. done.sol \in State
    BY <1>1 DEF Heard
  <2> HIDE DEF done, n
  <2> QED
    BY <2>1 DEF ImpliedAssign, State, done, n
<1> SUFFICES Undoes(s, t)
  OBVIOUS
<1> HIDE DEF done, t, n
<1>4. DL(t) = DL(s) /\ DL(s) \in Nat /\ t.decisions = s.decisions
  BY <1>2, Typed DEF LevelsSame, DL
<1>5. Lasts(s, t, DL(t))
  BY <1>1, <1>3, <1>4 DEF Lasts, Stays, Heard
<1>6. \A j \in DOMAIN t.trail :
        \/ j \in DOMAIN s.trail /\ t.trail[j] = s.trail[j]
        \/ t.trail[j].level = DL(t) /\ ImpliedBy(s, t.trail[j].lit, t.trail[j].ante, DL(t))
  BY <1>1, <1>3, <1>4 DEF Heard
<1>10. \A j \in DOMAIN t.trail : t.trail[j].level <= DL(t)
  BY <1>1, <1>3, <1>4 DEF Heard
<1>7. \A i \in DOMAIN t.implied.lits : \E k \in DOMAIN s.implied.lits :
        t.implied.lits[i] = s.implied.lits[k]
  BY <1>1, <1>3 DEF Heard
<1>8. ASSUME NEW k \in DOMAIN s.implied.lits, s.implied.lits[k].level <= DL(t),
             s.implied.lits[k].ante = NoAnte
      PROVE  \E i \in DOMAIN t.implied.lits : t.implied.lits[i] = s.implied.lits[k]
  <2>1. Kept(s, k)
    BY <1>1, <1>4, <1>8, Typed DEF Kept, Visited
  <2> QED
    BY <1>1, <1>3, <2>1 DEF Found
<1>11. DOMAIN t.implied.lits = {} \/ t.implied.level = DL(t)
  <2>1. DOMAIN <<>> = {}
    OBVIOUS
  <2> QED
    BY <1>3, <1>4, <2>1
<1>9. t.conflict.has => Clashes(s, t, DL(t))
  <2>1. \A l : IsFalse(done.sol, l) => IsFalse(t, l)
    BY <1>3 DEF IsFalse, TrueLits
  <2> QED
    BY <1>1, <1>3, <1>4, <2>1 DEF Heard, Clashes
<1> QED
  BY <1>2, <1>5, <1>6, <1>7, <1>8, <1>9, <1>10, <1>11 DEF Undoes, LevelsSame

LEMMA UndoUndoes ==
  ASSUME NEW s, Good(s), TrailShape(s), NEW level \in Nat
  PROVE  LET t == UndoUntil(s, level)
         IN Undoes(s, t) /\ DL(t) = MinOf(DL(s), MaxOf(level, s.bt))
<1> DEFINE t == UndoUntil(s, level)
           r == Reset(s, level)
           target == MaxOf(level, s.bt)
<1> SUFFICES Undoes(s, t) /\ DL(t) = MinOf(DL(s), target)
  OBVIOUS
<1>1. /\ Good(r) /\ r.root = s.root /\ r.bt = s.bt /\ r.implied = s.implied /\ r.stop = s.stop
      /\ r.conflict = NoConflict
      /\ DL(r) = MinOf(DL(s), target) /\ Cut(s, r, target)
      /\ \A i \in DOMAIN r.trail : r.trail[i].level <= DL(r)
      /\ t = IF ImpliedActive(r) THEN ImpliedAssign(r) ELSE r
  BY ResetFacts
<1>2. \A k \in 1..DL(r) : r.decisions[k] = s.decisions[k]
  <2>1. s \in State /\ s.decisions \in Seq(Lit) /\ s.bt \in Nat /\ DL(s) \in Nat
    BY Typed DEF Good, State
  <2>2. CASE DL(s) <= target
    <3>1. r.decisions = s.decisions
      BY <2>1, <2>2 DEF Reset, State
    <3> QED
      BY <3>1
  <2>3. CASE ~(DL(s) <= target)
    <3>1. r.decisions = SubSeq(s.decisions, 1, target)
      BY <2>1, <2>3 DEF Reset, State
    <3>2. target \in Nat /\ DL(r) = target
      BY <1>1, <2>1, <2>3 DEF MaxOf, MinOf
    <3> HIDE DEF r, target
    <3> QED
      BY <2>1, <2>3, <3>1, <3>2 DEF DL
  <2> QED
    BY <2>2, <2>3
<1> HIDE DEF r, t, target
<1>3. r \in State /\ s \in State /\ DL(r) \in Nat /\ DL(s) \in Nat /\ s.bt \in Nat
  BY <1>1, Typed DEF Good
<1>4. target \in Nat /\ DL(r) <= target /\ DL(r) <= DL(s)
  BY <1>1, <1>3 DEF target, MaxOf, MinOf
<1>5. Lasts(s, r, DL(r)) /\ ~r.conflict.has
  <2>1. Stays(s, r, DL(r))
    <3> SUFFICES ASSUME NEW i \in DOMAIN s.trail, s.trail[i].level <= DL(r)
                 PROVE  i \in DOMAIN r.trail /\ r.trail[i] = s.trail[i]
      BY DEF Stays
    <3>1. s.trail[i].level \in Nat
      BY <1>3, Typed
    <3>2. s.trail[i].level <= target
      BY <1>3, <1>4, <3>1
    <3> QED
      BY <1>1, <3>2 DEF Cut
  <2> QED
    BY <1>1, <1>2, <1>3, <1>4, <2>1 DEF Lasts, NoConflict
<1>6. Undoes(s, r)
  BY <1>1, <1>3, <1>5 DEF Undoes, Cut
<1>7. CASE ImpliedActive(r)
  <2>1. Undoes(r, t)
    BY <1>1, <1>3, <1>5, <1>7, AssignUndoes
  <2>2. DL(t) = DL(r) /\ t.bt = s.bt /\ t.root = s.root /\ t.stop = s.stop
    BY <1>1, <1>3, <1>7, ImpliedAssignType DEF LevelsSame, DL
  <2>3. Lasts(s, t, DL(t))
    <3>1. Lasts(r, t, DL(r))
      BY <2>1, <2>2 DEF Undoes
    <3>2. Stays(s, t, DL(r))
      BY <1>5, <3>1 DEF Lasts, Stays
    <3> QED
      BY <1>3, <1>4, <1>5, <2>2, <3>1, <3>2 DEF Lasts
  <2>4. \A j \in DOMAIN t.trail :
          \/ j \in DOMAIN s.trail /\ t.trail[j] = s.trail[j]
          \/ t.trail[j].level = DL(t) /\ ImpliedBy(s, t.trail[j].lit, t.trail[j].ante, DL(t))
    BY <1>1, <2>1 DEF Undoes, Cut, ImpliedBy
  <2>5. t.conflict.has => Clashes(s, t, DL(t))
    BY <1>1, <2>1 DEF Undoes, Clashes
  <2>6. \A j \in DOMAIN t.trail : t.trail[j].level <= DL(t)
    BY <2>1 DEF Undoes
  <2>7. DOMAIN t.implied.lits = {} \/ t.implied.level = s.implied.level \/ t.implied.level = DL(t)
    BY <1>1, <2>1 DEF Undoes
  <2> QED
    BY <1>1, <2>1, <2>2, <2>3, <2>4, <2>5, <2>6, <2>7 DEF Undoes
<1>8. CASE ~ImpliedActive(r)
  BY <1>1, <1>6, <1>8
<1>9. DL(t) = DL(r)
  BY <1>1, <1>3, ImpliedAssignType DEF LevelsSame, DL
<1> QED
  BY <1>1, <1>6, <1>7, <1>8, <1>9

(* Going back tells a model nothing new, and raises a conflict only for    *)
(* models that do not make the decisions that are left.                    *)
LEMMA UndoTracks ==
  ASSUME NEW s \in State, NEW t, Undoes(s, t)
  PROVE  /\ Sourced(s) => Sourced(t)
         /\ \A m : Tracks(s, m) => Tracks(t, m)
         /\ \A m \in Assignments : Tracks(s, m) /\ Upto(s, m, DL(t)) => ~t.conflict.has
<1>0. /\ t \in State /\ DL(t) \in Nat /\ DL(s) \in Nat /\ DL(t) <= DL(s)
      /\ \A k \in 1..DL(t) : t.decisions[k] = s.decisions[k]
  BY Typed DEF Undoes, Lasts
<1>1. ASSUME Sourced(s) PROVE Sourced(t)
  <2> SUFFICES ASSUME NEW j \in DOMAIN t.trail, t.trail[j].ante = NoAnte
               PROVE  Origin(t, t.trail[j])
    BY DEF Sourced, Origin
  <2>0. t.trail[j].level \in Nat /\ t.trail[j].level <= DL(t)
    BY <1>0, Typed DEF Undoes
  <2>1. ASSUME NEW k \in DOMAIN s.implied.lits, s.implied.lits[k].lit = t.trail[j].lit,
               s.implied.lits[k].level <= t.trail[j].level, s.implied.lits[k].ante = NoAnte
        PROVE  Origin(t, t.trail[j])
    <3>1. s.implied.lits[k].level \in Nat
      BY Typed
    <3>2. s.implied.lits[k].level <= DL(t)
      BY <1>0, <2>0, <2>1, <3>1
    <3>3. PICK i \in DOMAIN t.implied.lits : t.implied.lits[i] = s.implied.lits[k]
      BY <2>1, <3>2 DEF Undoes
    <3> QED
      BY <2>1, <3>3 DEF Origin
  <2>2. CASE j \in DOMAIN s.trail /\ t.trail[j] = s.trail[j]
    <3>1. Origin(s, t.trail[j])
      BY <1>1, <2>2 DEF Sourced
    <3>2. \/ {t.trail[j].lit} \in formula
          \/ \E k \in 1..DL(s) : k <= t.trail[j].level /\ t.trail[j].lit = s.decisions[k]
          \/ \E i \in DOMAIN s.implied.lits : /\ s.implied.lits[i].lit = t.trail[j].lit
                                              /\ s.implied.lits[i].level <= t.trail[j].level
                                              /\ s.implied.lits[i].ante = NoAnte
      BY <3>1 DEF Origin
    <3>3. ASSUME NEW k \in 1..DL(s), k <= t.trail[j].level, t.trail[j].lit = s.decisions[k]
          PROVE  Origin(t, t.trail[j])
      <4>1. k \in 1..DL(t)
        BY <1>0, <2>0, <3>3
      <4>2. t.decisions[k] = s.decisions[k]
        BY <1>0, <4>1
      <4> QED
        BY <3>3, <4>1, <4>2 DEF Origin
    <3> QED
      BY <2>1, <3>2, <3>3 DEF Origin
  <2>3. CASE t.trail[j].level = DL(t) /\ ImpliedBy(s, t.trail[j].lit, t.trail[j].ante, DL(t))
    BY <2>1, <2>3 DEF ImpliedBy
  <2> QED
    BY <2>2, <2>3 DEF Undoes
<1>2. ASSUME NEW n \in 0..DL(t), NEW l, Answered(t, l, n) PROVE Answered(s, l, n)
  <2>1. CASE Remembered(t, l, n)
    BY <2>1 DEF Remembered, Undoes, Answered
  <2>2. CASE TrueBy(t, l, n)
    <3>1. PICK j \in DOMAIN t.trail : t.trail[j].lit = l /\ t.trail[j].level <= n
      BY <2>2 DEF TrueBy
    <3>2. CASE j \in DOMAIN s.trail /\ t.trail[j] = s.trail[j]
      BY <3>1, <3>2 DEF TrueBy, Answered
    <3>3. CASE t.trail[j].level = DL(t) /\ ImpliedBy(s, t.trail[j].lit, t.trail[j].ante, DL(t))
      <4>1. n = DL(t)
        BY <1>0, <3>1, <3>3
      <4> QED
        BY <3>1, <3>3, <4>1 DEF ImpliedBy, Remembered, Answered
    <3> QED
      BY <3>2, <3>3 DEF Undoes
  <2> QED
    BY <1>2, <2>1, <2>2 DEF Answered
<1>3. \A m : Tracks(s, m) => Tracks(t, m)
  BY <1>0, <1>2, GainTracks
<1>4. ASSUME NEW m \in Assignments, Tracks(s, m), Upto(s, m, DL(t)), t.conflict.has PROVE FALSE
  <2>1. PICK i \in DOMAIN s.implied.lits : /\ s.implied.lits[i].level <= DL(t)
                                           /\ IsFalse(t, s.implied.lits[i].lit)
    BY <1>4 DEF Undoes, Clashes
  <2> DEFINE l == s.implied.lits[i].lit
  <2>2. l \in Lit /\ DL(t) \in 0..DL(s) /\ DL(t) \in 0..DL(t)
    BY <1>0, Typed
  <2>3. Answered(s, l, DL(t))
    BY <2>1 DEF Answered, Remembered
  <2>4. PICK j \in DOMAIN t.trail : t.trail[j].lit = -l
    BY <2>1 DEF IsFalse, TrueLits
  <2>5. Answered(t, -l, DL(t))
    BY <2>4 DEF Answered, TrueBy, Undoes
  <2>6. Answered(s, -l, DL(t))
    BY <1>2, <2>2, <2>5
  <2> HIDE DEF l
  <2>7. Holds(m, l) /\ Holds(m, -l)
    BY <1>4, <2>2, <2>3, <2>6 DEF Tracks
  <2> QED
    BY <2>2, <2>7, HoldsOne
<1> QED
  BY <1>1, <1>3, <1>4

(* When all the list holds at the backtrack level, going back forces       *)
(* nothing and meets no conflict.                                          *)
ListedBy(s)  == MinOf(s.bt, s.implied.level)
AllListed(s) == \A i \in DOMAIN s.implied.lits : TrueBy(s, s.implied.lits[i].lit, ListedBy(s))

(* What the list has passed is true on the root path.                      *)
FrontHeld(s) ==
  \A i \in 1..s.implied.front :
    i \in DOMAIN s.implied.lits /\ TrueBy(s, s.implied.lits[i].lit, s.root)

LEMMA UndoListed ==
  ASSUME NEW s \in State, NEW t, Undoes(s, t), TrailShape(t), AllListed(s), s.bt <= DL(t)
  PROVE  Grown(t, s) /\ AllListed(t) /\ ~t.conflict.has
<1>0. t \in State /\ s.bt \in Nat /\ Stays(s, t, s.bt)
  <2>1. s.bt \in Nat /\ t \in State /\ DL(t) \in Nat
    BY Typed DEF Undoes
  <2>2. \A i \in DOMAIN s.trail : s.trail[i].level \in Nat
    BY Typed
  <2> QED
    BY <2>1, <2>2 DEF Undoes, Lasts, Stays
<1>1. ASSUME NEW k \in DOMAIN s.implied.lits
      PROVE  \E j \in DOMAIN s.trail : /\ j \in DOMAIN t.trail
                                       /\ t.trail[j].lit = s.implied.lits[k].lit
                                       /\ s.trail[j].lit = t.trail[j].lit
                                       /\ s.trail[j].level = t.trail[j].level
                                       /\ t.trail[j].level <= ListedBy(s)
  <2>1. PICK j \in DOMAIN s.trail : /\ s.trail[j].lit = s.implied.lits[k].lit
                                    /\ s.trail[j].level <= ListedBy(s)
    BY DEF AllListed, TrueBy
  <2>2. s.trail[j].level <= s.bt
    BY <1>0, <2>1, Typed DEF ListedBy, MinOf
  <2> QED
    BY <1>0, <2>1, <2>2 DEF Stays
<1>3. Grown(t, s)
  <2> SUFFICES ASSUME NEW j \in DOMAIN t.trail
               PROVE  /\ j \in DOMAIN s.trail /\ s.trail[j].lit = t.trail[j].lit
                      /\ s.trail[j].level = t.trail[j].level
    BY DEF Grown
  <2>1. CASE ImpliedBy(s, t.trail[j].lit, t.trail[j].ante, DL(t))
    <3>1. PICK k \in DOMAIN s.implied.lits : s.implied.lits[k].lit = t.trail[j].lit
      BY <2>1 DEF ImpliedBy
    <3>2. PICK i \in DOMAIN s.trail : /\ i \in DOMAIN t.trail /\ t.trail[i].lit = t.trail[j].lit
                                      /\ s.trail[i].lit = t.trail[i].lit
                                      /\ s.trail[i].level = t.trail[i].level
      BY <1>1, <3>1
    <3>3. i = j
      BY <3>2 DEF TrailShape
    <3> QED
      BY <3>2, <3>3
  <2> QED
    BY <2>1 DEF Undoes
<1>4. AllListed(t)
  <2> SUFFICES ASSUME NEW i \in DOMAIN t.implied.lits
               PROVE  TrueBy(t, t.implied.lits[i].lit, ListedBy(t))
    BY DEF AllListed
  <2>1. PICK k \in DOMAIN s.implied.lits : t.implied.lits[i] = s.implied.lits[k]
    BY DEF Undoes
  <2>2. PICK j \in DOMAIN t.trail : /\ t.trail[j].lit = s.implied.lits[k].lit
                                    /\ t.trail[j].level <= ListedBy(s)
    BY <1>1
  <2>3. ListedBy(s) \in Nat /\ ListedBy(t) \in Nat /\ ListedBy(s) <= ListedBy(t)
    BY <1>0, Typed DEF ListedBy, MinOf, Undoes
  <2>4. t.trail[j].level <= ListedBy(t)
    BY <1>0, <2>2, <2>3, Typed
  <2> QED
    BY <2>1, <2>2, <2>4 DEF TrueBy
<1>5. ~t.conflict.has
  <2> SUFFICES ASSUME t.conflict.has PROVE FALSE
    OBVIOUS
  <2>1. PICK k \in DOMAIN s.implied.lits : IsFalse(t, s.implied.lits[k].lit)
    BY DEF Undoes, Clashes
  <2>2. PICK i \in DOMAIN t.trail : t.trail[i].lit = s.implied.lits[k].lit
    BY <1>1
  <2>3. PICK j \in DOMAIN t.trail : t.trail[j].lit = -(s.implied.lits[k].lit)
    BY <2>1 DEF IsFalse, TrueLits
  <2>4. s.implied.lits[k].lit \in Lit
    BY Typed
  <2>5. i = j
    BY <2>2, <2>3, <2>4, Complements DEF TrailShape
  <2> QED
    BY <2>2, <2>3, <2>4, <2>5, Complements
<1> QED
  BY <1>3, <1>4, <1>5

(***************************************************************************)
(* A literal implied below the decision level: force_implied.              *)
(***************************************************************************)
(* From s to t, nothing is told but that l follows from the level.         *)
Tells(s, t, l, level) ==
  /\ t \in State /\ Lasts(s, t, DL(t)) /\ t.bt = s.bt /\ t.root = s.root /\ t.stop = s.stop
  /\ Sourced(s) => Sourced(t)
  /\ \A m : Tracks(s, m) /\ (Upto(s, m, level) => Holds(m, l)) => Tracks(t, m)

LEMMA TellsTrans ==
  ASSUME NEW s \in State, NEW t, NEW u, NEW l, NEW level \in Nat, Tells(s, t, l, level),
         Tells(t, u, l, level), level <= DL(t)
  PROVE  Tells(s, u, l, level)
<1>0. /\ t \in State /\ u \in State /\ DL(s) \in Nat /\ DL(t) \in Nat /\ DL(u) \in Nat
      /\ DL(t) <= DL(s) /\ DL(u) <= DL(t)
  BY Typed DEF Tells, Lasts
<1>1. Lasts(s, u, DL(u))
  <2>1. Stays(s, u, DL(u))
    <3> SUFFICES ASSUME NEW i \in DOMAIN s.trail, s.trail[i].level <= DL(u)
                 PROVE  /\ i \in DOMAIN u.trail /\ u.trail[i].lit = s.trail[i].lit
                        /\ u.trail[i].level = s.trail[i].level
      BY DEF Stays
    <3>1. s.trail[i].level \in Nat
      BY Typed
    <3>2. s.trail[i].level <= DL(t)
      BY <1>0, <3>1
    <3>3. /\ i \in DOMAIN t.trail /\ t.trail[i].lit = s.trail[i].lit
          /\ t.trail[i].level = s.trail[i].level
      BY <3>2 DEF Tells, Lasts, Stays
    <3> QED
      BY <3>3 DEF Tells, Lasts, Stays
  <2>2. \A k \in 1..DL(u) : u.decisions[k] = s.decisions[k]
    BY <1>0 DEF Tells, Lasts
  <2> QED
    BY <1>0, <2>1, <2>2 DEF Lasts
<1>2. \A m : Upto(t, m, level) => Upto(s, m, level)
  BY <1>0 DEF Upto, Tells, Lasts
<1> QED
  BY <1>1, <1>2 DEF Tells

LEMMA UndoTells ==
  ASSUME NEW s \in State, NEW t, Undoes(s, t), NEW l, NEW level
  PROVE  Tells(s, t, l, level)
BY UndoTracks DEF Tells, Undoes

LEMMA ForceTells ==
  ASSUME NEW s \in State, NEW l \in Lit, NEW ante \in SUBSET Lit, ante # NoAnte,
         NEW level \in Nat, level <= DL(s)
  PROVE  Tells(s, ForceLit(s, l, ante), l, level)
<1> DEFINE t == ForceLit(s, l, ante)
<1>1. Forces(s, t, l, ante)
  BY ForceForces
<1> SUFFICES Tells(s, t, l, level)
  OBVIOUS
<1> HIDE DEF t
<1>2. \A m : Upto(s, m, DL(s)) => Upto(s, m, level)
  BY Typed DEF Upto
<1>5. Origin(s, [lit |-> l, level |-> DL(s), ante |-> ante])
  BY DEF Origin
<1>6. DL(t) = DL(s) /\ Lasts(s, t, DL(s))
  BY <1>1, ForceTracks
<1>7. Sourced(s) => Sourced(t)
  BY <1>1, <1>5, ForceTracks
<1>8. \A m : Tracks(s, m) /\ (Upto(s, m, DL(s)) => Holds(m, l)) => Tracks(t, m)
  BY <1>1, ForceTracks
<1>4. t \in State /\ t.bt = s.bt /\ t.root = s.root /\ t.stop = s.stop
  BY <1>1 DEF Forces, LevelsSame
<1> QED
  BY <1>2, <1>4, <1>6, <1>7, <1>8 DEF Tells

(* A state in which reasons and entries of the list have changed.          *)
Retold(s, t, l, level) ==
  /\ t \in State /\ LevelsSame(s, t) /\ t.conflict = s.conflict /\ DOMAIN t.trail = DOMAIN s.trail
  /\ s.implied.level <= t.implied.level
  /\ \A j \in DOMAIN s.trail :
       /\ t.trail[j].lit = s.trail[j].lit /\ t.trail[j].level = s.trail[j].level
       /\ t.trail[j].ante = s.trail[j].ante \/ t.trail[j].ante # NoAnte
  /\ \A i \in DOMAIN t.implied.lits :
       \/ t.implied.lits[i].lit = l /\ t.implied.lits[i].level = level
       \/ \E k \in DOMAIN s.implied.lits : t.implied.lits[i] = s.implied.lits[k]
  /\ \A k \in DOMAIN s.implied.lits :
       \/ \E i \in DOMAIN t.implied.lits : t.implied.lits[i] = s.implied.lits[k]
       \/ \A j \in DOMAIN s.trail : s.trail[j].lit = s.implied.lits[k].lit => t.trail[j].ante # NoAnte

(* All but the entries of one literal hold. *)
AllBut(s, x) ==
  \A i \in DOMAIN s.implied.lits :
    s.implied.lits[i].lit = x \/ TrueBy(s, s.implied.lits[i].lit, ListedBy(s))

LEMMA RetoldTells ==
  ASSUME NEW s \in State, NEW t, NEW l, NEW level, Retold(s, t, l, level)
  PROVE  /\ Tells(s, t, l, level)
         /\ AllBut(s, l) => AllBut(t, l)
<1>0. DL(s) \in Nat /\ DL(t) = DL(s) /\ t.decisions = s.decisions /\ t \in State
  BY Typed DEF Retold, LevelsSame, DL
<1>1. Lasts(s, t, DL(t))
  BY <1>0 DEF Lasts, Stays, Retold
<1>2. ASSUME Sourced(s) PROVE Sourced(t)
  <2> SUFFICES ASSUME NEW j \in DOMAIN t.trail, t.trail[j].ante = NoAnte
               PROVE  Origin(t, t.trail[j])
    BY DEF Sourced, Origin
  <2>1. /\ j \in DOMAIN s.trail /\ s.trail[j].lit = t.trail[j].lit
        /\ s.trail[j].level = t.trail[j].level /\ s.trail[j].ante = NoAnte
    BY DEF Retold
  <2>2. Origin(s, s.trail[j])
    BY <1>2, <2>1 DEF Sourced
  <2>3. ASSUME NEW k \in DOMAIN s.implied.lits, s.implied.lits[k].lit = s.trail[j].lit
        PROVE  \E i \in DOMAIN t.implied.lits : t.implied.lits[i] = s.implied.lits[k]
    BY <2>1, <2>3 DEF Retold
  <2> QED
    BY <1>0, <2>1, <2>2, <2>3 DEF Origin
<1>3. ASSUME NEW m, Tracks(s, m), Upto(s, m, level) => Holds(m, l) PROVE Tracks(t, m)
  <2> SUFFICES ASSUME NEW n \in 0..DL(t), NEW x, Answered(t, x, n), Upto(t, m, n)
               PROVE  Answered(s, x, n) \/ Holds(m, x)
    BY <1>0, <1>3, GainTracks
  <2>1. CASE TrueBy(t, x, n)
    BY <2>1 DEF Retold, TrueBy, Answered
  <2>2. CASE Remembered(t, x, n)
    <3>1. PICK i \in DOMAIN t.implied.lits : /\ t.implied.lits[i].lit = x
                                             /\ t.implied.lits[i].level <= n
      BY <2>2 DEF Remembered
    <3>2. CASE x = l /\ t.implied.lits[i].level = level
      <4>1. level \in Nat /\ level <= n
        BY <1>0, <3>1, <3>2, Typed
      <4>2. Upto(s, m, level)
        BY <1>0, <4>1 DEF Upto
      <4> QED
        BY <1>3, <3>2, <4>2
    <3>3. CASE \E k \in DOMAIN s.implied.lits : t.implied.lits[i] = s.implied.lits[k]
      BY <3>1, <3>3 DEF Remembered, Answered
    <3> QED
      BY <3>1, <3>2, <3>3 DEF Retold
  <2> QED
    BY <2>1, <2>2 DEF Answered
<1>4. ASSUME AllBut(s, l) PROVE AllBut(t, l)
  <2>0. ListedBy(s) \in Nat /\ ListedBy(t) \in Nat /\ ListedBy(s) <= ListedBy(t)
    BY <1>0, Typed DEF ListedBy, MinOf, Retold, LevelsSame
  <2>1. ASSUME NEW x, TrueBy(s, x, ListedBy(s)) PROVE TrueBy(t, x, ListedBy(t))
    <3>1. PICK j \in DOMAIN s.trail : s.trail[j].lit = x /\ s.trail[j].level <= ListedBy(s)
      BY <2>1 DEF TrueBy
    <3>2. s.trail[j].level \in Nat /\ s.trail[j].level <= ListedBy(t)
      BY <2>0, <3>1, Typed
    <3> QED
      BY <3>1, <3>2 DEF TrueBy, Retold
  <2> QED
    BY <1>4, <2>1 DEF AllBut, Retold
<1> QED
  BY <1>0, <1>1, <1>2, <1>3, <1>4 DEF Tells, Retold, LevelsSame

LEMMA AddImpliedRetold ==
  ASSUME NEW s \in State, NEW e \in Entry
  PROVE  LET t == AddImplied(s, e)
         IN /\ Retold(s, t, e.lit, e.level) /\ t.implied.level = MaxOf(s.implied.level, DL(s))
            /\ t.trail = s.trail /\ t.implied.front = s.implied.front
            /\ t.implied.lits = Append(s.implied.lits, e)
            /\ FrontHeld(s) => FrontHeld(t)
<1> DEFINE t == AddImplied(s, e)
           n == Len(s.implied.lits)
<1> SUFFICES /\ Retold(s, t, e.lit, e.level) /\ t.implied.level = MaxOf(s.implied.level, DL(s))
             /\ t.trail = s.trail /\ t.implied.front = s.implied.front
             /\ t.implied.lits = Append(s.implied.lits, e)
             /\ FrontHeld(s) => FrontHeld(t)
  OBVIOUS
<1>0. /\ s.implied \in [lits : Seq(Entry), level : Nat, front : Nat] /\ DL(s) \in Nat
      /\ n \in Nat /\ DOMAIN s.implied.lits = 1..n
  BY Typed DEF State
<1>1. t \in State
  BY AddImpliedType
<1>2. /\ t.trail = s.trail /\ LevelsSame(s, t) /\ t.conflict = s.conflict
      /\ t.implied.level = MaxOf(s.implied.level, DL(s))
      /\ t.implied.lits = Append(s.implied.lits, e) /\ t.implied.front = s.implied.front
  BY <1>0 DEF AddImplied, State, LevelsSame
<1>3. /\ DOMAIN Append(s.implied.lits, e) = 1..(n + 1)
      /\ Append(s.implied.lits, e)[n + 1] = e
      /\ \A k \in 1..n : Append(s.implied.lits, e)[k] = s.implied.lits[k]
  BY <1>0, AppendProperties
<1>4. s.implied.level <= t.implied.level
  BY <1>0, <1>2 DEF MaxOf
<1> HIDE DEF t, n
<1>5. ASSUME NEW k \in DOMAIN s.implied.lits
      PROVE  k \in DOMAIN t.implied.lits /\ t.implied.lits[k] = s.implied.lits[k]
  BY <1>0, <1>2, <1>3
<1>6. ASSUME NEW i \in DOMAIN t.implied.lits
      PROVE  t.implied.lits[i] = e \/ (i \in DOMAIN s.implied.lits /\ t.implied.lits[i] = s.implied.lits[i])
  BY <1>0, <1>2, <1>3
<1>7. Retold(s, t, e.lit, e.level)
  BY <1>1, <1>2, <1>4, <1>5, <1>6 DEF Retold
<1>8. FrontHeld(s) => FrontHeld(t)
  BY <1>2, <1>5 DEF FrontHeld, TrueBy, LevelsSame
<1> QED
  BY <1>2, <1>7, <1>8

LEMMA SetReasonRetold ==
  ASSUME NEW s \in State, NEW l \in Lit, NEW c \in SUBSET Lit, c # NoAnte, NEW x, NEW n
  PROVE  LET t == SetReason(s, l, c)
         IN /\ Retold(s, t, x, n) /\ t.implied = s.implied /\ (FrontHeld(s) => FrontHeld(t))
            /\ \A j \in DOMAIN s.trail : s.trail[j].lit = l => t.trail[j].ante = c
<1> DEFINE t == SetReason(s, l, c)
<1> SUFFICES /\ Retold(s, t, x, n) /\ t.implied = s.implied /\ (FrontHeld(s) => FrontHeld(t))
             /\ \A j \in DOMAIN s.trail : s.trail[j].lit = l => t.trail[j].ante = c
  OBVIOUS
<1>1. t \in State /\ LevelsSame(s, t)
  BY SetReasonType
<1>2. t.trail = [i \in DOMAIN s.trail |->
                   IF s.trail[i].lit = l THEN [s.trail[i] EXCEPT !.ante = c] ELSE s.trail[i]]
      /\ t.implied = s.implied /\ t.conflict = s.conflict
  BY DEF SetReason, State
<1> HIDE DEF t
<1>3. DOMAIN t.trail = DOMAIN s.trail
  BY <1>2
<1>4. ASSUME NEW j \in DOMAIN s.trail
      PROVE  /\ t.trail[j].lit = s.trail[j].lit /\ t.trail[j].level = s.trail[j].level
             /\ s.trail[j].lit = l => t.trail[j].ante = c
             /\ t.trail[j].ante = s.trail[j].ante \/ t.trail[j].ante # NoAnte
  <2>1. s.trail[j] \in Entry
    BY Typed
  <2>2. t.trail[j] = IF s.trail[j].lit = l THEN [s.trail[j] EXCEPT !.ante = c] ELSE s.trail[j]
    BY <1>2
  <2> QED
    BY <2>1, <2>2 DEF Entry
<1>5. s.implied.level \in Nat
  BY Typed
<1>6. Retold(s, t, x, n)
  BY <1>1, <1>2, <1>3, <1>4, <1>5 DEF Retold
<1>7. FrontHeld(s) => FrontHeld(t)
  <2>1. \A y, k : TrueBy(s, y, k) => TrueBy(t, y, k)
    BY <1>3, <1>4 DEF TrueBy
  <2> QED
    BY <1>1, <1>2, <2>1 DEF FrontHeld, LevelsSame
<1> QED
  BY <1>2, <1>4, <1>6, <1>7

(* force_implied, when the literal is true and remembered above the level. *)
LEMMA MovedRetold ==
  ASSUME NEW s \in State, NEW first \in DOMAIN s.implied.lits, NEW l \in Lit, NEW c \in SUBSET Lit,
         c # NoAnte, NEW level \in Nat, s.implied.lits[first].lit = l
  PROVE  LET e == [lit |-> l, level |-> level, ante |-> c]
             t == SetReason([s EXCEPT !.implied.lits[first] = e], l, c)
         IN /\ Retold(s, t, l, level) /\ (FrontHeld(s) => FrontHeld(t))
            /\ AllListed(s) => AllListed(t)
<1> DEFINE e == [lit |-> l, level |-> level, ante |-> c]
           u == [s EXCEPT !.implied.lits[first] = e]
           t == SetReason(u, l, c)
<1> SUFFICES /\ Retold(s, t, l, level) /\ (FrontHeld(s) => FrontHeld(t))
             /\ AllListed(s) => AllListed(t)
  OBVIOUS
<1>0. /\ e \in Entry /\ e.lit = l /\ e.level = level
      /\ s.implied \in [lits : Seq(Entry), level : Nat, front : Nat]
  BY DEF Entry, State
<1>1. /\ u.implied.lits = [s.implied.lits EXCEPT ![first] = e]
      /\ u.implied.level = s.implied.level /\ u.implied.front = s.implied.front
      /\ u.trail = s.trail /\ LevelsSame(s, u) /\ u.conflict = s.conflict
      /\ u = [s EXCEPT !.implied = u.implied]
      /\ u.implied = [lits |-> u.implied.lits, level |-> u.implied.level, front |-> u.implied.front]
  BY <1>0 DEF LevelsSame, State
<1>2. u.implied.lits \in Seq(Entry)
  <2>1. s.implied.lits \in Seq(Entry)
    BY <1>0
  <2> HIDE DEF u, e
  <2> QED
    BY <1>0, <1>1, <2>1
<1>3. u \in State
  <2>1. u.implied \in [lits : Seq(Entry), level : Nat, front : Nat]
    <3> HIDE DEF u
    <3> QED
      BY <1>0, <1>1, <1>2
  <2> HIDE DEF u
  <2> QED
    BY <1>1, <2>1 DEF State
<1> HIDE DEF u, e
<1>4. /\ DOMAIN u.implied.lits = DOMAIN s.implied.lits /\ u.implied.lits[first] = e
      /\ \A k \in DOMAIN s.implied.lits : k # first => u.implied.lits[k] = s.implied.lits[k]
  BY <1>1
<1>5. /\ Retold(u, t, l, level) /\ t.implied = u.implied /\ (FrontHeld(u) => FrontHeld(t))
      /\ \A j \in DOMAIN u.trail : u.trail[j].lit = l => t.trail[j].ante = c
  BY <1>3, SetReasonRetold
<1> HIDE DEF t
<1>6. Retold(s, t, l, level)
  <2>1. /\ t \in State /\ LevelsSame(s, t) /\ t.conflict = s.conflict /\ DOMAIN t.trail = DOMAIN s.trail
        /\ s.implied.level <= t.implied.level
    BY <1>1, <1>5 DEF Retold, LevelsSame
  <2>2. \A j \in DOMAIN s.trail :
          /\ t.trail[j].lit = s.trail[j].lit /\ t.trail[j].level = s.trail[j].level
          /\ t.trail[j].ante = s.trail[j].ante \/ t.trail[j].ante # NoAnte
    BY <1>1, <1>5 DEF Retold
  <2>3. \A i \in DOMAIN t.implied.lits :
          \/ t.implied.lits[i].lit = l /\ t.implied.lits[i].level = level
          \/ \E k \in DOMAIN s.implied.lits : t.implied.lits[i] = s.implied.lits[k]
    BY <1>0, <1>4, <1>5
  <2>4. \A k \in DOMAIN s.implied.lits :
          \/ \E i \in DOMAIN t.implied.lits : t.implied.lits[i] = s.implied.lits[k]
          \/ \A j \in DOMAIN s.trail : s.trail[j].lit = s.implied.lits[k].lit => t.trail[j].ante # NoAnte
    BY <1>1, <1>4, <1>5
  <2> QED
    BY <2>1, <2>2, <2>3, <2>4 DEF Retold
<1>7. \A k \in DOMAIN s.implied.lits : u.implied.lits[k].lit = s.implied.lits[k].lit
  BY <1>0, <1>4
<1>8. \A y, k : TrueBy(s, y, k) => TrueBy(t, y, k)
  BY <1>6 DEF Retold, TrueBy
<1>9. FrontHeld(s) => FrontHeld(t)
  BY <1>1, <1>4, <1>5, <1>6, <1>7, <1>8 DEF FrontHeld, Retold, LevelsSame
<1>10. AllListed(s) => AllListed(t)
  BY <1>1, <1>4, <1>5, <1>6, <1>7, <1>8 DEF AllListed, ListedBy, Retold, LevelsSame
<1> QED
  BY <1>6, <1>9, <1>10

(***************************************************************************)
(* The list when levels are undone.                                        *)
(***************************************************************************)
LEMMA KeptHere ==
  ASSUME NEW s \in State
  PROVE  WalkKept(s, Len(s.implied.lits), AssignUpTo(s)[Len(s.implied.lits)])
<1> DEFINE n == Len(s.implied.lits)
           f == AssignUpTo(s)
<1>1. n \in Nat /\ DOMAIN s.implied.lits = 1..n /\ s.implied.front \in Nat
  BY Typed
<1>2. f[0] = [sol |-> s, kept |-> <<>>]
  BY AssignUpToSteps
<1>3. \A i \in 1..n : f[i] = AssignNext(s, i, f[i - 1])
  BY AssignUpToSteps
<1> HIDE DEF f, n
<1> DEFINE S == {i \in Nat : i <= n => WalkKept(s, i, f[i])}
<1>4. 0 \in S
  <2>1. f[0].kept = <<>> /\ <<>> \in Seq(Entry) /\ Len(<<>>) = 0 /\ DOMAIN <<>> = {}
    BY <1>2
  <2>2. WalkKept(s, 0, f[0])
    BY <1>1, <2>1 DEF WalkKept
  <2> QED
    BY <2>2
<1>5. \A i \in Nat : i \in S => i + 1 \in S
  <2> SUFFICES ASSUME NEW i \in Nat, i \in S, i + 1 <= n PROVE WalkKept(s, i + 1, f[i + 1])
    OBVIOUS
  <2>1. WalkKept(s, i, f[i])
    BY <1>1
  <2>2. i + 1 \in DOMAIN s.implied.lits /\ i + 1 \in 1..n /\ (i + 1) - 1 = i
    BY <1>1
  <2>3. f[i + 1] = AssignNext(s, i + 1, f[i])
    BY <1>3, <2>2
  <2> QED
    BY <2>1, <2>2, <2>3, WalkKeptStep
<1>6. Nat \subseteq S
  <2> HIDE DEF S
  <2> QED
    BY <1>4, <1>5, NatSetInduction
<1> QED
  BY <1>1, <1>6 DEF f, n

(* A conflict at the root level. *)
Over(s) == s.conflict.has /\ DL(s) = s.root

LEMMA AssignLists ==
  ASSUME NEW s \in State, s.root <= DL(s), FrontHeld(s),
         \A j \in DOMAIN s.trail : s.trail[j].level <= DL(s)
  PROVE  LET t == ImpliedAssign(s)
         IN /\ \A i \in DOMAIN t.implied.lits :
                 t.conflict.has \/ TrueBy(t, t.implied.lits[i].lit, DL(t))
            /\ DOMAIN t.implied.lits = {} \/ t.implied.level = DL(t)
            /\ FrontHeld(t) \/ Over(t)
<1> DEFINE n    == Len(s.implied.lits)
           done == AssignUpTo(s)[n]
           t    == ImpliedAssign(s)
           level == IF done.kept = <<>> THEN 0 ELSE DL(s)
<1>1. /\ Heard(s, done) /\ Found(s, n, done) /\ WalkKept(s, n, done)
      /\ n \in Nat /\ DOMAIN s.implied.lits = 1..n
      /\ s.root \in Nat /\ DL(s) \in Nat /\ s.implied.front \in Nat
  BY HeardHere, FoundHere, KeptHere, Typed
<1>2. t \in State /\ LevelsSame(s, t)
  BY ImpliedAssignType
<1>3. /\ t.trail = done.sol.trail /\ t.conflict = done.sol.conflict /\ t.implied.lits = done.kept
      /\ t.implied.level = level
      /\ t.implied.front = IF level > s.root THEN s.implied.front ELSE Len(done.kept)
  <2>1. done.sol \in State
    BY <1>1 DEF Heard
  <2> HIDE DEF done, n
  <2> QED
    BY <2>1 DEF ImpliedAssign, State, done, n
<1> SUFFICES /\ \A i \in DOMAIN t.implied.lits :
                  t.conflict.has \/ TrueBy(t, t.implied.lits[i].lit, DL(t))
             /\ DOMAIN t.implied.lits = {} \/ t.implied.level = DL(t)
             /\ FrontHeld(t) \/ Over(t)
  OBVIOUS
<1> HIDE DEF done, t, n
<1>4. DL(t) = DL(s) /\ t.root = s.root
  BY <1>2 DEF LevelsSame, DL
<1>5. DOMAIN done.kept = 1..Len(done.kept) /\ Len(done.kept) \in Nat
  BY <1>1 DEF WalkKept
<1>6. \A y \in Lit, k \in Nat : k <= DL(s) /\ TrueBy(s, y, k) => TrueBy(t, y, k)
  BY <1>1, <1>3 DEF Heard, TrueBy
<1>7. \A j \in DOMAIN t.trail : t.trail[j].level <= DL(t)
  <2>1. DL(s) <= DL(s)
    BY <1>1
  <2> QED
    BY <1>1, <1>3, <1>4, <2>1 DEF Found, Heard
<1>8. ASSUME NEW i \in DOMAIN done.kept
      PROVE  t.conflict.has \/ TrueBy(t, done.kept[i].lit, DL(t))
  <2>1. PICK j \in 1..n : done.kept[i] = s.implied.lits[j] /\ Kept(s, j)
    BY <1>1 DEF WalkKept
  <2>2. s.implied.lits[j].lit \in Lit
    BY <1>1, Typed
  <2>3. CASE j <= s.implied.front
    <3>1. TrueBy(s, s.implied.lits[j].lit, s.root)
      BY <1>1, <2>1, <2>3 DEF FrontHeld
    <3>2. TrueBy(t, s.implied.lits[j].lit, s.root)
      BY <1>1, <1>6, <2>2, <3>1
    <3>3. \A k \in DOMAIN t.trail : t.trail[k].level \in Nat
      BY <1>2, Typed
    <3> QED
      BY <1>1, <1>4, <2>1, <3>2, <3>3 DEF TrueBy
  <2>4. CASE Visited(s, j)
    <3>1. SUFFICES ASSUME ~t.conflict.has PROVE TrueBy(t, s.implied.lits[j].lit, DL(t))
      BY <2>1
    <3>2. IsTrue(done.sol, s.implied.lits[j].lit)
      BY <1>1, <1>3, <2>4, <3>1 DEF Found
    <3>3. PICK k \in DOMAIN t.trail : t.trail[k].lit = s.implied.lits[j].lit
      BY <1>3, <3>2 DEF IsTrue, TrueLits
    <3> QED
      BY <1>7, <3>3 DEF TrueBy
  <2> QED
    BY <2>1, <2>3, <2>4 DEF Kept
<1>9. DOMAIN t.implied.lits = {} \/ t.implied.level = DL(t)
  <2>1. DOMAIN <<>> = {}
    OBVIOUS
  <2> QED
    BY <1>3, <1>4, <2>1
<1>10. CASE level > s.root
  <2>1. ASSUME NEW i \in 1..s.implied.front
        PROVE  i \in DOMAIN t.implied.lits /\ TrueBy(t, t.implied.lits[i].lit, t.root)
    <3>1. i \in DOMAIN s.implied.lits /\ TrueBy(s, s.implied.lits[i].lit, s.root)
      BY DEF FrontHeld
    <3>2. i <= n /\ i \in Nat /\ s.implied.lits[i].lit \in Lit
      BY <1>1, <3>1, Typed
    <3>3. i <= Len(done.kept) /\ done.kept[i] = s.implied.lits[i]
      BY <1>1, <3>2 DEF WalkKept
    <3>4. TrueBy(t, s.implied.lits[i].lit, s.root)
      BY <1>1, <1>6, <3>1, <3>2
    <3> QED
      BY <1>3, <1>4, <1>5, <3>2, <3>3, <3>4
  <2>2. FrontHeld(t)
    BY <1>3, <1>10, <2>1 DEF FrontHeld
  <2> QED
    BY <1>3, <1>8, <1>9, <2>2
<1>11. CASE ~(level > s.root)
  <2>1. t.implied.front = Len(done.kept)
    BY <1>3, <1>11
  <2>2. CASE done.kept = <<>>
    <3>1. t.implied.front = 0
      BY <2>1, <2>2
    <3>2. FrontHeld(t)
      BY <3>1 DEF FrontHeld
    <3> QED
      BY <1>3, <1>8, <1>9, <3>2
  <2>3. CASE done.kept # <<>>
    <3>1. DL(t) = t.root
      BY <1>1, <1>4, <1>11, <2>3
    <3>2. FrontHeld(t) \/ t.conflict.has
      BY <1>3, <1>5, <1>8, <2>1, <3>1 DEF FrontHeld
    <3> QED
      BY <1>3, <1>8, <1>9, <3>1, <3>2 DEF Over
  <2> QED
    BY <2>2, <2>3
<1> QED
  BY <1>10, <1>11

Settles(s) == \A i \in DOMAIN s.implied.lits : TrueBy(s, s.implied.lits[i].lit, s.implied.level)

LEMMA UndoLists ==
  ASSUME NEW s, Good(s), TrailShape(s), FrontHeld(s), NEW level \in Nat
  PROVE  LET t == UndoUntil(s, level)
         IN /\ FrontHeld(t) \/ Over(t)
            /\ t.conflict.has => DOMAIN t.implied.lits = {} \/ t.implied.level = DL(t)
            /\ DL(t) = s.bt /\ ~t.conflict.has /\ (Settles(s) \/ s.implied.level > s.bt) => AllListed(t)
<1> DEFINE t == UndoUntil(s, level)
           r == Reset(s, level)
           target == MaxOf(level, s.bt)
<1> SUFFICES /\ FrontHeld(t) \/ Over(t)
             /\ t.conflict.has => DOMAIN t.implied.lits = {} \/ t.implied.level = DL(t)
             /\ DL(t) = s.bt /\ ~t.conflict.has /\ (Settles(s) \/ s.implied.level > s.bt) => AllListed(t)
  OBVIOUS
<1>1. /\ Good(r) /\ r.root = s.root /\ r.bt = s.bt /\ r.implied = s.implied
      /\ r.conflict = NoConflict
      /\ DL(r) = MinOf(DL(s), target) /\ Cut(s, r, target)
      /\ \A i \in DOMAIN r.trail : r.trail[i].level <= DL(r)
      /\ t = IF ImpliedActive(r) THEN ImpliedAssign(r) ELSE r
  BY ResetFacts
<1> HIDE DEF r, t
<1>2. /\ r \in State /\ s \in State /\ DL(r) \in Nat /\ DL(s) \in Nat /\ s.bt \in Nat /\ s.root \in Nat
      /\ s.implied.level \in Nat /\ s.root <= s.bt /\ s.bt <= DL(s) /\ r.root <= r.bt /\ r.bt <= DL(r)
      /\ target \in Nat /\ DL(r) <= target /\ s.bt <= target
  BY <1>1, Typed DEF Good, Levels, MaxOf, MinOf
<1> HIDE DEF target
<1>3. ASSUME NEW x, NEW k \in Nat, k <= target, TrueBy(s, x, k) PROVE TrueBy(r, x, k)
  <2>1. PICK j \in DOMAIN s.trail : s.trail[j].lit = x /\ s.trail[j].level <= k
    BY <1>3 DEF TrueBy
  <2>2. s.trail[j].level <= target
    BY <1>2, <1>3, <2>1, Typed
  <2> QED
    BY <1>1, <2>1, <2>2 DEF Cut, TrueBy
<1>4. FrontHeld(r)
  BY <1>1, <1>2, <1>3 DEF FrontHeld
<1>5. CASE ImpliedActive(r)
  <2>1. /\ \A i \in DOMAIN t.implied.lits : t.conflict.has \/ TrueBy(t, t.implied.lits[i].lit, DL(t))
        /\ DOMAIN t.implied.lits = {} \/ t.implied.level = DL(t)
        /\ FrontHeld(t) \/ Over(t)
    BY <1>1, <1>2, <1>4, <1>5, AssignLists
  <2>2. LevelsSame(r, t) /\ t \in State
    BY <1>1, <1>2, <1>5, ImpliedAssignType
  <2>3. ASSUME DL(t) = s.bt, ~t.conflict.has PROVE AllListed(t)
    <3>1. t.bt = s.bt
      BY <1>1, <2>2 DEF LevelsSame
    <3>2. DOMAIN t.implied.lits = {} \/ ListedBy(t) = DL(t)
      BY <1>2, <2>1, <2>3, <3>1 DEF ListedBy, MinOf
    <3> QED
      BY <2>1, <2>3, <3>2 DEF AllListed
  <2> QED
    BY <2>1, <2>3
<1>6. CASE ~ImpliedActive(r)
  <2>1. t = r /\ ~t.conflict.has
    BY <1>1, <1>6 DEF NoConflict
  <2>2. ASSUME DL(t) = s.bt, Settles(s) \/ s.implied.level > s.bt, NEW i \in DOMAIN t.implied.lits
        PROVE  TrueBy(t, t.implied.lits[i].lit, ListedBy(t))
    <3>0. i \in DOMAIN s.implied.lits /\ i \in 1..Len(s.implied.lits) /\ DL(r) = s.bt
      BY <1>1, <1>2, <2>1, <2>2, Typed
    <3>1. CASE s.implied.level <= s.bt
      <4>1. TrueBy(s, s.implied.lits[i].lit, s.implied.level)
        BY <1>2, <2>2, <3>0, <3>1 DEF Settles
      <4>2. ListedBy(t) = s.implied.level /\ s.implied.level <= target
        BY <1>1, <1>2, <2>1, <3>1 DEF ListedBy, MinOf
      <4> QED
        BY <1>1, <1>2, <1>3, <2>1, <4>1, <4>2
    <3>2. CASE s.implied.level > s.bt
      <4>1. r.implied.front = Len(r.implied.lits)
        BY <1>1, <1>6, <3>0, <3>2 DEF ImpliedActive
      <4>2. TrueBy(r, r.implied.lits[i].lit, r.root)
        BY <1>1, <1>4, <3>0, <4>1 DEF FrontHeld
      <4>3. ListedBy(t) = s.bt
        BY <1>1, <1>2, <2>1, <3>2 DEF ListedBy, MinOf
      <4>4. \A j \in DOMAIN r.trail : r.trail[j].level \in Nat
        BY <1>2, Typed
      <4> QED
        BY <1>1, <1>2, <2>1, <4>2, <4>3, <4>4 DEF TrueBy
    <3> QED
      BY <1>2, <3>1, <3>2
  <2> QED
    BY <1>4, <2>1, <2>2 DEF AllListed
<1> QED
  BY <1>5, <1>6

LEMMA ButListed ==
  ASSUME NEW s \in State, NEW l, AllBut(s, l), IsTrue(s, l), DL(s) <= ListedBy(s),
         \A j \in DOMAIN s.trail : s.trail[j].level <= DL(s)
  PROVE  AllListed(s)
<1>1. DL(s) \in Nat /\ ListedBy(s) \in Nat
  BY Typed DEF ListedBy, MinOf
<1>2. PICK j \in DOMAIN s.trail : s.trail[j].lit = l
  BY DEF IsTrue, TrueLits
<1>3. s.trail[j].level \in Nat /\ s.trail[j].level <= DL(s)
  BY Typed
<1>4. TrueBy(s, l, ListedBy(s))
  BY <1>1, <1>2, <1>3 DEF TrueBy
<1> QED
  BY <1>4 DEF AllBut, AllListed

LEMMA ForceLists ==
  ASSUME NEW s \in State, NEW t, NEW l \in Lit, NEW ante, Forces(s, t, l, ante)
  PROVE  /\ FrontHeld(s) => FrontHeld(t)
         /\ \A x : AllBut(s, x) => AllBut(t, x)
         /\ AllListed(s) => AllListed(t)
         /\ ListedBy(t) = ListedBy(s) /\ DL(t) = DL(s)
<1>1. /\ t.implied = s.implied /\ LevelsSame(s, t) /\ DL(t) = DL(s)
      /\ \A x, k : TrueBy(s, x, k) => TrueBy(t, x, k)
  BY DEF Forces, TrueBy, LevelsSame, DL
<1> QED
  BY <1>1 DEF FrontHeld, AllBut, AllListed, ListedBy, LevelsSame

LEMMA RetoldLists ==
  ASSUME NEW s \in State, NEW t, NEW l, NEW level, Retold(s, t, l, level), t.implied = s.implied
  PROVE  AllListed(s) => AllListed(t)
<1>1. \A x, k : TrueBy(s, x, k) => TrueBy(t, x, k)
  BY DEF Retold, TrueBy
<1> QED
  BY <1>1 DEF AllListed, ListedBy, Retold, LevelsSame

(* What force_implied does once the solver has gone back to u. *)
LEMMA ForceBelowTells ==
  ASSUME NEW u, Good(u), TrailShape(u), NEW l \in Lit, NEW level \in Nat, NEW c \in SUBSET Lit,
         c # NoAnte, level <= DL(u), level = DL(u) \/ DL(u) = u.bt
  PROVE  LET v == IF DL(u) # level THEN AddImplied(u, [lit |-> l, level |-> level, ante |-> c]) ELSE u
             t == IF IsTrue(v, l) THEN SetReason(v, l, c) ELSE ForceLit(v, l, c)
         IN /\ Tells(u, t, l, level)
            /\ FrontHeld(u) /\ AllListed(u) /\ ~u.conflict.has /\ ~IsFalse(u, l)
                 => FrontHeld(t) /\ AllListed(t)
<1> DEFINE e == [lit |-> l, level |-> level, ante |-> c]
           v == IF DL(u) # level THEN AddImplied(u, e) ELSE u
           t == IF IsTrue(v, l) THEN SetReason(v, l, c) ELSE ForceLit(v, l, c)
<1> SUFFICES /\ Tells(u, t, l, level)
             /\ FrontHeld(u) /\ AllListed(u) /\ ~u.conflict.has /\ ~IsFalse(u, l)
                  => FrontHeld(t) /\ AllListed(t)
  OBVIOUS
<1>0. /\ e \in Entry /\ e.lit = l /\ e.level = level
      /\ u \in State /\ DL(u) \in Nat /\ u.bt \in Nat /\ u.implied.level \in Nat
  BY Typed DEF Entry, Good
<1>1. AllListed(u) => AllBut(u, l)
  BY DEF AllListed, AllBut
<1>2. /\ v \in State /\ DL(v) = DL(u) /\ v.trail = u.trail /\ v.conflict = u.conflict
      /\ Tells(u, v, l, level)
      /\ FrontHeld(u) => FrontHeld(v)
      /\ AllListed(u) => AllBut(v, l) /\ (AllListed(v) \/ DL(v) <= ListedBy(v))
  <2>1. CASE DL(u) # level
    <3>1. v = AddImplied(u, e)
      BY <2>1
    <3> HIDE DEF v, e
    <3>2. /\ Retold(u, v, l, level) /\ v.implied.level = MaxOf(u.implied.level, DL(u))
          /\ v.trail = u.trail /\ (FrontHeld(u) => FrontHeld(v))
      BY <1>0, <3>1, AddImpliedRetold
    <3>3. /\ Tells(u, v, l, level) /\ (AllBut(u, l) => AllBut(v, l))
          /\ v \in State /\ LevelsSame(u, v) /\ v.conflict = u.conflict
      BY <1>0, <3>2, RetoldTells DEF Retold
    <3>4. DL(v) = DL(u) /\ v.bt = u.bt
      BY <3>3 DEF LevelsSame, DL
    <3>5. DL(v) <= ListedBy(v)
      BY <1>0, <2>1, <3>2, <3>4 DEF ListedBy, MinOf, MaxOf
    <3> QED
      BY <1>1, <3>2, <3>3, <3>4, <3>5
  <2>2. CASE DL(u) = level
    <3>1. v = u
      BY <2>2
    <3> HIDE DEF v
    <3>2. Tells(u, u, l, level)
      BY <1>0 DEF Tells, Lasts, Stays
    <3> QED
      BY <1>0, <1>1, <3>1, <3>2
  <2> QED
    BY <2>1, <2>2
<1>3. \A j \in DOMAIN v.trail : v.trail[j].level <= DL(v)
  BY <1>2 DEF TrailShape
<1> HIDE DEF v, e
<1>4. CASE IsTrue(v, l)
  <2>1. t = SetReason(v, l, c)
    BY <1>4
  <2> HIDE DEF t
  <2>2. Retold(v, t, l, level) /\ t.implied = v.implied /\ (FrontHeld(v) => FrontHeld(t))
    BY <1>2, <2>1, SetReasonRetold
  <2>3. Tells(v, t, l, level) /\ (AllListed(v) => AllListed(t))
    BY <1>2, <2>2, RetoldTells, RetoldLists
  <2>4. Tells(u, t, l, level)
    BY <1>0, <1>2, <2>3, TellsTrans
  <2>5. AllListed(u) => AllListed(v)
    BY <1>2, <1>3, <1>4, ButListed
  <2> QED
    BY <1>2, <2>2, <2>3, <2>4, <2>5
<1>5. CASE ~IsTrue(v, l)
  <2>1. t = ForceLit(v, l, c)
    BY <1>5
  <2> HIDE DEF t
  <2>2. Forces(v, t, l, c) /\ Tells(v, t, l, level)
    BY <1>2, <2>1, ForceForces, ForceTells
  <2>3. Tells(u, t, l, level)
    BY <1>0, <1>2, <2>2, TellsTrans
  <2>4. /\ FrontHeld(v) => FrontHeld(t) /\ (AllBut(v, l) => AllBut(t, l))
        /\ AllListed(v) => AllListed(t)
        /\ ListedBy(t) = ListedBy(v) /\ DL(t) = DL(v)
    BY <1>2, <2>2, ForceLists
  <2>5. ASSUME FrontHeld(u), AllListed(u), ~u.conflict.has, ~IsFalse(u, l)
        PROVE  FrontHeld(t) /\ AllListed(t)
    <3>1. IsTrue(t, l)
      BY <1>2, <2>2, <2>5 DEF Forces, IsFalse, TrueLits
    <3>2. \A j \in DOMAIN t.trail : t.trail[j].level <= DL(t)
      BY <1>0, <1>2, <1>3, <2>2, <2>4 DEF Forces
    <3>3. t \in State
      BY <2>2 DEF Forces
    <3>4. FrontHeld(v) /\ AllBut(v, l) /\ (AllListed(v) \/ DL(v) <= ListedBy(v))
      BY <1>2, <2>5
    <3> QED
      BY <2>2, <2>4, <3>1, <3>2, <3>3, <3>4, ButListed
  <2> QED
    BY <2>3, <2>5
<1> QED
  BY <1>4, <1>5

LEMMA ForceImpliedTells ==
  ASSUME NEW R, NEW s, Good(s), Core(s, R), NEW l \in Lit, NEW level \in Nat,
         NEW c \in SUBSET Lit, c # NoAnte, level <= DL(s)
  PROVE  LET t == ForceImplied(s, l, level, c)
         IN /\ Tells(s, t, l, level)
            /\ FrontHeld(s) /\ AllListed(s) /\ ~IsFalse(s, l) => FrontHeld(t) /\ AllListed(t)
<1> DEFINE t == ForceImplied(s, l, level, c)
           lits == s.implied.lits
           known == {i \in DOMAIN lits : lits[i].lit = l}
           first == CHOOSE i \in known : \A j \in known : i <= j
           e == [lit |-> l, level |-> level, ante |-> c]
           u == UndoUntil(s, level)
           v == IF DL(u) # level THEN AddImplied(u, e) ELSE u
           w == IF IsTrue(v, l) THEN SetReason(v, l, c) ELSE ForceLit(v, l, c)
           x == SetReason([s EXCEPT !.implied.lits[first] = e], l, c)
<1> SUFFICES /\ Tells(s, t, l, level)
             /\ FrontHeld(s) /\ AllListed(s) /\ ~IsFalse(s, l) => FrontHeld(t) /\ AllListed(t)
  OBVIOUS
<1>0. s \in State /\ DL(s) \in Nat /\ s.bt \in Nat /\ s.bt <= DL(s) /\ TrailShape(s)
  BY Typed DEF Good, Levels, Core, TrailOk
<1>1. Tells(s, s, l, level)
  BY <1>0 DEF Tells, Lasts, Stays
<1>2. t = IF IsTrue(s, l) /\ LevelOf(s, l) <= level THEN s
          ELSE IF IsTrue(s, l) /\ known # {} THEN IF lits[first].level <= level THEN s ELSE x
          ELSE w
  BY DEF ForceImplied
<1>3. CASE t = s
  BY <1>1, <1>3
<1>4. CASE t = x /\ known # {}
  <2>1. known \in SUBSET (1..Len(lits)) /\ Len(lits) \in Nat
    BY <1>0, Typed
  <2>2. first \in known
    BY <1>4, <2>1, LeastPosition
  <2> HIDE DEF first, t
  <2>3. first \in DOMAIN s.implied.lits /\ s.implied.lits[first].lit = l
    BY <2>2
  <2> HIDE DEF known, lits, x
  <2>4. /\ Retold(s, x, l, level) /\ (FrontHeld(s) => FrontHeld(x))
        /\ AllListed(s) => AllListed(x)
    BY <1>0, <2>3, MovedRetold DEF x, lits
  <2>5. Tells(s, x, l, level)
    BY <1>0, <2>4, RetoldTells
  <2> QED
    BY <1>4, <2>4, <2>5
<1>5. CASE t = w
  <2> HIDE DEF t
  <2>1. /\ Good(u) /\ Core(u, R) /\ DL(u) = MinOf(DL(s), MaxOf(level, s.bt)) /\ u.bt = s.bt
    BY <1>0, UndoKeep
  <2>2. Undoes(s, u)
    BY <1>0, UndoUndoes
  <2>3. /\ FrontHeld(s) => FrontHeld(u) \/ Over(u)
    BY <1>0, UndoLists
  <2> HIDE DEF u
  <2>4. TrailShape(u) /\ level <= DL(u) /\ (level = DL(u) \/ DL(u) = u.bt) /\ s.bt <= DL(u)
    BY <1>0, <2>1 DEF Core, TrailOk, MinOf, MaxOf
  <2>5. /\ Tells(u, w, l, level)
        /\ FrontHeld(u) /\ AllListed(u) /\ ~u.conflict.has /\ ~IsFalse(u, l)
             => FrontHeld(w) /\ AllListed(w)
    BY <2>1, <2>4, ForceBelowTells
  <2> HIDE DEF w
  <2>6. Tells(s, w, l, level)
    BY <1>0, <2>2, <2>4, <2>5, UndoTells, TellsTrans
  <2>7. AllListed(s) => Grown(u, s) /\ AllListed(u) /\ ~u.conflict.has
    BY <1>0, <2>2, <2>4, UndoListed
  <2>8. Grown(u, s) /\ ~IsFalse(s, l) => ~IsFalse(u, l)
    BY DEF Grown, IsFalse, TrueLits
  <2> QED
    BY <1>5, <2>3, <2>5, <2>6, <2>7, <2>8 DEF Over
<1> HIDE DEF t, x, w
<1> QED
  BY <1>2, <1>3, <1>4, <1>5

(***************************************************************************)
(* Learning: the first literal of the clause follows from the level of the *)
(* others.                                                                 *)
(***************************************************************************)
LEMMA AtLevelTells ==
  ASSUME NEW R, NEW s, Good(s), Core(s, R), NEW l \in Lit, NEW level \in Nat,
         NEW c \in SUBSET Lit, c # NoAnte, level <= DL(s)
  PROVE  LET t == ForceAtLevel(s, l, level, c)
         IN /\ Tells(s, t, l, level)
            /\ FrontHeld(s) /\ AllListed(s) /\ ~IsFalse(s, l) => FrontHeld(t) /\ AllListed(t)
<1> DEFINE t == ForceAtLevel(s, l, level, c)
<1> SUFFICES /\ Tells(s, t, l, level)
             /\ FrontHeld(s) /\ AllListed(s) /\ ~IsFalse(s, l) => FrontHeld(t) /\ AllListed(t)
  OBVIOUS
<1>1. CASE level = DL(s)
  <2>1. t = ForceLit(s, l, c) /\ s \in State
    BY <1>1 DEF ForceAtLevel, Good
  <2> HIDE DEF t
  <2>2. Forces(s, t, l, c) /\ Tells(s, t, l, level)
    BY <2>1, ForceForces, ForceTells
  <2>3. /\ FrontHeld(s) => FrontHeld(t)
        /\ AllListed(s) => AllListed(t)
    BY <2>1, <2>2, ForceLists
  <2> QED
    BY <2>2, <2>3
<1>2. CASE level # DL(s)
  <2>1. t = ForceImplied(s, l, level, c)
    BY <1>2 DEF ForceAtLevel
  <2> HIDE DEF t
  <2> QED
    BY <2>1, ForceImpliedTells
<1> QED
  BY <1>1, <1>2

LEMMA JumpLists ==
  ASSUME NEW s, Good(s), TrailShape(s), NEW level \in Nat, NEW t, t = UndoUntil(s, level),
         TrailShape(t), s.bt <= DL(t), DL(t) < DL(s), NEW u, AtLevel(s, u, DL(s)), -(-u) = u,
         FrontHeld(s), AllListed(s)
  PROVE  FrontHeld(t) /\ AllListed(t) /\ ~IsFalse(t, -u)
<1>1. Undoes(s, t) /\ s \in State /\ (FrontHeld(t) \/ Over(t))
  BY UndoUndoes, UndoLists DEF Good
<1>2. Grown(t, s) /\ AllListed(t) /\ ~t.conflict.has
  BY <1>1, UndoListed
<1>3. ~IsFalse(t, -u)
  <2> SUFFICES ASSUME IsFalse(t, -u) PROVE FALSE
    OBVIOUS
  <2>1. PICK i \in DOMAIN t.trail : t.trail[i].lit = u
    BY DEF IsFalse, TrueLits
  <2>2. AtLevel(s, u, t.trail[i].level) /\ t.trail[i].level <= DL(t)
    BY <1>2, <2>1 DEF Grown, AtLevel, TrailShape
  <2>3. t.trail[i].level = DL(s)
    BY <1>1, <2>2, SameVar
  <2>4. DL(t) \in Nat /\ DL(s) \in Nat
    BY <1>1, Typed DEF Undoes
  <2> QED
    BY <2>2, <2>3, <2>4
<1> QED
  BY <1>1, <1>2, <1>3 DEF Over

LEMMA CreatedTells ==
  ASSUME NEW R, NEW s, Good(s), Core(s, R), s.bt < DL(s), NEW tail \in SUBSET Lit, AllFalse(s, tail),
         NEW u \in Lit, AtLevel(s, u, DL(s)), NEW l1 \in Second(s, tail)
  PROVE  LET t == Learnt(s, u, tail, l1)
         IN /\ \E level \in 0..DL(s) :
                 Tells(s, t, -u, level) /\ \A k \in tail : TrueBy(s, -k, level)
            /\ FrontHeld(s) /\ AllListed(s) => FrontHeld(t) /\ AllListed(t)
            /\ DL(t) < DL(s)
<1> DEFINE l0 == -u
           c == {l0} \cup tail
           level == IF l1 = 0 THEN 0 ELSE LevelOf(s, l1)
           back == UndoUntil(s, level)
           target == MaxOf(level, s.bt)
           t == Created(back, c, l0, l1)
           Goal == /\ \E n \in 0..DL(s) : Tells(s, t, l0, n) /\ \A k \in tail : TrueBy(s, -k, n)
                   /\ FrontHeld(s) /\ AllListed(s) => FrontHeld(t) /\ AllListed(t)
                   /\ DL(t) < DL(s)
<1>1. /\ s \in State /\ TrailShape(s) /\ s.bt \in Nat /\ DL(s) \in Nat /\ l0 \in Lit /\ c \in SUBSET Lit
      /\ -l0 = u /\ -(-u) = u
  BY Typed, LitFacts, Complements DEF Good, Core, TrailOk
<1>2. \A k \in tail : /\ AtLevel(s, -k, LevelOf(s, k)) /\ LevelOf(s, k) \in 1..(DL(s) - 1)
  <2> SUFFICES ASSUME NEW k \in tail
               PROVE  AtLevel(s, -k, LevelOf(s, k)) /\ LevelOf(s, k) \in 1..(DL(s) - 1)
    OBVIOUS
  <2>1. PICK n \in 1..(DL(s) - 1) : AtLevel(s, -k, n)
    BY DEF AllFalse
  <2>2. LevelOf(s, k) = n
    BY <1>1, <2>1, TrueAt
  <2> QED
    BY <2>1, <2>2
<1>3. \/ tail = {} /\ l1 = 0 /\ level = 0
      \/ /\ tail # {} /\ l1 # 0 /\ level \in 1..(DL(s) - 1) /\ AtLevel(s, -l1, level) /\ l1 \in Lit
         /\ \A k \in tail : LevelOf(s, k) <= level
  <2>1. CASE tail = {}
    BY <2>1 DEF Second
  <2>2. CASE tail # {}
    <3>1. l1 \in tail /\ \A k \in tail : LevelOf(s, k) <= LevelOf(s, l1)
      BY <2>2 DEF Second
    <3>2. l1 # 0 /\ l1 \in Lit
      BY <3>1, LitFacts
    <3> QED
      BY <1>2, <2>2, <3>1, <3>2
  <2> QED
    BY <2>1, <2>2
<1> SUFFICES Goal
  BY DEF Learnt, JumpedBack
<1> HIDE DEF level
<1>4. level \in Nat /\ level < DL(s) /\ target \in Nat /\ level <= target /\ s.bt <= target /\ target < DL(s)
      /\ MinOf(DL(s), target) = target
  BY <1>1, <1>3 DEF MaxOf, MinOf
<1>5. /\ Good(back) /\ Core(back, R) /\ DL(back) = target /\ Stays(s, back, target)
  BY <1>4, UndoKeep
<1>6. Undoes(s, back)
  BY <1>1, <1>4, UndoUndoes
<1> HIDE DEF target
<1>7. back \in State /\ TrailShape(back)
  BY <1>5 DEF Good, Core, TrailOk
<1>8. FrontHeld(s) /\ AllListed(s) => FrontHeld(back) /\ AllListed(back) /\ ~IsFalse(back, l0)
  BY <1>1, <1>4, <1>5, <1>7, JumpLists
<1> HIDE DEF back
<1>9. \A n : Tells(s, back, l0, n)
  BY <1>1, <1>6, UndoTells
<1>10. c # NoAnte
  BY DEF NoAnte
<1>11. CASE tail = {}
  <2>1. c = {l0} /\ Cardinality(c) = 1
    BY <1>11, FS_Singleton
  <2>2. t = back \/ t = ForceAtLevel(back, l0, DL(back), c)
    BY <2>1 DEF Created, AddUnit, ForceAtLevel
  <2> HIDE DEF c, l0, t
  <2>3. DL(back) \in Nat /\ DL(back) <= DL(back) /\ DL(back) \in 0..DL(s)
    BY <1>1, <1>4, <1>5
  <2>4. /\ Tells(s, t, l0, DL(back)) /\ DL(t) < DL(s)
        /\ FrontHeld(s) /\ AllListed(s) => FrontHeld(t) /\ AllListed(t)
    <3> DEFINE x == ForceAtLevel(back, l0, DL(back), c)
    <3>1. /\ Tells(back, x, l0, DL(back))
          /\ FrontHeld(back) /\ AllListed(back) /\ ~IsFalse(back, l0) => FrontHeld(x) /\ AllListed(x)
      BY <1>1, <1>5, <1>10, <2>3, AtLevelTells
    <3> HIDE DEF x
    <3>2. Tells(s, x, l0, DL(back))
      BY <1>1, <1>9, <2>3, <3>1, TellsTrans
    <3>3. x \in State /\ DL(x) \in Nat /\ DL(x) <= DL(back)
      BY <3>1, Typed DEF Tells, Lasts
    <3>4. DL(back) < DL(s) /\ DL(x) < DL(s)
      BY <1>1, <1>4, <1>5, <3>3
    <3> QED
      BY <1>8, <1>9, <2>2, <3>1, <3>2, <3>4 DEF x
  <2> QED
    BY <1>11, <2>3, <2>4
<1>12. CASE tail # {}
  <2>1. /\ l1 # 0 /\ level \in 1..(DL(s) - 1) /\ AtLevel(s, -l1, level) /\ l1 \in Lit
        /\ \A k \in tail : LevelOf(s, k) <= level
    BY <1>3, <1>12
  <2>2. AtLevel(back, -l1, level)
    BY <1>1, <1>4, <1>5, <2>1, StaysTrue
  <2>3. LevelOf(back, l1) = level
    BY <1>7, <2>1, <2>2, TrueAt
  <2>5. \A k \in tail : TrueBy(s, -k, level)
    BY <1>2, <2>1 DEF AtLevel, TrueBy
  <2>6. Cardinality(c) # 1
    <3>1. IsFiniteSet(c)
      BY <1>1, LitFinite, FS_Subset
    <3>2. ASSUME Cardinality(c) = 1 PROVE FALSE
      <4>1. PICK k \in tail : TRUE
        BY <1>12
      <4>2. PICK n \in 1..(DL(s) - 1) : AtLevel(s, -k, n)
        BY DEF AllFalse
      <4>3. k = l0
        <5>1. Cardinality(c) <= 1 /\ k \in c /\ l0 \in c
          BY <3>2
        <5> HIDE DEF c
        <5> QED
          BY <3>1, <5>1, SingleElement
      <4>4. AtLevel(s, u, n)
        BY <1>1, <4>2, <4>3
      <4> QED
        BY <1>1, <4>4, SameVar
    <3> QED
      BY <3>2
  <2>7. t = back \/ t = ForceAtLevel(back, l0, level, c)
    BY <2>1, <2>3, <2>6 DEF Created, Asserted
  <2> HIDE DEF c, l0, t
  <2>8. level \in 0..DL(s) /\ level <= DL(back)
    BY <1>1, <1>4, <1>5
  <2> DEFINE x == ForceAtLevel(back, l0, level, c)
  <2>9. /\ Tells(back, x, l0, level)
        /\ FrontHeld(back) /\ AllListed(back) /\ ~IsFalse(back, l0) => FrontHeld(x) /\ AllListed(x)
    BY <1>1, <1>4, <1>5, <1>10, <2>8, AtLevelTells
  <2> HIDE DEF x
  <2>10. Tells(s, x, l0, level)
    BY <1>1, <1>4, <1>9, <2>8, <2>9, TellsTrans
  <2>11. x \in State /\ DL(x) \in Nat /\ DL(x) <= DL(back)
    BY <2>9, Typed DEF Tells, Lasts
  <2>12. DL(back) < DL(s) /\ DL(x) < DL(s)
    BY <1>1, <1>4, <1>5, <2>11
  <2>13. /\ Tells(s, t, l0, level) /\ DL(t) < DL(s)
         /\ FrontHeld(s) /\ AllListed(s) => FrontHeld(t) /\ AllListed(t)
    BY <1>8, <1>9, <2>7, <2>9, <2>10, <2>12 DEF x
  <2> QED
    BY <2>5, <2>8, <2>13
<1> QED
  BY <1>11, <1>12

(***************************************************************************)
(* The invariant.                                                          *)
(***************************************************************************)
OpenLevels == IF Busy THEN DL(sol) - 1 ELSE DL(sol)

(* A model that has not been backtracked over is still reached; one that   *)
(* has been is not any more, once backtrack_step is done; and while it is  *)
(* not, the decisions that are left lead to such models only.              *)
TracksLeft == \A m \in Models : Excluded(m) \/ Tracks(sol, m)
LeavesPast ==
  \A m \in Models : Excluded(m) =>
    Leaves(sol, m) \/ Over(sol) \/ (pc = "flip" /\ Upto(sol, m, DL(sol)))
FlipsPast == pc = "flip" => \A m \in Models : Upto(sol, m, DL(sol)) => Excluded(m)

(* The list of implied literals holds; only a conflict that backtrack_step *)
(* has met may keep it from being assigned.                                *)
ListHolds ==
  Over(sol) \/ (FrontHeld(sol) /\ (\/ AllListed(sol)
                                   \/ pc = "flip" /\ sol.conflict.has /\ sol.implied.level = DL(sol)))

(* The i-th guiding path goes another way at the i-th decision. *)
Guides(i) ==
  /\ -(sol.decisions[i]) \in given[i] /\ \A k \in 1..(i - 1) : sol.decisions[k] \in given[i]
  /\ \A m \in Models : Upto(sol, m, i - 1) /\ ~Holds(m, sol.decisions[i]) /\ ~Excluded(m)
                         => AllHold(m, given[i])
  /\ \A m \in Models : AllHold(m, given[i]) => ~Excluded(m)
Guided ==
  given \in Seq(SUBSET Lit) /\ Len(given) = sol.root /\ \A i \in 1..sol.root : Guides(i)

SplitInv ==
  /\ Sourced(sol) /\ Seated(sol, OpenLevels)
  /\ TracksLeft /\ LeavesPast /\ FlipsPast /\ ListHolds /\ Guided

(* A step that keeps the levels up to the backtrack level and tells a      *)
(* model nothing new.                                                      *)
Carries(s, t, n) ==
  /\ n \in Nat /\ Lasts(s, t, n) /\ s.bt <= n /\ s.bt <= t.bt /\ t.root = s.root

LEMMA GuidedStays ==
  ASSUME Guided, sol \in State, sol'.root = sol.root,
         \A k \in 1..sol.root : sol'.decisions[k] = sol.decisions[k],
         formula' = formula, given' = given, excluded' = excluded
  PROVE  Guided'
<1>1. sol.root \in Nat /\ sol'.root = sol.root
  BY Typed
<1>2. \A k \in 1..sol.root : sol'.decisions[k] = sol.decisions[k]
  OBVIOUS
<1>3. Models' = Models /\ \A m : Excluded(m)' = Excluded(m)
  BY DEF Models, Excluded
<1> SUFFICES ASSUME NEW i \in 1..sol.root PROVE Guides(i)'
  BY <1>1 DEF Guided
<1>4. \A m : Upto(sol', m, i - 1) => Upto(sol, m, i - 1)
  BY <1>1, <1>2 DEF Upto
<1>5. Guides(i)
  BY DEF Guided
<1>6. /\ -(sol'.decisions[i]) \in given'[i] /\ \A k \in 1..(i - 1) : sol'.decisions[k] \in given'[i]
  BY <1>1, <1>2, <1>5 DEF Guides
<1>7. \A m \in Models' : Upto(sol', m, i - 1) /\ ~Holds(m, sol'.decisions[i]) /\ ~Excluded(m)'
                           => AllHold(m, given'[i])
  BY <1>2, <1>3, <1>4, <1>5 DEF Guides
<1>8. \A m \in Models' : AllHold(m, given'[i]) => ~Excluded(m)'
  BY <1>3, <1>5 DEF Guides
<1> QED
  BY <1>6, <1>7, <1>8 DEF Guides

LEMMA CarriesSplit ==
  ASSUME SplitInv, sol \in State, sol' \in State, NEW n, Carries(sol, sol', n), sol.root <= sol.bt,
         formula' = formula, given' = given, excluded' = excluded,
         pc # "flip", pc' # "flip", Over(sol) => Over(sol)',
         Sourced(sol)', Seated(sol, OpenLevels)', ListHolds',
         \A m \in Models : Tracks(sol, m) => Tracks(sol', m)
  PROVE  SplitInv'
<1>1. Models' = Models /\ \A m : Excluded(m)' = Excluded(m)
  BY DEF Models, Excluded
<1>2. Guided'
  <2>1. n \in Nat /\ sol.root \in Nat /\ sol.root <= n /\ sol'.root = sol.root
    BY Typed DEF Carries
  <2>2. \A k \in 1..sol.root : sol'.decisions[k] = sol.decisions[k]
    BY <2>1 DEF Carries, Lasts
  <2> QED
    BY <2>1, <2>2, GuidedStays DEF SplitInv
<1>3. TracksLeft'
  BY <1>1 DEF SplitInv, TracksLeft, Tracks
<1>4. LeavesPast'
  <2> SUFFICES ASSUME NEW m \in Models, Excluded(m), ~Over(sol)' PROVE Leaves(sol', m)
    BY <1>1 DEF LeavesPast, Leaves
  <2>1. Leaves(sol, m)
    BY DEF SplitInv, LeavesPast
  <2> QED
    BY <2>1, LastsLeaves DEF Carries
<1>5. FlipsPast'
  BY DEF FlipsPast
<1> QED
  BY <1>2, <1>3, <1>4, <1>5 DEF SplitInv

(* Steps that leave the solver, or all but its queue, alone. *)
LEMMA QueueSplit ==
  ASSUME SplitInv, sol \in State, sol' \in State, sol.root <= sol.bt, sol.bt <= DL(sol),
         sol' = [sol EXCEPT !.front = sol'.front],
         formula' = formula, given' = given, excluded' = excluded,
         pc # "flip", pc' # "flip", Busy => Busy'
  PROVE  SplitInv'
<1>1. /\ sol'.trail = sol.trail /\ sol'.decisions = sol.decisions /\ sol'.implied = sol.implied
      /\ sol'.root = sol.root /\ sol'.bt = sol.bt /\ sol'.conflict = sol.conflict
      /\ DL(sol') = DL(sol) /\ DL(sol) \in Nat /\ DL(sol)' = DL(sol')
  BY Typed DEF State, DL
<1>2. Carries(sol, sol', DL(sol))
  <2>1. Stays(sol, sol', DL(sol)) /\ \A k \in 1..DL(sol) : sol'.decisions[k] = sol.decisions[k]
    BY <1>1 DEF Stays
  <2>2. DL(sol) <= DL(sol) /\ DL(sol) <= DL(sol') /\ sol'.bt \in Nat /\ sol.bt <= sol'.bt
    BY <1>1, Typed
  <2> QED
    BY <1>1, <2>1, <2>2 DEF Carries, Lasts
<1>3. Over(sol)' = Over(sol)
  BY <1>1 DEF Over
<1>4. Sourced(sol)'
  BY <1>1 DEF SplitInv, Sourced, Origin
<1>5. Seated(sol, OpenLevels)'
  <2>1. \/ OpenLevels' = OpenLevels
        \/ OpenLevels' = DL(sol) - 1 /\ OpenLevels = DL(sol)
    <3>1. CASE Busy'
      BY <1>1, <3>1 DEF OpenLevels
    <3>2. CASE ~Busy'
      BY <1>1, <3>2 DEF OpenLevels
    <3> QED
      BY <3>1, <3>2
  <2>2. \A k \in 1..OpenLevels' : k \in 1..OpenLevels
    BY <1>1, <2>1
  <2> QED
    BY <1>1, <2>2 DEF SplitInv, Seated, TrueBy
<1>6. ListHolds'
  BY <1>1, <1>3 DEF SplitInv, ListHolds, FrontHeld, AllListed, ListedBy, TrueBy
<1>7. \A m \in Models : Tracks(sol, m) => Tracks(sol', m)
  BY <1>1 DEF Tracks, Upto, Answered, TrueBy, Remembered
<1> QED
  BY <1>2, <1>3, <1>4, <1>5, <1>6, <1>7, CarriesSplit

LEMMA SameSplit ==
  ASSUME SplitInv, sol \in State, sol.root <= sol.bt, sol.bt <= DL(sol), sol' = sol,
         formula' = formula, given' = given, excluded' = excluded,
         pc # "flip", pc' # "flip", Busy => Busy'
  PROVE  SplitInv'
<1>1. sol' = [sol EXCEPT !.front = sol'.front]
  BY DEF State
<1> QED
  BY <1>1, QueueSplit

(***************************************************************************)
(* Models that are tracked.                                                *)
(***************************************************************************)
LEMMA SureHolds ==
  ASSUME sol \in State, NEW m \in Models, Tracks(sol, m)
  PROVE  /\ m \in Assignments /\ AllHold(m, Facts(sol))
         /\ \A c \in Sure : \E l \in c : Holds(m, l)
         /\ \A l : IsTrue(sol, l) /\ Upto(sol, m, DL(sol)) /\ TrailShape(sol) => Holds(m, l)
<1>0. DL(sol) \in Nat /\ Models \subseteq Assignments
  BY Typed DEF Models
<1>1. AllHold(m, Facts(sol))
  <2> SUFFICES ASSUME NEW i \in DOMAIN sol.trail, sol.trail[i].level = 0 PROVE Holds(m, sol.trail[i].lit)
    BY DEF AllHold, Facts
  <2>1. Answered(sol, sol.trail[i].lit, 0) /\ Upto(sol, m, 0) /\ 0 \in 0..DL(sol)
    BY <1>0 DEF Answered, TrueBy, Upto
  <2> QED
    BY <2>1 DEF Tracks
<1>2. \A c \in Sure : \E l \in c : Holds(m, l)
  BY <1>0, <1>1 DEF Sure, SureOf, Models
<1>3. ASSUME NEW l, IsTrue(sol, l), Upto(sol, m, DL(sol)), TrailShape(sol) PROVE Holds(m, l)
  <2>1. TrueBy(sol, l, DL(sol))
    BY <1>3 DEF IsTrue, TrueLits, TrueBy, TrailShape
  <2> QED
    BY <1>0, <1>3, <2>1 DEF Tracks, Answered
<1> QED
  BY <1>0, <1>1, <1>2, <1>3

(* A clause of which all other literals are false gives its literal to the *)
(* models that come this far.                                              *)
LEMMA UnitHolds ==
  ASSUME sol \in State, TrailShape(sol), NEW m \in Models, Tracks(sol, m), NEW c \in Sure, NEW l \in c,
         NEW n \in 0..DL(sol), \A k \in c \ {l} : TrueBy(sol, -k, n), Upto(sol, m, n)
  PROVE  Holds(m, l)
<1>1. PICK k \in c : Holds(m, k)
  BY SureHolds
<1>2. c \subseteq Lit /\ m \in Assignments
  BY SureHolds DEF Sure, SureOf
<1>3. CASE k # l
  <2>1. Holds(m, -k)
    BY <1>3 DEF Tracks, Answered
  <2> QED
    BY <1>1, <1>2, <2>1, HoldsOne
<1> QED
  BY <1>1, <1>3

LEMMA SplitFacts ==
  ASSUME TypeOK, LevelInv, Sound, SplitInv, ~Over(sol)
  PROVE  /\ sol \in State /\ Good(sol) /\ Core(sol, Sure) /\ ~sol.stop.set
         /\ TrailShape(sol) /\ Reasoned(sol, Sure) /\ sol.root <= sol.bt /\ sol.bt <= DL(sol)
         /\ FrontHeld(sol) /\ (pc # "flip" => AllListed(sol))
<1>1. sol \in State /\ Good(sol) /\ sol.root <= sol.bt /\ sol.bt <= DL(sol)
  BY GoodSol DEF Good, LevelInv
<1>2. ~sol.stop.set /\ Core(sol, Sure)
  <2>1. CASE Busy
    BY <2>1 DEF Sound, SolverInv
  <2>2. CASE ~Busy
    <3>1. SolverOk(sol, Sure) /\ ~sol.stop.set
      BY <2>2 DEF Sound, SolverInv, SolverOk, Over
    <3> QED
      BY <1>1, <3>1, PlainCore
  <2> QED
    BY <2>1, <2>2
<1>3. FrontHeld(sol) /\ (pc # "flip" => AllListed(sol))
  BY DEF SplitInv, ListHolds
<1> QED
  BY <1>1, <1>2, <1>3 DEF Core, TrailOk

(***************************************************************************)
(* Forcing a literal in the running solver.                                *)
(***************************************************************************)
LEMMA ForceSplit ==
  ASSUME TypeOK, LevelInv, Sound, SplitInv, ~Busy, ~Busy', ~Over(sol), pc # "flip", pc' # "flip",
         NEW l \in Lit, NEW ante \in SUBSET Lit, sol' = ForceLit(sol, l, ante),
         Origin(sol, [lit |-> l, level |-> DL(sol), ante |-> ante]),
         \A m \in Models : Tracks(sol, m) /\ Upto(sol, m, DL(sol)) => Holds(m, l),
         formula' = formula, given' = given, excluded' = excluded
  PROVE  SplitInv'
<1>0. /\ sol \in State /\ sol.root <= sol.bt /\ sol.bt <= DL(sol) /\ FrontHeld(sol) /\ AllListed(sol)
      /\ DL(sol) \in Nat /\ sol.bt \in Nat
  BY SplitFacts, Typed
<1>1. Forces(sol, sol', l, ante)
  BY <1>0, ForceForces
<1>2. /\ DL(sol') = DL(sol) /\ Lasts(sol, sol', DL(sol)) /\ Sourced(sol')
      /\ \A m \in Models : Tracks(sol, m) => Tracks(sol', m)
  BY <1>0, <1>1, ForceTracks DEF SplitInv
<1>3. sol' \in State /\ sol'.bt = sol.bt /\ sol'.root = sol.root
  BY <1>1 DEF Forces, LevelsSame
<1>4. Carries(sol, sol', DL(sol))
  BY <1>0, <1>2, <1>3 DEF Carries
<1>5. Seated(sol, OpenLevels)'
  <2>1. OpenLevels = DL(sol) /\ OpenLevels' = DL(sol')
    BY DEF OpenLevels
  <2> QED
    BY <1>0, <1>2, <2>1, LastsSeated DEF SplitInv
<1>6. ListHolds'
  BY <1>0, <1>1, ForceLists DEF ListHolds
<1>7. Sourced(sol)'
  <2>1. Sourced(sol') <=> Sourced(sol)'
    BY DEF Sourced, Origin
  <2> QED
    BY <1>2, <2>1
<1> QED
  BY <1>0, <1>2, <1>3, <1>4, <1>5, <1>6, <1>7, CarriesSplit

LEMMA ClauseSplit ==
  ASSUME TypeOK, LevelInv, Sound, SplitInv, Propagating, pc' = pc, NEW c \in Clauses, NEW l \in c,
         \A k \in c \ {l} : IsFalse(sol, k), sol' = ForceLit(sol, l, c),
         formula' = formula, given' = given, excluded' = excluded
  PROVE  SplitInv'
<1>1. ~Busy /\ ~Busy' /\ ~Over(sol) /\ pc # "flip" /\ pc' # "flip"
  BY DEF Propagating, Busy, Over
<1>2. c \in Sure /\ c \in SUBSET Lit /\ l \in Lit /\ c # NoAnte
  BY DEF Sound, DbInv, Sure, SureOf, NoAnte
<1>3. sol \in State /\ TrailShape(sol) /\ DL(sol) \in Nat
  BY <1>1, SplitFacts, Typed
<1>4. \A k \in c \ {l} : TrueBy(sol, -k, DL(sol))
  BY <1>3 DEF IsFalse, TrueLits, TrueBy, TrailShape
<1>5. \A m \in Models : Tracks(sol, m) /\ Upto(sol, m, DL(sol)) => Holds(m, l)
  <2>1. DL(sol) \in 0..DL(sol)
    BY <1>3
  <2> QED
    BY <1>2, <1>3, <1>4, <2>1, UnitHolds
<1>6. Origin(sol, [lit |-> l, level |-> DL(sol), ante |-> c])
  BY <1>2 DEF Origin
<1> QED
  BY <1>1, <1>2, <1>5, <1>6, ForceSplit

LEMMA PropagationSplit ==
  ASSUME TypeOK, LevelInv, Sound, SplitInv, Propagation
  PROVE  SplitInv'
<1>1. /\ pc = "prop" /\ ~Busy /\ pc' # "flip" /\ pc # "flip" /\ formula' = formula /\ given' = given
      /\ excluded' = excluded /\ sol \in State /\ sol.root <= sol.bt /\ sol.bt <= DL(sol)
  BY DEF Sound, ControlInv, Propagation, ForceByShort, MoveWatch, ForceByWatch, Dequeue,
         PropagateReturns, Propagating, Busy, TypeOK, LevelInv
<1>2. Len(sol.trail) \in Nat /\ sol.front \in Nat
  BY <1>1, Typed
<1>3. CASE ForceByShort
  <2>0. Propagating /\ pc' = pc
    BY <1>3 DEF ForceByShort
  <2>1. PICK c \in ShortPending : \E l \in Forced(c, c \ {-QHead}) : sol' = ForceLit(sol, l, c)
    BY <1>3 DEF ForceByShort
  <2>2. PICK l \in Forced(c, c \ {-QHead}) : sol' = ForceLit(sol, l, c)
    BY <2>1
  <2>3. c \in Clauses /\ -QHead \in c /\ Cardinality(NotFalse(c)) <= 1
    BY DEF ShortPending, Forcing, Clauses
  <2>4. l \in c /\ \A k \in c \ {l} : IsFalse(sol, k)
    <3>1. CASE NotFalse(c) = {}
      BY <2>2, <3>1 DEF Forced, NotFalse
    <3>2. CASE NotFalse(c) # {}
      <4>1. l \in NotFalse(c)
        BY <2>2, <3>2 DEF Forced
      <4>2. c \in SUBSET Lit
        BY <2>3 DEF Sound, DbInv, Sure, SureOf
      <4>3. IsFiniteSet(NotFalse(c))
        BY <4>2, LitFinite, FS_Subset DEF NotFalse
      <4>4. NotFalse(c) = {l}
        BY <2>3, <4>1, <4>3, SingleElement
      <4> QED
        BY <4>1, <4>4 DEF NotFalse
    <3> QED
      BY <3>1, <3>2
  <2> QED
    BY <1>1, <2>0, <2>2, <2>3, <2>4, ClauseSplit
<1>4. CASE MoveWatch
  <2>1. sol' = sol
    BY <1>4 DEF MoveWatch
  <2> QED
    BY <1>1, <2>1, SameSplit
<1>5. CASE ForceByWatch
  <2>0. Propagating /\ pc' = pc
    BY <1>5 DEF ForceByWatch
  <2>1. PICK c \in WatchPending : /\ NotFalse(c) \subseteq watches[c]
                                  /\ \E l \in watches[c] \ {-QHead} : sol' = ForceLit(sol, l, c)
    BY <1>5 DEF ForceByWatch
  <2>2. PICK l \in watches[c] \ {-QHead} : sol' = ForceLit(sol, l, c)
    BY <2>1
  <2>3. c \in Clauses /\ c \in Explicit /\ -QHead \in watches[c]
    BY DEF WatchPending, Clauses
  <2>4. PICK a \in c, b \in c : a # b /\ watches[c] = {a, b}
    BY <2>3 DEF Sound, WatchInv, Watched
  <2>5. -QHead \in c /\ l \in c /\ watches[c] = {-QHead, l}
    BY <2>2, <2>3, <2>4
  <2>6. IsFalse(sol, -QHead)
    <3>1. sol.front + 1 \in DOMAIN sol.trail /\ -(-QHead) = QHead
      BY <2>0, HeadOfQueue
    <3> QED
      BY <3>1 DEF IsFalse, TrueLits, QHead
  <2>7. \A k \in c \ {l} : IsFalse(sol, k)
    BY <2>1, <2>5, <2>6 DEF NotFalse
  <2> QED
    BY <1>1, <2>0, <2>2, <2>3, <2>5, <2>7, ClauseSplit
<1>6. CASE Dequeue \/ PropagateReturns
  <2>1. PICK n \in Nat : sol' = [sol EXCEPT !.front = n]
    <3>1. CASE Dequeue
      <4>1. sol' = [sol EXCEPT !.front = sol.front + 1] /\ sol.front + 1 \in Nat
        BY <1>2, <3>1 DEF Dequeue
      <4> QED
        BY <4>1
    <3>2. CASE PropagateReturns
      BY <1>2, <3>2 DEF PropagateReturns
    <3> QED
      BY <1>6, <3>1, <3>2
  <2>2. sol' \in State /\ sol'.front = n
    BY <1>1, <2>1 DEF State
  <2> QED
    BY <1>1, <2>1, <2>2, QueueSplit
<1> QED
  BY <1>3, <1>4, <1>5, <1>6 DEF Propagation

(***************************************************************************)
(* Adding the units of the problem, and what leaves the solver alone.      *)
(***************************************************************************)
LEMMA AddFactSplit ==
  ASSUME TypeOK, LevelInv, Sound, SplitInv, AddFact
  PROVE  SplitInv'
<1>1. /\ ~Busy /\ ~Busy' /\ pc # "flip" /\ pc' # "flip" /\ ~Over(sol) /\ formula' = formula
      /\ given' = given /\ excluded' = excluded
  BY DEF AddFact, Busy, Over
<1>2. PICK l \in UnitLits(formula) : sol' = ForceLit(sol, l, NoAnte)
  BY DEF AddFact
<1>3. l \in Lit /\ {l} \in formula /\ NoAnte \in SUBSET Lit
  BY DEF UnitLits, NoAnte
<1>4. Origin(sol, [lit |-> l, level |-> DL(sol), ante |-> NoAnte])
  BY <1>3 DEF Origin
<1>5. \A m \in Models : Holds(m, l)
  BY <1>3 DEF Models, Fulfils
<1> QED
  BY <1>1, <1>2, <1>3, <1>4, <1>5, ForceSplit

LEMMA AsideSplit ==
  ASSUME TypeOK, LevelInv, Sound, SplitInv,
         \/ EndInit \/ Ready \/ SearchAside \/ SearchSimplify \/ SimplifyTop
         \/ StartAnalysis \/ AnalysisPanics \/ Search \/ Propagate
  PROVE  SplitInv'
<1>1. /\ pc # "flip" /\ pc' # "flip" /\ formula' = formula /\ given' = given
      /\ excluded' = excluded /\ sol' = sol /\ (Busy => Busy')
  BY DEF EndInit, Ready, SearchAside, SearchTop, ModelFound, GiveUp, Refute, LimitReached, Continue,
         SearchSimplify, SimplifyTop, StartAnalysis, AnalysisPanics, Search, Propagate, Return, Call,
         Begin, Idle, Busy
<1>2. sol \in State /\ sol.root <= sol.bt /\ sol.bt <= DL(sol)
  BY DEF TypeOK, LevelInv
<1> QED
  BY <1>1, <1>2, SameSplit

(***************************************************************************)
(* A decision.                                                             *)
(***************************************************************************)
Opened(s, l) == [s EXCEPT !.decisions = Append(@, l)]

LEMMA OpenTracks ==
  ASSUME NEW R, NEW s, Good(s), Core(s, R), NEW l \in Lit
  PROVE  LET u == Opened(s, l)
         IN /\ u \in State /\ u.trail = s.trail /\ u.implied = s.implied /\ u.conflict = s.conflict
            /\ u.bt = s.bt /\ u.root = s.root /\ DL(u) = DL(s) + 1 /\ u.decisions[DL(u)] = l
            /\ \A k \in 1..DL(s) : u.decisions[k] = s.decisions[k]
            /\ Sourced(s) => Sourced(u)
            /\ \A m : Tracks(s, m) => Tracks(u, m)
<1> DEFINE u == Opened(s, l)
<1>0. s \in State /\ DL(s) \in Nat /\ s.bt \in Nat /\ s.decisions \in Seq(Lit) /\ s.bt <= DL(s)
  BY Typed DEF Good, Levels, State
<1>1. /\ Append(s.decisions, l) \in Seq(Lit) /\ Len(Append(s.decisions, l)) = DL(s) + 1
      /\ Append(s.decisions, l)[DL(s) + 1] = l
      /\ \A k \in 1..DL(s) : Append(s.decisions, l)[k] = s.decisions[k]
  BY <1>0, AppendProperties DEF DL
<1>2. /\ u \in State /\ u.trail = s.trail /\ u.implied = s.implied /\ u.conflict = s.conflict
      /\ u.bt = s.bt /\ u.root = s.root /\ u.decisions = Append(s.decisions, l)
  BY <1>0, <1>1 DEF Opened, State
<1> HIDE DEF u
<1>3. DL(u) = DL(s) + 1 /\ u.decisions[DL(u)] = l /\ \A k \in 1..DL(s) : u.decisions[k] = s.decisions[k]
  BY <1>1, <1>2 DEF DL
<1>4. ASSUME Sourced(s) PROVE Sourced(u)
  <2>1. \A k \in 1..DL(s) : k \in 1..DL(u)
    BY <1>0, <1>3
  <2>2. \A e : Origin(s, e) => Origin(u, e)
    BY <1>2, <1>3, <2>1 DEF Origin
  <2> QED
    BY <1>2, <1>4, <2>2 DEF Sourced
<1>5. ASSUME NEW m, Tracks(s, m) PROVE Tracks(u, m)
  <2> SUFFICES ASSUME NEW n \in 0..DL(u), Upto(u, m, n), NEW x, Answered(u, x, n) PROVE Holds(m, x)
    BY DEF Tracks
  <2>1. CASE n \in 0..DL(s)
    <3>1. Upto(s, m, n)
      BY <1>0, <1>3, <2>1 DEF Upto
    <3>2. Answered(s, x, n)
      BY <1>2 DEF Answered, TrueBy, Remembered
    <3> QED
      BY <1>5, <2>1, <3>1, <3>2 DEF Tracks
  <2>2. CASE n = DL(s) + 1
    <3>1. Upto(s, m, DL(s)) /\ DL(s) \in 0..DL(s)
      BY <1>0, <1>3, <2>2 DEF Upto
    <3>2. CASE TrueBy(u, x, n)
      <4>1. TrueBy(s, x, DL(s))
        BY <1>2, <3>2 DEF TrueBy, Core, TrailOk, TrailShape
      <4> QED
        BY <1>5, <3>1, <4>1 DEF Tracks, Answered
    <3>3. CASE Remembered(u, x, n)
      <4>1. PICK i \in DOMAIN s.implied.lits : s.implied.lits[i].lit = x
        BY <1>2, <3>3 DEF Remembered
      <4>2. s.implied.lits[i].level <= s.bt /\ s.implied.lits[i].level \in Nat
        BY <1>0, Typed DEF Core, ImpliedOk
      <4>3. Remembered(s, x, DL(s))
        BY <1>0, <4>1, <4>2 DEF Remembered
      <4> QED
        BY <1>5, <3>1, <4>3 DEF Tracks, Answered
    <3> QED
      BY <3>2, <3>3 DEF Answered
  <2> QED
    BY <1>0, <1>3, <2>1, <2>2
<1> QED
  BY <1>2, <1>3, <1>4, <1>5 DEF u

LEMMA AssumeSplit ==
  ASSUME TypeOK, LevelInv, Sound, SplitInv, ~Busy, ~Busy', NothingToLose, pc # "flip", pc' # "flip",
         NEW l \in FreeLits(sol), sol' = Assume(sol, l),
         formula' = formula, given' = given, excluded' = excluded
  PROVE  SplitInv'
<1>0. /\ ~Over(sol) /\ l \in Lit /\ IsFree(sol, l) /\ NoAnte \in SUBSET Lit
  BY DEF Over, NothingToLose, FreeLits, NoAnte
<1>1. /\ sol \in State /\ Good(sol) /\ Core(sol, Sure) /\ sol.root <= sol.bt /\ sol.bt <= DL(sol)
      /\ FrontHeld(sol) /\ AllListed(sol) /\ DL(sol) \in Nat /\ sol.bt \in Nat
  BY <1>0, SplitFacts, Typed
<1> DEFINE u == Opened(sol, l)
<1>2. sol' = ForceLit(u, l, NoAnte)
  BY <1>0 DEF Assume, IsFree, Opened
<1>3. /\ u \in State /\ u.trail = sol.trail /\ u.implied = sol.implied /\ u.conflict = sol.conflict
      /\ u.bt = sol.bt /\ u.root = sol.root /\ DL(u) = DL(sol) + 1 /\ u.decisions[DL(u)] = l
      /\ \A k \in 1..DL(sol) : u.decisions[k] = sol.decisions[k]
      /\ Sourced(u) /\ \A m : Tracks(sol, m) => Tracks(u, m)
  <2>1. Sourced(sol)
    BY DEF SplitInv
  <2> QED
    BY <1>0, <1>1, <2>1, OpenTracks
<1> HIDE DEF u
<1>4. Forces(u, sol', l, NoAnte)
  BY <1>0, <1>2, <1>3, ForceForces
<1>5. Origin(u, [lit |-> l, level |-> DL(u), ante |-> NoAnte])
  <2>1. DL(u) \in 1..DL(u) /\ DL(u) <= DL(u)
    BY <1>1, <1>3
  <2> QED
    BY <1>3, <2>1 DEF Origin
<1>6. /\ DL(sol') = DL(u) /\ Sourced(sol') /\ Lasts(u, sol', DL(u))
      /\ \A m : Tracks(u, m) /\ (Upto(u, m, DL(u)) => Holds(m, l)) => Tracks(sol', m)
  BY <1>0, <1>3, <1>4, <1>5, ForceTracks
<1>7. \A m : Upto(u, m, DL(u)) => Holds(m, l)
  <2>1. DL(u) \in 1..DL(u)
    BY <1>1, <1>3
  <2> QED
    BY <1>3, <2>1 DEF Upto
<1>8. \A m \in Models : Tracks(sol, m) => Tracks(sol', m)
  BY <1>3, <1>6, <1>7
<1>9. /\ sol' \in State /\ sol'.bt = sol.bt /\ sol'.root = sol.root /\ sol'.implied = sol.implied
      /\ sol'.decisions = u.decisions /\ ~sol'.conflict.has /\ IsTrue(sol', l)
  <2>1. ~IsFalse(u, l) /\ ~u.conflict.has
    BY <1>0, <1>3 DEF IsFree, IsFalse, TrueLits, NothingToLose
  <2> QED
    BY <1>3, <1>4, <2>1 DEF Forces, LevelsSame
<1>10. Lasts(sol, sol', DL(sol))
  <2>1. Stays(sol, sol', DL(sol))
    BY <1>3, <1>4 DEF Stays, Forces
  <2> QED
    BY <1>1, <1>3, <1>6, <1>9, <2>1 DEF Lasts
<1>11. Carries(sol, sol', DL(sol))
  BY <1>1, <1>9, <1>10 DEF Carries
<1>12. Seated(sol', DL(sol'))
  <2>1. Seated(sol', DL(sol))
    <3>1. Seated(sol, DL(sol))
      BY DEF SplitInv, OpenLevels
    <3> QED
      BY <1>1, <1>10, <3>1, LastsSeated
  <2>2. TrueBy(sol', l, DL(sol'))
    <3>1. PICK j \in DOMAIN sol'.trail : sol'.trail[j].lit = l
      BY <1>9 DEF IsTrue, TrueLits
    <3>2. sol'.trail[j].level <= DL(sol')
      <4>1. CASE j \in DOMAIN sol.trail
        <5>1. sol'.trail[j] = sol.trail[j]
          BY <1>3, <1>4, <4>1 DEF Forces
        <5>2. l \in TrueLits(sol)
          BY <3>1, <4>1, <5>1 DEF TrueLits
        <5> QED
          BY <1>0, <5>2 DEF IsFree, IsTrue
      <4>2. CASE sol'.trail[j].level = DL(u)
        BY <1>1, <1>3, <1>6, <4>2
      <4> QED
        BY <1>3, <1>4, <4>1, <4>2 DEF Forces
    <3> QED
      BY <3>1, <3>2 DEF TrueBy
  <2>3. \A k \in 1..DL(sol') : k \in 1..DL(sol) \/ k = DL(u)
    BY <1>1, <1>3, <1>6
  <2> QED
    BY <1>3, <1>6, <1>9, <2>1, <2>2, <2>3 DEF Seated
<1>13. Seated(sol, OpenLevels)' /\ Sourced(sol)'
  <2>1. OpenLevels' = DL(sol')
    BY DEF OpenLevels
  <2>2. Sourced(sol)' <=> Sourced(sol')
    BY DEF Sourced, Origin
  <2> QED
    BY <1>6, <1>12, <2>1, <2>2
<1>14. ListHolds'
  <2>1. FrontHeld(u) /\ AllListed(u)
    BY <1>1, <1>3 DEF FrontHeld, AllListed, ListedBy, TrueBy
  <2> QED
    BY <1>0, <1>3, <1>4, <2>1, ForceLists DEF ListHolds
<1> QED
  BY <1>0, <1>1, <1>8, <1>9, <1>11, <1>13, <1>14, CarriesSplit

(***************************************************************************)
(* Going back without moving the backtrack level.                          *)
(***************************************************************************)
LEMMA UndoSplit ==
  ASSUME TypeOK, LevelInv, Sound, SplitInv, ~Busy, ~Busy', ~Over(sol), pc # "flip", pc' # "flip",
         NEW level \in Nat, sol' = UndoUntil(sol, level),
         formula' = formula, given' = given, excluded' = excluded
  PROVE  SplitInv'
<1>1. /\ sol \in State /\ Good(sol) /\ Core(sol, Sure) /\ TrailShape(sol)
      /\ sol.root <= sol.bt /\ sol.bt <= DL(sol)
      /\ FrontHeld(sol) /\ AllListed(sol) /\ DL(sol) \in Nat /\ sol.bt \in Nat
  BY SplitFacts, Typed
<1>2. Undoes(sol, sol') /\ DL(sol') = MinOf(DL(sol), MaxOf(level, sol.bt))
  BY <1>1, UndoUndoes
<1>3. TrailShape(sol')
  <2>1. Core(sol', Sure)
    BY <1>1, UndoKeep
  <2> QED
    BY <2>1 DEF Core, TrailOk
<1>4. /\ sol' \in State /\ Lasts(sol, sol', DL(sol')) /\ sol'.bt = sol.bt /\ sol'.root = sol.root
  BY <1>2 DEF Undoes
<1>5. DL(sol') \in Nat /\ sol.bt <= DL(sol') /\ DL(sol') <= DL(sol)
  BY <1>1, <1>2 DEF MinOf, MaxOf
<1>6. Carries(sol, sol', DL(sol'))
  BY <1>1, <1>4, <1>5 DEF Carries
<1>7. Sourced(sol') /\ \A m \in Models : Tracks(sol, m) => Tracks(sol', m)
  BY <1>1, <1>2, UndoTracks DEF SplitInv
<1>8. Seated(sol', DL(sol'))
  <2>1. Seated(sol, DL(sol))
    BY DEF SplitInv, OpenLevels
  <2>2. Seated(sol, DL(sol'))
    BY <1>1, <1>5, <2>1 DEF Seated
  <2> QED
    BY <1>1, <1>4, <1>5, <2>2, LastsSeated
<1>9. Seated(sol, OpenLevels)' /\ Sourced(sol)'
  <2>1. OpenLevels' = DL(sol')
    BY DEF OpenLevels
  <2>2. Sourced(sol)' <=> Sourced(sol')
    BY DEF Sourced, Origin
  <2> QED
    BY <1>7, <1>8, <2>1, <2>2
<1>10. ListHolds'
  <2>1. AllListed(sol')
    BY <1>1, <1>2, <1>3, <1>5, UndoListed
  <2>2. FrontHeld(sol') \/ Over(sol')
    BY <1>1, UndoLists
  <2> QED
    BY <2>1, <2>2 DEF ListHolds
<1> QED
  BY <1>1, <1>4, <1>6, <1>7, <1>9, <1>10, CarriesSplit

LEMMA BacktrackSplit ==
  ASSUME TypeOK, LevelInv, Sound, SplitInv, BacktrackOnly
  PROVE  SplitInv'
<1>1. /\ ~Busy /\ ~Busy' /\ pc # "flip" /\ pc' # "flip" /\ formula' = formula /\ given' = given
      /\ excluded' = excluded /\ DL(sol) > sol.root /\ sol' = Backtrack(sol, DL(sol) - 1)
  BY DEF BacktrackOnly, Call, Busy
<1>2. ~Over(sol)
  <2>1. sol.root \in Nat /\ DL(sol) \in Nat
    BY Typed DEF TypeOK
  <2> QED
    BY <1>1, <2>1 DEF Over
<1>3. Good(sol) /\ TrailShape(sol) /\ sol.root \in Nat /\ DL(sol) \in Nat /\ sol.bt \in Nat
      /\ sol.bt <= DL(sol)
  BY <1>2, SplitFacts, Typed
<1> DEFINE level == MaxOf(DL(sol) - 1, sol.root)
           u == UndoUntil(sol, level)
<1>4. level \in Nat
  BY <1>1, <1>3 DEF MaxOf
<1> HIDE DEF level
<1>5. Undoes(sol, u) /\ DL(u) = MinOf(DL(sol), MaxOf(level, sol.bt))
  BY <1>3, <1>4, UndoUndoes
<1>6. sol' = [u EXCEPT !.bt = MinOf(u.bt, DL(u))]
  BY <1>1 DEF Backtrack, level
<1> HIDE DEF u
<1>7. u.bt = sol.bt /\ u \in State
  BY <1>5 DEF Undoes
<1>8. MinOf(u.bt, DL(u)) = u.bt
  BY <1>3, <1>4, <1>5, <1>7 DEF MinOf, MaxOf
<1>9. sol' = u
  BY <1>6, <1>7, <1>8 DEF State
<1> QED
  BY <1>1, <1>2, <1>4, <1>9, UndoSplit DEF u

LEMMA ChooseSplit ==
  ASSUME TypeOK, LevelInv, Sound, SplitInv, Decide \/ Choose \/ Restart
  PROVE  SplitInv'
<1>1. CASE Decide \/ Choose
  <2>1. /\ ~Busy /\ ~Busy' /\ pc # "flip" /\ pc' # "flip" /\ formula' = formula /\ given' = given
        /\ excluded' = excluded /\ NothingToLose
    BY <1>1 DEF Decide, Choose, Call, Begin, Idle, Busy, Sound, ControlInv
  <2>2. PICK l \in FreeLits(sol) : sol' = Assume(sol, l)
    BY <1>1 DEF Decide, Choose
  <2> QED
    BY <2>1, <2>2, AssumeSplit
<1>2. CASE Restart
  <2>1. /\ ~Busy /\ ~Busy' /\ pc # "flip" /\ pc' # "flip" /\ formula' = formula /\ given' = given
        /\ excluded' = excluded /\ ~Over(sol) /\ sol' = UndoUntil(sol, 0)
    BY <1>2 DEF Restart, Begin, Idle, Busy, NothingToLose, Over
  <2> QED
    BY <2>1, UndoSplit
<1> QED
  BY <1>1, <1>2

(***************************************************************************)
(* Conflict analysis and learning.                                         *)
(***************************************************************************)
LEMMA AnalysisCut ==
  ASSUME TypeOK, LevelInv, Sound, Analyze
  PROVE  /\ sol' \in State /\ Cut(sol, sol', DL(sol) - 1) /\ sol.bt < DL(sol)
         /\ sol'.conflict = sol.conflict /\ sol'.decisions = sol.decisions
         /\ sol'.implied = sol.implied /\ sol'.bt = sol.bt /\ sol'.root = sol.root
<1>1. pc = "analyze" /\ Busy /\ ~Panics /\ Resolving /\ SolverInv
  BY DEF Sound, AnalysisInv, Analyze, Busy
<1>2. Good(sol) /\ Core(sol, Sure) /\ sol.bt < DL(sol)
  BY <1>1, GoodSol DEF SolverInv
<1>3. /\ Pending(sol, Sure, NewLits, NewSeen)
      /\ NewOn = Cardinality(OpenOf(sol, NewSeen)) /\ NewOn > 0 /\ NewOn \in Nat
  BY <1>1, <1>2, Visiting DEF TypeOK
<1>4. PICK last \in DOMAIN sol.trail :
        /\ IsLastSeen(last, NewSeen)
        /\ sol' = [sol EXCEPT !.trail = SubSeq(@, 1, last)]
  BY DEF Analyze, NewSeen
<1> DEFINE p == sol.trail[last].lit
<1>5. OpenOf(sol, NewSeen) # {}
  BY <1>3, FS_EmptySet
<1>6. sol' \in State /\ p \in OpenOf(sol, NewSeen)
  <2>1. Var(p) \in NewSeen /\ \A j \in DOMAIN sol.trail : j > last => Var(sol.trail[j].lit) \notin NewSeen
    BY <1>4 DEF IsLastSeen
  <2> QED
    BY <1>2, <1>3, <1>4, <1>5, <2>1, TakingOff
<1>7. TrailShape(sol) /\ sol \in State
  BY <1>2 DEF Core, TrailOk, Good
<1>8. /\ sol.trail[last].level = DL(sol) /\ DL(sol) \in Nat
      /\ DOMAIN sol.trail = 1..Len(sol.trail) /\ Len(sol.trail) \in Nat
  <2>1. PICK j \in DOMAIN sol.trail : sol.trail[j].lit = p /\ sol.trail[j].level = DL(sol)
    BY <1>6 DEF OpenOf, AtLevel
  <2>2. j = last
    BY <1>7, <2>1 DEF TrailShape
  <2> QED
    BY <1>7, <2>1, <2>2, Typed
<1>9. /\ sol'.trail = SubSeq(sol.trail, 1, last)
      /\ sol'.conflict = sol.conflict /\ sol'.decisions = sol.decisions
      /\ sol'.implied = sol.implied /\ sol'.bt = sol.bt /\ sol'.root = sol.root
  BY <1>4, <1>7 DEF State
<1>10. Cut(sol, sol', DL(sol) - 1)
  <2>1. DOMAIN sol'.trail = 1..last /\ \A i \in 1..last : sol'.trail[i] = sol.trail[i]
    BY <1>7, <1>8, <1>9, SubSeqProperties DEF State
  <2>2. \A i \in DOMAIN sol.trail : sol.trail[i].level <= DL(sol) - 1 => i \in 1..last
    <3> SUFFICES ASSUME NEW i \in DOMAIN sol.trail, sol.trail[i].level <= DL(sol) - 1, ~(i <= last)
                 PROVE  FALSE
      BY <1>8
    <3>1. sol.trail[last].level <= sol.trail[i].level /\ sol.trail[i].level \in Nat
      BY <1>7, <1>8, Typed DEF TrailShape
    <3> QED
      BY <1>8, <3>1
  <2> QED
    BY <1>8, <2>1, <2>2 DEF Cut
<1> QED
  BY <1>2, <1>6, <1>9, <1>10

LEMMA AnalyzeSplit ==
  ASSUME TypeOK, LevelInv, Sound, SplitInv, Analyze
  PROVE  SplitInv'
<1>1. /\ pc # "flip" /\ pc' # "flip" /\ formula' = formula /\ given' = given /\ excluded' = excluded
      /\ Busy /\ Busy'
  BY DEF Analyze, Busy
<1>2. /\ sol' \in State /\ Cut(sol, sol', DL(sol) - 1) /\ sol.bt < DL(sol)
      /\ sol'.conflict = sol.conflict /\ sol'.decisions = sol.decisions
      /\ sol'.implied = sol.implied /\ sol'.bt = sol.bt /\ sol'.root = sol.root
  BY AnalysisCut
<1>3. /\ sol \in State /\ DL(sol) \in Nat /\ sol.bt \in Nat /\ sol.root \in Nat
      /\ sol.implied.level \in Nat /\ sol.root <= sol.bt
  BY Typed DEF TypeOK, LevelInv
<1>4. ~Over(sol)
  BY <1>2, <1>3 DEF Over
<1>5. FrontHeld(sol) /\ AllListed(sol)
  BY <1>1, <1>4, SplitFacts
<1>6. DL(sol) - 1 \in Nat /\ DL(sol') = DL(sol) /\ sol.bt <= DL(sol) - 1 /\ DL(sol) - 1 <= DL(sol)
  BY <1>2, <1>3 DEF DL
<1>7. Stays(sol, sol', DL(sol) - 1)
  BY <1>2 DEF Stays, Cut
<1>8. Lasts(sol, sol', DL(sol) - 1)
  BY <1>2, <1>6, <1>7 DEF Lasts
<1>9. Carries(sol, sol', DL(sol) - 1)
  <2>1. sol.bt <= sol'.bt
    BY <1>2, <1>3
  <2> QED
    BY <1>2, <1>6, <1>8, <2>1 DEF Carries
<1>10. \A l : \A k \in Nat : k <= DL(sol) - 1 /\ TrueBy(sol, l, k) => TrueBy(sol', l, k)
  BY <1>3, <1>6, <1>7, StaysTrue
<1>11. ListHolds'
  <2>1. ListedBy(sol') = ListedBy(sol) /\ ListedBy(sol) \in Nat /\ ListedBy(sol) <= DL(sol) - 1
    BY <1>2, <1>3, <1>6 DEF ListedBy, MinOf
  <2>2. AllListed(sol')
    BY <1>2, <1>5, <1>10, <2>1 DEF AllListed
  <2>3. FrontHeld(sol')
    BY <1>2, <1>3, <1>5, <1>6, <1>10 DEF FrontHeld
  <2> QED
    BY <2>2, <2>3 DEF ListHolds
<1>12. Seated(sol, OpenLevels)' /\ Sourced(sol)'
  <2>1. OpenLevels' = DL(sol) - 1 /\ OpenLevels = DL(sol) - 1
    BY <1>1, <1>6 DEF OpenLevels
  <2>2. Seated(sol', DL(sol) - 1)
    BY <1>3, <1>6, <1>8, <2>1, LastsSeated DEF SplitInv
  <2>3. Sourced(sol)'
    <3>1. \A e : Origin(sol, e) => Origin(sol, e)'
      BY <1>1, <1>2, <1>6 DEF Origin
    <3> QED
      BY <1>2, <3>1 DEF SplitInv, Sourced, Cut
  <2> QED
    BY <2>1, <2>2, <2>3
<1>13. \A m \in Models : Tracks(sol, m) => Tracks(sol', m)
  <2>1. \A l : \A n : Answered(sol', l, n) => Answered(sol, l, n)
    BY <1>2 DEF Answered, TrueBy, Remembered, Cut
  <2>2. \A k \in 1..DL(sol') : sol'.decisions[k] = sol.decisions[k]
    BY <1>2
  <2> QED
    BY <1>2, <1>3, <1>6, <2>1, <2>2, GainTracks
<1> QED
  BY <1>1, <1>2, <1>3, <1>4, <1>9, <1>11, <1>12, <1>13, CarriesSplit

LEMMA LearnSplit ==
  ASSUME TypeOK, LevelInv, LevelInv', Sound, SplitInv, Learn
  PROVE  SplitInv'
<1>1. /\ SolverInv /\ pc = "learn" /\ Busy /\ ~Busy' /\ Resolved /\ pc' # "flip"
      /\ formula' = formula /\ given' = given /\ excluded' = excluded
  BY DEF Sound, AnalysisInv, Learn, Busy, Call
<1>2. /\ Good(sol) /\ Core(sol, Sure) /\ sol.bt < DL(sol) /\ an.lits \in SUBSET Lit
      /\ sol \in State /\ TrailShape(sol) /\ Reasoned(sol, Sure) /\ an.uip \in Lit
  BY <1>1, GoodSol DEF SolverInv, Good, TypeOK, Analysis, Core, TrailOk
<1> DEFINE u == an.uip
           l0 == -u
<1>3. PICK removed \in {{}, Removable} : \E l1 \in Second(sol, an.lits \ removed) :
        sol' = Created(UndoUntil(sol, IF l1 = 0 THEN 0 ELSE LevelOf(sol, l1)),
                       {l0} \cup (an.lits \ removed), l0, l1)
  BY DEF Learn
<1> DEFINE tail == an.lits \ removed
           c == {l0} \cup tail
<1>4. PICK l1 \in Second(sol, tail) : sol' = Learnt(sol, u, tail, l1)
  BY <1>3 DEF Learnt, JumpedBack
<1>5. \A l \in removed : /\ l \in an.lits /\ AnteOf(sol, l) # NoAnte
                         /\ SeenVars(AnteOf(sol, l) \ {-l}) \subseteq SeenVars(an.lits)
  BY <1>1 DEF Removable, Resolved
<1>6. AllFalse(sol, an.lits) /\ {-u} \cup an.lits \in Sure /\ AtLevel(sol, u, DL(sol))
  BY <1>1 DEF Resolved
<1> HIDE DEF u
<1>7. u \in Lit
  BY <1>2 DEF u
<1>8. c \in Sure
  BY <1>2, <1>5, <1>6, <1>7, Minimised DEF Sure
<1>9. tail \in SUBSET Lit /\ AllFalse(sol, tail)
  BY <1>2, <1>6 DEF AllFalse
<1> HIDE DEF tail
<1>10. /\ sol.bt \in Nat /\ DL(sol) \in Nat /\ sol.root \in Nat /\ sol.root <= sol.bt
  BY <1>2, Typed DEF LevelInv
<1>11. FrontHeld(sol) /\ AllListed(sol) /\ ~Over(sol)
  <2>1. ~Over(sol)
    BY <1>2, <1>10 DEF Over
  <2> QED
    BY <1>1, <2>1, SplitFacts
<1>12. /\ \E level \in 0..DL(sol) :
            Tells(sol, sol', l0, level) /\ \A k \in tail : TrueBy(sol, -k, level)
       /\ FrontHeld(sol') /\ AllListed(sol') /\ DL(sol') < DL(sol)
  BY <1>2, <1>4, <1>6, <1>7, <1>9, <1>11, CreatedTells
<1>13. PICK level \in 0..DL(sol) :
         Tells(sol, sol', l0, level) /\ \A k \in tail : TrueBy(sol, -k, level)
  BY <1>12
<1>14. /\ sol' \in State /\ Lasts(sol, sol', DL(sol')) /\ sol'.bt = sol.bt /\ sol'.root = sol.root
       /\ Sourced(sol') /\ DL(sol') \in Nat /\ sol.bt <= DL(sol')
  <2>1. /\ sol' \in State /\ Lasts(sol, sol', DL(sol')) /\ sol'.bt = sol.bt /\ sol'.root = sol.root
        /\ Sourced(sol')
    BY <1>13 DEF Tells, SplitInv
  <2> QED
    BY <2>1, Typed DEF LevelInv, DL
<1>15. Carries(sol, sol', DL(sol'))
  BY <1>10, <1>14 DEF Carries
<1>16. \A m \in Models : Tracks(sol, m) => Tracks(sol', m)
  <2> SUFFICES ASSUME NEW m \in Models, Tracks(sol, m), Upto(sol, m, level) PROVE Holds(m, l0)
    BY <1>13 DEF Tells
  <2>1. l0 \in c /\ \A k \in c \ {l0} : TrueBy(sol, -k, level)
    BY <1>13
  <2> HIDE DEF c, l0
  <2> QED
    BY <1>2, <1>8, <2>1, UnitHolds
<1>17. Seated(sol, OpenLevels)' /\ Sourced(sol)' /\ ListHolds'
  <2>1. OpenLevels' = DL(sol') /\ OpenLevels = DL(sol) - 1
    BY <1>1 DEF OpenLevels
  <2>2. Seated(sol, DL(sol) - 1)
    BY <2>1 DEF SplitInv
  <2>3. Seated(sol, DL(sol'))
    BY <1>10, <1>12, <1>14, <2>2 DEF Seated
  <2>4. Seated(sol', DL(sol'))
    BY <1>2, <1>14, <2>3, LastsSeated
  <2>5. Sourced(sol)' <=> Sourced(sol')
    BY <1>1 DEF Sourced, Origin
  <2> QED
    BY <1>12, <1>14, <2>1, <2>4, <2>5 DEF ListHolds
<1> QED
  BY <1>1, <1>2, <1>10, <1>11, <1>14, <1>15, <1>16, <1>17, CarriesSplit

(***************************************************************************)
(* Splitting.                                                              *)
(***************************************************************************)
LEMMA TrueLater ==
  ASSUME NEW s \in State, NEW l, NEW k \in Nat, NEW n \in Nat, TrueBy(s, l, k), k <= n
  PROVE  TrueBy(s, l, n)
<1>1. PICK j \in DOMAIN s.trail : s.trail[j].lit = l /\ s.trail[j].level <= k
  BY DEF TrueBy
<1>2. s.trail[j].level \in Nat
  BY Typed
<1> QED
  BY <1>1, <1>2 DEF TrueBy

(* A model of the guiding path has what is assigned up to the root level.  *)
LEMMA PathHolds ==
  ASSUME sol \in State, TrailShape(sol), Reasoned(sol, Sure), Sourced(sol), NEW m \in Models,
         NEW k \in 0..sol.root, Upto(sol, m, k), AllHold(m, GuidingPath(sol)),
         NEW l, TrueBy(sol, l, k)
  PROVE  Holds(m, l)
<1>1. m \in Assignments /\ \A x : {x} \in formula => Holds(m, x)
  BY DEF Models, Fulfils
<1>2. sol.root \in Nat /\ \A i \in DOMAIN sol.implied.lits : sol.implied.lits[i].level \in Nat
  BY Typed
<1>3. \A i \in DOMAIN sol.implied.lits :
        sol.implied.lits[i].level <= sol.root => Holds(m, sol.implied.lits[i].lit)
  BY DEF GuidingPath, AllHold
<1>4. ASSUME NEW j \in DOMAIN sol.trail, sol.trail[j].ante = NoAnte, sol.trail[j].level <= k
      PROVE  Holds(m, sol.trail[j].lit)
  <2>1. sol.trail[j].level \in Nat /\ Origin(sol, sol.trail[j])
    BY Typed DEF Sourced
  <2>2. CASE {sol.trail[j].lit} \in formula
    BY <1>1, <2>2
  <2>3. CASE \E n \in 1..DL(sol) : n <= sol.trail[j].level /\ sol.trail[j].lit = sol.decisions[n]
    <3>1. PICK n \in 1..DL(sol) : n <= sol.trail[j].level /\ sol.trail[j].lit = sol.decisions[n]
      BY <2>3
    <3>2. n \in 1..k
      BY <1>2, <1>4, <2>1, <3>1
    <3> QED
      BY <3>1, <3>2 DEF Upto
  <2>4. CASE \E i \in DOMAIN sol.implied.lits : /\ sol.implied.lits[i].lit = sol.trail[j].lit
                                                /\ sol.implied.lits[i].level <= sol.trail[j].level
    <3>1. PICK i \in DOMAIN sol.implied.lits : /\ sol.implied.lits[i].lit = sol.trail[j].lit
                                               /\ sol.implied.lits[i].level <= sol.trail[j].level
      BY <2>4
    <3>2. sol.implied.lits[i].level <= sol.root
      BY <1>2, <1>4, <2>1, <3>1
    <3> QED
      BY <1>3, <3>1, <3>2
  <2> QED
    BY <1>4, <2>1, <2>2, <2>3, <2>4 DEF Origin
<1>5. AllHold(m, Facts(sol))
  <2> SUFFICES ASSUME NEW j \in DOMAIN sol.trail, sol.trail[j].ante = NoAnte, sol.trail[j].level = 0
               PROVE  Holds(m, sol.trail[j].lit)
    BY DEF Facts, AllHold
  <2>1. sol.trail[j].level <= k
    BY <1>2
  <2> QED
    BY <1>4, <2>1
<1>6. \A c \in Sure : \E x \in c : Holds(m, x)
  BY <1>1, <1>5 DEF Sure, SureOf, Models
<1>7. \A j \in DOMAIN sol.trail : sol.trail[j].level <= k => Holds(m, sol.trail[j].lit)
  BY <1>1, <1>2, <1>4, <1>6, Entailed
<1> QED
  BY <1>7 DEF TrueBy

LEMMA SplitSplit ==
  ASSUME TypeOK, LevelInv, Sound, SplitInv, Split
  PROVE  SplitInv'
<1>1. /\ ~Busy /\ ~Busy' /\ pc # "flip" /\ pc' # "flip" /\ DL(sol) > sol.root
      /\ formula' = formula /\ excluded' = excluded /\ sol' = PushRootLevel(sol, 1)
      /\ given' = Append(given, GuidingPath(sol) \cup {-(sol.decisions[sol.root + 1])})
  BY DEF Split, Begin, Idle, Busy, Decision
<1>2. /\ sol \in State /\ DL(sol) \in Nat /\ sol.bt \in Nat /\ sol.root \in Nat
      /\ sol.implied.level \in Nat
  BY Typed DEF TypeOK
<1>3. ~Over(sol)
  BY <1>1, <1>2 DEF Over
<1>4. /\ Good(sol) /\ Core(sol, Sure) /\ TrailShape(sol) /\ Reasoned(sol, Sure)
      /\ sol.root <= sol.bt /\ sol.bt <= DL(sol) /\ FrontHeld(sol) /\ AllListed(sol)
  BY <1>1, <1>3, SplitFacts
<1>5. sol' = [sol EXCEPT !.root = sol.root + 1, !.bt = MaxOf(sol.bt, sol.root + 1)]
  <2>1. MinOf(DL(sol), sol.root + 1) = sol.root + 1
    BY <1>1, <1>2 DEF MinOf
  <2> QED
    BY <1>1, <2>1 DEF PushRootLevel
<1>6. /\ sol'.trail = sol.trail /\ sol'.decisions = sol.decisions /\ sol'.implied = sol.implied
      /\ sol'.conflict = sol.conflict /\ sol'.root = sol.root + 1 /\ sol'.bt = MaxOf(sol.bt, sol.root + 1)
      /\ DL(sol') = DL(sol) /\ sol' \in State
  <2>1. MaxOf(sol.bt, sol.root + 1) \in Nat /\ sol.root + 1 \in Nat
    BY <1>2 DEF MaxOf
  <2> QED
    BY <1>2, <1>5, <2>1 DEF State, DL
<1>7. sol.bt <= sol'.bt /\ sol'.bt \in Nat
  BY <1>2, <1>6 DEF MaxOf
<1>8. Models' = Models /\ \A m : Excluded(m)' = Excluded(m)
  BY <1>1 DEF Models, Excluded
<1>9. Sourced(sol)' /\ Seated(sol, OpenLevels)'
  <2>1. \A e : Origin(sol, e) => Origin(sol, e)'
    BY <1>1, <1>6 DEF Origin
  <2>2. OpenLevels' = DL(sol) /\ OpenLevels = DL(sol)
    BY <1>1, <1>6 DEF OpenLevels
  <2> QED
    BY <1>6, <2>1, <2>2 DEF SplitInv, Sourced, Seated, TrueBy
<1>10. TracksLeft' /\ FlipsPast'
  <2>1. \A m : Tracks(sol, m) => Tracks(sol', m)
    BY <1>6 DEF Tracks, Upto, Answered, TrueBy, Remembered
  <2> QED
    BY <1>1, <1>8, <2>1 DEF SplitInv, TracksLeft, FlipsPast, Tracks
<1>11. \A m \in Models : Excluded(m) => Leaves(sol, m)
  BY <1>1, <1>3 DEF SplitInv, LeavesPast
<1>12. LeavesPast'
  <2>1. Lasts(sol, sol', DL(sol))
    BY <1>2, <1>6 DEF Lasts, Stays
  <2>2. \A m : Leaves(sol, m) => Leaves(sol', m)
    BY <1>2, <1>4, <1>6, <1>7, <2>1, LastsLeaves
  <2> QED
    BY <1>8, <1>11, <2>2 DEF LeavesPast, Leaves
<1>13. ListHolds'
  <2>1. ListedBy(sol) \in Nat /\ ListedBy(sol') \in Nat /\ ListedBy(sol) <= ListedBy(sol')
    BY <1>2, <1>6 DEF ListedBy, MinOf, MaxOf
  <2>2. AllListed(sol')
    <3> SUFFICES ASSUME NEW i \in DOMAIN sol.implied.lits
                 PROVE  TrueBy(sol, sol.implied.lits[i].lit, ListedBy(sol'))
      BY <1>6 DEF AllListed, TrueBy
    <3>1. TrueBy(sol, sol.implied.lits[i].lit, ListedBy(sol))
      BY <1>4 DEF AllListed
    <3> QED
      BY <1>2, <2>1, <3>1, TrueLater
  <2>3. FrontHeld(sol')
    <3> SUFFICES ASSUME NEW i \in 1..sol.implied.front
                 PROVE  /\ i \in DOMAIN sol.implied.lits
                        /\ TrueBy(sol, sol.implied.lits[i].lit, sol.root + 1)
      BY <1>6 DEF FrontHeld, TrueBy
    <3>1. i \in DOMAIN sol.implied.lits /\ TrueBy(sol, sol.implied.lits[i].lit, sol.root)
      BY <1>4 DEF FrontHeld
    <3>2. sol.root <= sol.root + 1 /\ sol.root + 1 \in Nat
      BY <1>2
    <3> QED
      BY <1>2, <3>1, <3>2, TrueLater
  <2> QED
    BY <2>2, <2>3 DEF ListHolds
<1> DEFINE path == GuidingPath(sol) \cup {-(sol.decisions[sol.root + 1])}
<1>14. sol.decisions \in [1..DL(sol) -> Lit] /\ sol.root + 1 \in 1..DL(sol)
  BY <1>1, <1>2 DEF State, DL
<1>15. path \in SUBSET Lit
  <2>1. \A k \in 1..sol.root : sol.decisions[k] \in Lit
    BY <1>2, <1>14
  <2>2. \A i \in DOMAIN sol.implied.lits : sol.implied.lits[i].lit \in Lit
    BY <1>2, Typed
  <2>3. -(sol.decisions[sol.root + 1]) \in Lit
    BY <1>14, LitFacts
  <2> QED
    BY <2>1, <2>2, <2>3 DEF GuidingPath, Decision
<1>16. /\ given' \in Seq(SUBSET Lit) /\ Len(given') = sol.root + 1 /\ given'[sol.root + 1] = path
       /\ \A i \in 1..sol.root : given'[i] = given[i] /\ Guides(i)
  <2>1. given \in Seq(SUBSET Lit) /\ Len(given) = sol.root /\ \A i \in 1..sol.root : Guides(i)
    BY DEF SplitInv, Guided
  <2>2. given' = Append(given, path)
    BY <1>1
  <2> HIDE DEF path
  <2> QED
    BY <1>2, <1>15, <2>1, <2>2, AppendProperties
<1>17. \A i \in 1..sol.root : Guides(i)'
  <2> SUFFICES ASSUME NEW i \in 1..sol.root PROVE Guides(i)'
    OBVIOUS
  <2>1. Guides(i) /\ given'[i] = given[i]
    BY <1>16
  <2> QED
    BY <1>6, <1>8, <2>1 DEF Guides, Upto
<1>18. ASSUME NEW m \in Models, Upto(sol, m, sol.root), ~Holds(m, sol.decisions[sol.root + 1]),
              ~Excluded(m)
       PROVE  AllHold(m, path)
  <2>1. Tracks(sol, m) /\ m \in Assignments /\ sol.root \in 0..DL(sol)
    BY <1>1, <1>2, <1>18 DEF SplitInv, TracksLeft, Models
  <2>2. Holds(m, -(sol.decisions[sol.root + 1]))
    BY <1>14, <1>18, <2>1, HoldsOne
  <2>3. ASSUME NEW i \in DOMAIN sol.implied.lits, sol.implied.lits[i].level <= sol.root
        PROVE  Holds(m, sol.implied.lits[i].lit)
    <3>1. Answered(sol, sol.implied.lits[i].lit, sol.root)
      BY <2>3 DEF Answered, Remembered
    <3> QED
      BY <1>18, <2>1, <3>1 DEF Tracks
  <2> QED
    BY <1>18, <2>2, <2>3 DEF AllHold, GuidingPath, Upto, Decision
<1>19. ASSUME NEW m \in Models, AllHold(m, path), Excluded(m) PROVE FALSE
  <2>1. AllHold(m, GuidingPath(sol)) /\ Holds(m, -(sol.decisions[sol.root + 1])) /\ m \in Assignments
    BY <1>19 DEF AllHold, Models
  <2>2. PICK k \in 0..sol.bt : Upto(sol, m, k) /\ \E l \in Lit : TrueBy(sol, l, k) /\ ~Holds(m, l)
    BY <1>11, <1>19 DEF Leaves
  <2>3. k \in 0..sol.root
    <3>1. ASSUME sol.root + 1 <= k PROVE FALSE
      <4>1. Holds(m, sol.decisions[sol.root + 1])
        BY <1>2, <2>2, <3>1 DEF Upto
      <4> QED
        BY <1>14, <2>1, <4>1, HoldsOne
    <3> QED
      BY <1>2, <3>1
  <2> QED
    BY <1>2, <1>4, <1>19, <2>1, <2>2, <2>3, PathHolds DEF SplitInv
<1>20. PICK n \in Nat : n = sol.root + 1
  BY <1>2
<1>21. Guides(n)'
  <2>1. -(sol'.decisions[n]) \in given'[n]
    BY <1>6, <1>16, <1>20
  <2>2. \A k \in 1..(n - 1) : sol'.decisions[k] \in given'[n]
    BY <1>2, <1>6, <1>16, <1>20 DEF GuidingPath, Decision
  <2>3. \A m : Upto(sol', m, n - 1) <=> Upto(sol, m, sol.root)
    BY <1>2, <1>6, <1>20 DEF Upto
  <2>4. given'[n] = path
    BY <1>16, <1>20
  <2> HIDE DEF path
  <2>5. \A m \in Models' : Upto(sol', m, n - 1) /\ ~Holds(m, sol'.decisions[n]) /\ ~Excluded(m)'
                             => AllHold(m, given'[n])
    BY <1>6, <1>8, <1>18, <1>20, <2>3, <2>4
  <2>6. \A m \in Models' : AllHold(m, given'[n]) => ~Excluded(m)'
    BY <1>8, <1>19, <2>4
  <2> QED
    BY <2>1, <2>2, <2>5, <2>6 DEF Guides
<1>22. Guided'
  <2>1. \A i \in 1..sol'.root : i \in 1..sol.root \/ i = n
    BY <1>2, <1>6, <1>20
  <2>2. Len(given') = sol'.root
    BY <1>6, <1>16
  <2> QED
    BY <1>16, <1>17, <1>21, <2>1, <2>2 DEF Guided
<1> QED
  BY <1>9, <1>10, <1>12, <1>13, <1>22 DEF SplitInv

(***************************************************************************)
(* backtrack_step: a model is left behind.                                 *)
(***************************************************************************)
LEMMA BacktrackStepSplit ==
  ASSUME TypeOK, LevelInv, Sound, SplitInv, BacktrackStep
  PROVE  SplitInv'
<1>1. /\ pc = "idle" /\ ~Busy /\ ~Busy' /\ pc # "flip" /\ pc' = "flip" /\ formula' = formula
      /\ sol' = sol /\ given' = given /\ excluded' = excluded \cup {TrueLits(sol)}
  BY DEF BacktrackStep, Begin, Idle, Busy
<1>2. sol \in State /\ DL(sol) \in Nat /\ sol.root \in Nat /\ sol.root <= DL(sol) /\ TrailShape(sol)
  BY Typed, SolReasoned DEF TypeOK, LevelInv
<1>3. /\ Models' = Models
      /\ \A m : Excluded(m)' <=> Excluded(m) \/ AllHold(m, TrueLits(sol))
  BY <1>1 DEF Models, Excluded
<1>4. \A k \in 1..DL(sol) : sol.decisions[k] \in TrueLits(sol)
  <2>1. Seated(sol, DL(sol))
    BY <1>1 DEF SplitInv, OpenLevels
  <2> QED
    BY <2>1 DEF Seated, TrueBy, TrueLits
<1>5. TracksLeft'
  BY <1>1, <1>3 DEF SplitInv, TracksLeft, Tracks, Upto, Answered, TrueBy, Remembered
<1>6. LeavesPast'
  <2>1. \A m : AllHold(m, TrueLits(sol)) => Upto(sol, m, DL(sol))
    BY <1>4 DEF AllHold, Upto
  <2> QED
    BY <1>1, <1>3, <2>1 DEF SplitInv, LeavesPast, Leaves, Over, TrueBy, Upto
<1>7. FlipsPast'
  <2> SUFFICES ASSUME NEW m \in Models, Upto(sol, m, DL(sol)), ~Excluded(m)
               PROVE  AllHold(m, TrueLits(sol))
    BY <1>1, <1>3 DEF FlipsPast, Upto
  <2>1. Tracks(sol, m)
    BY DEF SplitInv, TracksLeft
  <2> QED
    BY <1>2, <2>1, SureHolds DEF AllHold, IsTrue
<1>8. Guided'
  <2>1. \A i \in 1..sol.root : Guides(i)
    BY DEF SplitInv, Guided
  <2> SUFFICES ASSUME NEW i \in 1..sol.root PROVE Guides(i)'
    BY <1>1 DEF SplitInv, Guided
  <2>2. ASSUME NEW m \in Models, AllHold(m, given[i]), AllHold(m, TrueLits(sol)) PROVE FALSE
    <3>1. i \in 1..DL(sol) /\ sol.decisions[i] \in TrueLits(sol) /\ -(sol.decisions[i]) \in given[i]
      BY <1>2, <1>4, <2>1 DEF Guides
    <3>2. Holds(m, sol.decisions[i]) /\ Holds(m, -(sol.decisions[i])) /\ m \in Assignments
      BY <2>2, <3>1 DEF AllHold, Models
    <3>3. sol.decisions[i] \in Lit
      BY <1>2, <3>1 DEF State, DL
    <3> QED
      BY <3>2, <3>3, HoldsOne
  <2> QED
    BY <1>1, <1>3, <2>1, <2>2 DEF Guides, Upto
<1>9. Sourced(sol)' /\ Seated(sol, OpenLevels)' /\ ListHolds'
  BY <1>1 DEF SplitInv, Sourced, Origin, Seated, OpenLevels, ListHolds, FrontHeld, AllListed, ListedBy,
              TrueBy, Over
<1> QED
  BY <1>5, <1>6, <1>7, <1>8, <1>9 DEF SplitInv

(* Taking the last decision back: one level is undone, the backtrack level *)
(* is lowered to it, and what is left of the list is assigned again.       *)
LEMMA LastUndone ==
  ASSUME NEW s, Good(s), TrailShape(s), DL(s) # s.root, FrontHeld(s),
         AllListed(s) \/ s.implied.level = DL(s)
  PROVE  LET n == DL(s) - 1
             b == UndoUntil([s EXCEPT !.bt = n], n)
         IN /\ b \in State /\ DL(b) = n /\ b.bt = n /\ b.root = s.root /\ Lasts(s, b, n)
            /\ \A j \in DOMAIN b.trail : b.trail[j].level <= n
            /\ Sourced(s) => Sourced(b)
            /\ \A m : Tracks(s, m) => Tracks(b, m)
            /\ \A m \in Assignments : Tracks(s, m) /\ Upto(b, m, n) => ~b.conflict.has
            /\ FrontHeld(b) \/ Over(b)
            /\ b.conflict.has => DOMAIN b.implied.lits = {} \/ b.implied.level = n
            /\ ~b.conflict.has => AllListed(b)
<1>0. /\ s \in State /\ s.root \in Nat /\ s.bt \in Nat /\ DL(s) \in Nat /\ s.root <= s.bt /\ s.bt <= DL(s)
      /\ s.implied.level \in Nat
  BY Typed DEF Good, Levels
<1> DEFINE n == DL(s) - 1
           x == [s EXCEPT !.bt = n]
           b == UndoUntil(x, n)
<1>1. n \in Nat /\ s.root <= n /\ n < DL(s)
  BY <1>0
<1>2. /\ x \in State /\ x.trail = s.trail /\ x.decisions = s.decisions /\ x.root = s.root
      /\ x.bt = n /\ x.implied = s.implied /\ x.conflict = s.conflict /\ x.stop = s.stop
  BY <1>0, <1>1 DEF State
<1> SUFFICES /\ b \in State /\ DL(b) = n /\ b.bt = n /\ b.root = s.root /\ Lasts(s, b, n)
             /\ \A j \in DOMAIN b.trail : b.trail[j].level <= n
             /\ Sourced(s) => Sourced(b)
             /\ \A m : Tracks(s, m) => Tracks(b, m)
             /\ \A m \in Assignments : Tracks(s, m) /\ Upto(b, m, n) => ~b.conflict.has
             /\ FrontHeld(b) \/ Over(b)
             /\ b.conflict.has => DOMAIN b.implied.lits = {} \/ b.implied.level = n
             /\ ~b.conflict.has => AllListed(b)
  OBVIOUS
<1> HIDE DEF n, x
<1>3. Good(x) /\ DL(x) = DL(s) /\ TrailShape(x) /\ FrontHeld(x)
  <2>1. DL(x) = DL(s)
    BY <1>2 DEF DL
  <2>2. Good(x)
    BY <1>0, <1>1, <1>2, <2>1 DEF Good, Levels
  <2>3. TrailShape(x)
    BY <1>2, <2>1 DEF TrailShape
  <2>4. FrontHeld(x)
    BY <1>2 DEF FrontHeld, TrueBy
  <2> QED
    BY <2>1, <2>2, <2>3, <2>4
<1>4. MinOf(DL(x), MaxOf(n, x.bt)) = n
  BY <1>0, <1>1, <1>2, <1>3 DEF MinOf, MaxOf
<1>5. Undoes(x, b) /\ DL(b) = n
  BY <1>1, <1>3, <1>4, UndoUndoes
<1>6. Settles(x) \/ x.implied.level > x.bt
  <2>1. CASE AllListed(s)
    <3> SUFFICES ASSUME NEW i \in DOMAIN s.implied.lits
                 PROVE  TrueBy(s, s.implied.lits[i].lit, s.implied.level)
      BY <1>2 DEF Settles, TrueBy
    <3>1. TrueBy(s, s.implied.lits[i].lit, ListedBy(s))
      BY <2>1 DEF AllListed
    <3>2. ListedBy(s) \in Nat /\ ListedBy(s) <= s.implied.level
      BY <1>0 DEF ListedBy, MinOf
    <3> QED
      BY <1>0, <3>1, <3>2, TrueLater
  <2>2. CASE s.implied.level = DL(s)
    BY <1>1, <1>2, <2>2
  <2> QED
    BY <2>1, <2>2
<1>7. /\ FrontHeld(b) \/ Over(b)
      /\ b.conflict.has => DOMAIN b.implied.lits = {} \/ b.implied.level = DL(b)
      /\ DL(b) = x.bt /\ ~b.conflict.has /\ (Settles(x) \/ x.implied.level > x.bt) => AllListed(b)
  BY <1>1, <1>3, UndoLists
<1> HIDE DEF b
<1>8. /\ Sourced(x) => Sourced(b)
      /\ \A m : Tracks(x, m) => Tracks(b, m)
      /\ \A m \in Assignments : Tracks(x, m) /\ Upto(x, m, DL(b)) => ~b.conflict.has
  BY <1>2, <1>5, UndoTracks
<1>9. Sourced(s) => Sourced(x)
  BY <1>2, <1>3 DEF Sourced, Origin
<1>10. \A m : Tracks(s, m) => Tracks(x, m)
  BY <1>2, <1>3 DEF Tracks, Upto, Answered, TrueBy, Remembered
<1>11. Lasts(x, b, n)
  BY <1>5 DEF Undoes
<1>12. Lasts(s, b, n)
  BY <1>2, <1>3, <1>11 DEF Lasts, Stays
<1>13. \A m : Upto(b, m, n) => Upto(x, m, n)
  BY <1>11 DEF Lasts, Upto
<1>14. /\ b \in State /\ b.bt = n /\ b.root = s.root
       /\ \A j \in DOMAIN b.trail : b.trail[j].level <= n
  BY <1>2, <1>5 DEF Undoes
<1> QED
  BY <1>2, <1>5, <1>6, <1>7, <1>8, <1>9, <1>10, <1>12, <1>13, <1>14

LEMMA FlipSplit ==
  ASSUME TypeOK, LevelInv, Sound, SplitInv, Flip
  PROVE  SplitInv'
<1>1. /\ ~Busy /\ ~Busy' /\ pc = "flip" /\ formula' = formula /\ given' = given /\ excluded' = excluded
  BY DEF Flip, Busy
<1>2. /\ sol \in State /\ DL(sol) \in Nat /\ sol.root \in Nat /\ sol.bt \in Nat
      /\ sol.root <= sol.bt /\ sol.bt <= DL(sol) /\ TrailShape(sol) /\ OpenLevels = DL(sol)
  BY <1>1, Typed, SolReasoned DEF TypeOK, LevelInv, OpenLevels
<1>3. Models' = Models /\ \A m : Excluded(m)' = Excluded(m)
  BY <1>1 DEF Models, Excluded
<1>4. CASE DL(sol) = sol.root
  <2>1. sol' = SetStopConflict(sol) /\ pc' = "idle"
    BY <1>4 DEF Flip
  <2>2. MinOf(DL(sol), sol.root + DL(sol)) = sol.root
    BY <1>2, <1>4 DEF MinOf
  <2> DEFINE y == IF sol.conflict.has THEN sol
                  ELSE [sol EXCEPT !.stop = [set |-> TRUE, root |-> sol.root, bt |-> sol.bt, front |-> sol.front],
                                   !.conflict = [has |-> TRUE, lits |-> {}]]
  <2>3. sol' = PushRootLevel(y, DL(sol))
    BY <2>1 DEF SetStopConflict
  <2>4. /\ y.trail = sol.trail /\ y.decisions = sol.decisions /\ y.implied = sol.implied
        /\ y.conflict.has /\ y.root = sol.root /\ DL(y) = DL(sol) /\ y \in State
    <3>1. sol.root \in Nat /\ sol.bt \in Nat /\ sol.front \in Nat
      BY <1>2 DEF State
    <3> QED
      BY <1>2, <3>1 DEF State, DL
  <2> HIDE DEF y
  <2>5. /\ sol'.trail = sol.trail /\ sol'.decisions = sol.decisions /\ sol'.implied = sol.implied
        /\ sol'.conflict.has /\ sol'.root = sol.root /\ DL(sol') = sol.root
    BY <1>4, <2>2, <2>3, <2>4 DEF PushRootLevel, State, DL
  <2>6. Over(sol)' /\ OpenLevels' = DL(sol)
    BY <1>1, <1>4, <2>5 DEF Over, OpenLevels
  <2>7. Guided'
    BY <1>1, <1>2, <2>5, GuidedStays DEF SplitInv
  <2>8. Sourced(sol)' /\ Seated(sol, OpenLevels)'
    <3>1. \A e : Origin(sol, e) => Origin(sol, e)'
      BY <1>1, <1>4, <2>5 DEF Origin
    <3> QED
      BY <1>2, <2>5, <2>6, <3>1 DEF SplitInv, Sourced, Seated, TrueBy
  <2>9. TracksLeft'
    <3>1. \A m : Tracks(sol, m) => Tracks(sol', m)
      BY <1>4, <2>5 DEF Tracks, Upto, Answered, TrueBy, Remembered
    <3> QED
      BY <1>3, <3>1 DEF SplitInv, TracksLeft, Tracks
  <2> QED
    BY <2>1, <2>6, <2>7, <2>8, <2>9 DEF SplitInv, LeavesPast, FlipsPast, ListHolds
<1>5. CASE DL(sol) # sol.root
  <2> DEFINE b    == UndoUntil([sol EXCEPT !.bt = DL(sol) - 1], DL(sol) - 1)
             d    == sol.decisions[DL(sol)]
             t    == Flipped(sol)
             e    == [lit |-> -d, level |-> DL(t), ante |-> NoAnte]
             u    == AddImplied(t, e)
  <2>1. PICK n \in Nat : n = DL(sol) - 1
    BY <1>2, <1>5
  <2>2. ~Over(sol) /\ n \in 0..DL(sol) /\ sol.root <= n /\ n < DL(sol) /\ MaxOf(n, sol.root) = n
    BY <1>2, <1>5, <2>1 DEF Over, MaxOf
  <2>3. Good(sol) /\ Core(sol, Sure) /\ FrontHeld(sol)
    BY <2>2, SplitFacts
  <2>4. /\ b \in State /\ DL(b) = n /\ b.bt = n /\ b.root = sol.root /\ Lasts(sol, b, n)
        /\ \A j \in DOMAIN b.trail : b.trail[j].level <= n
        /\ Sourced(sol) => Sourced(b)
        /\ \A m : Tracks(sol, m) => Tracks(b, m)
        /\ \A m \in Assignments : Tracks(sol, m) /\ Upto(b, m, n) => ~b.conflict.has
        /\ FrontHeld(b) \/ Over(b)
        /\ b.conflict.has => DOMAIN b.implied.lits = {} \/ b.implied.level = n
        /\ ~b.conflict.has => AllListed(b)
    <3>1. AllListed(sol) \/ sol.implied.level = DL(sol)
      BY <2>2 DEF SplitInv, ListHolds
    <3> QED
      BY <1>2, <1>5, <2>1, <2>3, <3>1, LastUndone
  <2>5. SetBacktrackLevel(b, DL(b)) = b
    <3> HIDE DEF b
    <3>1. MaxOf(MinOf(DL(b), DL(b)), b.root) = b.bt
      BY <1>2, <2>2, <2>4 DEF MinOf, MaxOf
    <3>2. [b EXCEPT !.bt = b.bt] = b
      BY <2>4 DEF State
    <3> QED
      BY <3>1, <3>2 DEF SetBacktrackLevel
  <2>6. t = IF b.conflict.has THEN b ELSE ForceLit(b, -d, NoAnte)
    BY <2>1, <2>2, <2>5 DEF Flipped, Decision
  <2>7. IF t.conflict.has THEN sol' = t /\ pc' = "flip" ELSE sol' = u /\ pc' = "idle"
    BY <1>1, <1>5 DEF Flip, Decision
  <2>8. d \in Lit /\ -d \in Lit /\ -(-d) = d /\ NoAnte \in SUBSET Lit
    <3>1. DL(sol) \in 1..DL(sol) /\ sol.decisions \in [1..DL(sol) -> Lit]
      BY <1>2, <1>5 DEF State, DL
    <3>2. d \in Lit
      BY <3>1
    <3> HIDE DEF d
    <3> QED
      BY <3>2, Complements DEF NoAnte
  <2>9. e \in Entry /\ e.lit = -d /\ e.ante = NoAnte /\ (DL(t) = n => e.level = n)
    <3>1. t \in State
      BY <1>5, <2>3, FlippedGood DEF Good
    <3>2. DL(t) \in Nat
      BY <3>1, Typed
    <3> HIDE DEF d, t
    <3> QED
      BY <2>8, <3>2 DEF Entry
  <2>10. \A m : Upto(sol, m, n) /\ Holds(m, d) => Upto(sol, m, DL(sol))
    <3>1. \A k \in 1..DL(sol) : k \in 1..n \/ k = DL(sol)
      BY <1>2, <2>1
    <3> QED
      BY <3>1 DEF Upto
  <2>11. \A m : Upto(sol, m, DL(sol)) => Upto(sol, m, n) /\ Holds(m, d)
    <3>1. DL(sol) \in 1..DL(sol) /\ \A k \in 1..n : k \in 1..DL(sol)
      BY <1>2, <2>1
    <3> QED
      BY <3>1 DEF Upto
  <2> HIDE DEF b, d, t, u, e
  <2>12. \A m : Upto(b, m, n) <=> Upto(sol, m, n)
    BY <2>4 DEF Lasts, Upto
  <2>13. \A m \in Models : ~Excluded(m) => Tracks(b, m) /\ m \in Assignments
    BY <2>4 DEF SplitInv, TracksLeft, Models
  <2>14. \A m \in Models : ~Excluded(m) /\ Upto(b, m, n) => Holds(m, -d) /\ ~Holds(m, d) /\ ~b.conflict.has
    <3>1. \A m \in Models : Upto(sol, m, DL(sol)) => Excluded(m)
      BY <1>1 DEF SplitInv, FlipsPast
    <3>2. \A m \in Models : ~Excluded(m) => Tracks(sol, m) /\ m \in Assignments
      BY DEF SplitInv, TracksLeft, Models
    <3>3. \A m \in Models : m \in Assignments
      BY DEF Models
    <3> QED
      BY <2>4, <2>8, <2>10, <2>12, <3>1, <3>2, <3>3, HoldsOne
  <2>15. /\ t \in State /\ DL(t) = n /\ t.bt = n /\ t.root = sol.root /\ t.implied = b.implied
         /\ Lasts(sol, t, n) /\ \A j \in DOMAIN t.trail : t.trail[j].level <= n
         /\ \A m \in Models : ~Excluded(m) => Tracks(t, m)
         /\ FrontHeld(t) \/ Over(t)
         /\ IF t.conflict.has
            THEN /\ AllListed(t) \/ t.implied.level = n
                 /\ \A m \in Models : Upto(b, m, n) => Excluded(m)
                 /\ Sourced(t)
            ELSE /\ AllListed(t) /\ FrontHeld(t) /\ TrueBy(t, -d, n)
                 /\ \A j \in DOMAIN t.trail :
                      \/ Origin(b, t.trail[j])
                      \/ t.trail[j].lit = -d /\ t.trail[j].level = n
    <3>1. CASE b.conflict.has
      <4>1. DOMAIN b.implied.lits = {} => AllListed(b)
        BY DEF AllListed
      <4> QED
        BY <2>4, <2>6, <2>13, <2>14, <3>1, <4>1 DEF SplitInv
    <3>2. CASE ~b.conflict.has
      <4>1. Forces(b, t, -d, NoAnte)
        BY <2>4, <2>6, <2>8, <3>2, ForceForces
      <4>2. /\ DL(t) = DL(b) /\ Lasts(b, t, DL(b))
            /\ \A m : Tracks(b, m) /\ (Upto(b, m, DL(b)) => Holds(m, -d)) => Tracks(t, m)
        BY <2>4, <2>8, <4>1, ForceTracks
      <4>3. /\ FrontHeld(b) => FrontHeld(t)
            /\ AllListed(b) => AllListed(t)
        BY <2>4, <2>8, <4>1, ForceLists
      <4>4. /\ t \in State /\ t.bt = n /\ t.root = sol.root /\ t.implied = b.implied
        BY <2>4, <4>1 DEF Forces, LevelsSame
      <4>5. Lasts(sol, t, n)
        <5>1. Lasts(sol, b, n) /\ Lasts(b, t, n) /\ n <= DL(t)
          BY <2>4, <4>2
        <5> QED
          BY <5>1 DEF Lasts, Stays
      <4>6. \A m \in Models : ~Excluded(m) => Tracks(t, m)
        BY <2>4, <2>13, <2>14, <4>2
      <4>7. FrontHeld(t) /\ AllListed(t)
        BY <2>4, <3>2, <4>3 DEF Over
      <4>8. \A j \in DOMAIN t.trail :
              \/ j \in DOMAIN b.trail /\ t.trail[j] = b.trail[j]
              \/ t.trail[j].lit = -d /\ t.trail[j].level = n
        BY <2>4, <4>1 DEF Forces
      <4>9. \A j \in DOMAIN t.trail : t.trail[j].level <= n
        BY <2>1, <2>4, <4>8
      <4>10. Sourced(b)
        BY <2>4 DEF SplitInv
      <4>11. CASE t.conflict.has
        <5>1. IsFalse(b, -d)
          BY <3>2, <4>1, <4>11 DEF Forces
        <5>2. t = SetConflict(b, -d, NoAnte)
          BY <2>6, <3>2, <4>11, <5>1 DEF ForceLit
        <5>3. t.trail = b.trail /\ t.decisions = b.decisions
          BY <2>4, <5>2 DEF SetConflict, State
        <5>4. Sourced(t)
          BY <2>4, <4>4, <4>10, <5>3 DEF Sourced, Origin, DL
        <5>5. \A m \in Models : Upto(b, m, n) => Excluded(m)
          <6>1. Answered(b, d, n)
            BY <2>4, <2>8, <5>1 DEF IsFalse, TrueLits, Answered, TrueBy
          <6>2. n \in 0..DL(b)
            BY <2>1, <2>4
          <6> QED
            BY <2>13, <2>14, <6>1, <6>2 DEF Tracks
        <5> QED
          BY <2>4, <4>2, <4>4, <4>5, <4>6, <4>7, <4>9, <4>11, <5>4, <5>5
      <4>12. CASE ~t.conflict.has
        <5>1. IsTrue(t, -d)
          BY <4>1, <4>12 DEF Forces
        <5>2. TrueBy(t, -d, n)
          BY <4>9, <5>1 DEF IsTrue, TrueLits, TrueBy
        <5>3. \A j \in DOMAIN t.trail :
                 \/ Origin(b, t.trail[j])
                 \/ t.trail[j].lit = -d /\ t.trail[j].level = n
          BY <4>8, <4>10 DEF Sourced
        <5> QED
          BY <2>4, <4>2, <4>4, <4>5, <4>6, <4>7, <4>9, <4>12, <5>2, <5>3
      <4> QED
        BY <4>11, <4>12
    <3> QED
      BY <3>1, <3>2
  <2>16. ASSUME NEW v, sol' = v, v \in State, DL(v) = n, v.bt = n, v.root = sol.root, Lasts(sol, v, n),
                Sourced(v), \A m \in Models : ~Excluded(m) => Tracks(v, m)
         PROVE  /\ Sourced(sol)' /\ Seated(sol, OpenLevels)' /\ TracksLeft' /\ Guided'
                /\ \A m \in Models : Excluded(m) => Leaves(v, m) \/ Upto(sol, m, DL(sol))
    <3>1. \A k \in 1..n : v.decisions[k] = sol.decisions[k]
      BY <2>16 DEF Lasts
    <3>2. Guided'
      <4>1. \A k \in 1..sol.root : k \in 1..n
        BY <1>2, <2>1, <2>2
      <4>2. sol'.root = sol.root /\ \A k \in 1..sol.root : sol'.decisions[k] = sol.decisions[k]
        BY <2>16, <3>1, <4>1
      <4> QED
        BY <1>1, <1>2, <4>2, GuidedStays DEF SplitInv
    <3>3. Seated(sol, OpenLevels)'
      <4>1. Seated(sol, n)
        BY <1>2, <2>1, <2>2 DEF SplitInv, Seated
      <4>2. Seated(v, n)
        BY <1>2, <2>1, <2>16, <4>1, LastsSeated
      <4>3. OpenLevels' = n
        BY <1>1, <2>16 DEF OpenLevels
      <4> QED
        BY <2>16, <4>2, <4>3 DEF Seated
    <3>4. Sourced(sol)'
      <4>1. Sourced(sol)' <=> Sourced(v)
        BY <1>1, <2>16 DEF Sourced, Origin
      <4> QED
        BY <2>16, <4>1
    <3>5. TracksLeft'
      BY <1>3, <2>16 DEF TracksLeft, Tracks
    <3>6. ASSUME NEW m \in Models, Excluded(m), ~Upto(sol, m, DL(sol)) PROVE Leaves(v, m)
      <4>1. Leaves(sol, m)
        BY <2>2, <3>6 DEF SplitInv, LeavesPast
      <4>2. PICK k \in 0..sol.bt : Upto(sol, m, k) /\ \E l \in Lit : TrueBy(sol, l, k) /\ ~Holds(m, l)
        BY <4>1 DEF Leaves
      <4>3. PICK l \in Lit : TrueBy(sol, l, k) /\ ~Holds(m, l)
        BY <4>2
      <4>4. k \in Nat /\ k <= n
        <5>1. k # DL(sol)
          BY <3>6, <4>2
        <5> QED
          BY <1>2, <2>1, <4>2, <5>1
      <4>5. TrueBy(v, l, k)
        BY <1>2, <2>1, <2>16, <4>3, <4>4, StaysTrue DEF Lasts
      <4>6. Upto(v, m, k) /\ k \in 0..v.bt
        BY <2>1, <2>16, <3>1, <4>2, <4>4 DEF Upto
      <4> QED
        BY <4>3, <4>5, <4>6 DEF Leaves
    <3> QED
      BY <3>2, <3>3, <3>4, <3>5, <3>6
  <2>17. CASE t.conflict.has
    <3>1. sol' = t /\ pc' = "flip"
      BY <2>7, <2>17
    <3>2. /\ Sourced(sol)' /\ Seated(sol, OpenLevels)' /\ TracksLeft' /\ Guided'
          /\ \A m \in Models : Excluded(m) => Leaves(t, m) \/ Upto(sol, m, DL(sol))
      BY <2>15, <2>16, <2>17, <3>1
    <3>3. \A m : Upto(sol, m, DL(sol)) => Upto(t, m, n)
      BY <2>11, <2>15 DEF Lasts, Upto
    <3>4. LeavesPast'
      BY <1>3, <2>15, <3>1, <3>2, <3>3 DEF LeavesPast, Leaves, Upto
    <3>5. FlipsPast'
      <4>1. \A m : Upto(t, m, n) => Upto(b, m, n)
        BY <2>4, <2>15 DEF Lasts, Upto
      <4>2. \A m : Upto(sol, m, DL(sol))' => Upto(t, m, n)
        BY <2>15, <3>1 DEF Upto
      <4> QED
        BY <1>3, <2>15, <2>17, <4>1, <4>2 DEF FlipsPast
    <3>6. ListHolds'
      <4>1. ListHolds' <=> \/ Over(t)
                           \/ FrontHeld(t) /\ (AllListed(t) \/ (t.conflict.has /\ t.implied.level = DL(t)))
        BY <3>1 DEF ListHolds, Over, FrontHeld, AllListed, ListedBy, TrueBy
      <4> QED
        BY <2>15, <2>17, <4>1
    <3> QED
      BY <3>2, <3>4, <3>5, <3>6 DEF SplitInv
  <2>18. CASE ~t.conflict.has
    <3>1. sol' = u /\ pc' = "idle"
      BY <2>7, <2>18
    <3>2. /\ Retold(t, u, -d, n) /\ u.implied.level = MaxOf(t.implied.level, n)
          /\ u.trail = t.trail /\ u.implied.lits = Append(t.implied.lits, e)
          /\ FrontHeld(u)
      BY <2>9, <2>15, <2>18, AddImpliedRetold DEF u
    <3>3. Tells(t, u, -d, n)
      BY <2>15, <3>2, RetoldTells
    <3>4. u \in State /\ DL(u) = n /\ u.bt = n /\ u.root = sol.root /\ u.decisions = t.decisions
      BY <2>15, <3>2 DEF Retold, LevelsSame, DL
    <3>5. Lasts(sol, u, n)
      BY <2>15, <3>2, <3>4 DEF Lasts, Stays
    <3>6. \A m \in Models : ~Excluded(m) => Tracks(u, m)
      <4>1. \A m : Upto(t, m, n) => Upto(b, m, n)
        BY <2>4, <2>15 DEF Lasts, Upto
      <4> QED
        BY <2>14, <2>15, <3>3, <4>1 DEF Tells
    <3>7. /\ DOMAIN u.implied.lits = 1..(Len(t.implied.lits) + 1)
          /\ DOMAIN t.implied.lits = 1..Len(t.implied.lits) /\ Len(t.implied.lits) \in Nat
          /\ u.implied.lits[Len(t.implied.lits) + 1] = e
          /\ \A i \in 1..Len(t.implied.lits) : u.implied.lits[i] = t.implied.lits[i]
      <4>1. t.implied.lits \in Seq(Entry)
        BY <2>15 DEF State
      <4> QED
        BY <2>9, <3>2, <4>1, AppendProperties
    <3>8. Sourced(u)
      <4> SUFFICES ASSUME NEW j \in DOMAIN t.trail PROVE Origin(u, t.trail[j])
        BY <3>2 DEF Sourced
      <4>1. CASE Origin(b, t.trail[j])
        <5>1. DL(b) = n /\ b.implied = t.implied /\ \A k \in 1..n : u.decisions[k] = b.decisions[k]
          BY <2>4, <2>15, <3>5 DEF Lasts
        <5>2. \A i \in DOMAIN b.implied.lits : /\ i \in DOMAIN u.implied.lits
                                               /\ u.implied.lits[i] = b.implied.lits[i]
          BY <3>7, <5>1
        <5> HIDE DEF Origin
        <5>3. PICK x : x = t.trail[j]
          OBVIOUS
        <5>4. Origin(b, x)
          BY <4>1, <5>3
        <5>5. Origin(u, x)
          BY <3>4, <5>1, <5>2, <5>4 DEF Origin
        <5> QED
          BY <5>3, <5>5
      <4>2. CASE t.trail[j].lit = -d /\ t.trail[j].level = n
        <5>1. Len(t.implied.lits) + 1 \in DOMAIN u.implied.lits /\ e.level <= n
          BY <2>1, <2>9, <2>15, <3>7
        <5> QED
          BY <2>9, <3>7, <4>2, <5>1 DEF Origin
      <4> QED
        BY <2>15, <2>18, <4>1, <4>2
    <3>9. /\ Sourced(sol)' /\ Seated(sol, OpenLevels)' /\ TracksLeft' /\ Guided'
          /\ \A m \in Models : Excluded(m) => Leaves(u, m) \/ Upto(sol, m, DL(sol))
      BY <2>16, <3>1, <3>4, <3>5, <3>6, <3>8
    <3>10. TrueBy(u, -d, n)
      BY <2>15, <2>18, <3>2 DEF TrueBy
    <3>11. \A m \in Models : Upto(sol, m, DL(sol)) => Leaves(u, m)
      <4> SUFFICES ASSUME NEW m \in Models, Upto(sol, m, DL(sol)) PROVE Leaves(u, m)
        OBVIOUS
      <4>1. Upto(u, m, n) /\ Holds(m, d) /\ m \in Assignments
        BY <2>11, <3>5 DEF Lasts, Upto, Models
      <4>2. ~Holds(m, -d) /\ n \in 0..u.bt
        BY <2>1, <2>8, <3>4, <4>1, HoldsOne
      <4> QED
        BY <2>8, <3>10, <4>1, <4>2 DEF Leaves
    <3>12. LeavesPast' /\ FlipsPast'
      BY <1>3, <3>1, <3>9, <3>11 DEF LeavesPast, FlipsPast, Leaves
    <3>13. AllListed(u)
      <4>1. ListedBy(u) = n /\ ListedBy(t) \in Nat /\ ListedBy(t) <= n
        <5>1. t.implied.level \in Nat
          BY <2>15, Typed
        <5> QED
          BY <2>1, <2>15, <3>2, <3>4, <5>1 DEF ListedBy, MinOf, MaxOf
      <4> SUFFICES ASSUME NEW i \in DOMAIN u.implied.lits PROVE TrueBy(u, u.implied.lits[i].lit, n)
        BY <4>1 DEF AllListed
      <4>2. CASE i \in 1..Len(t.implied.lits)
        <5>1. TrueBy(t, t.implied.lits[i].lit, ListedBy(t))
          BY <2>15, <2>18, <3>7, <4>2 DEF AllListed
        <5>2. TrueBy(t, t.implied.lits[i].lit, n)
          BY <2>1, <2>15, <4>1, <5>1, TrueLater
        <5> QED
          BY <3>2, <3>7, <4>2, <5>2 DEF TrueBy
      <4>3. CASE i = Len(t.implied.lits) + 1
        BY <2>9, <3>7, <3>10, <4>3
      <4> QED
        BY <3>7, <4>2, <4>3
    <3>14. ListHolds'
      <4>1. FrontHeld(u) /\ AllListed(u) => ListHolds'
        BY <3>1 DEF ListHolds, FrontHeld, AllListed, ListedBy, TrueBy
      <4> QED
        BY <3>2, <3>13, <4>1
    <3> QED
      BY <3>9, <3>12, <3>14 DEF SplitInv
  <2> QED
    BY <2>17, <2>18
<1> QED
  BY <1>4, <1>5

(***************************************************************************)
(* Every step of the specification.                                        *)
(***************************************************************************)
(* No call pushes a literal on the root path, so nothing runs there. *)
NotPushing == pc # "push" /\ ret.ok # "push"

LEMMA EnumNext ==
  ASSUME CallsEnum, Sound, NotPushing, [Next]_vars
  PROVE  \/ UNCHANGED vars
         \/ Propagation \/ AddFact \/ Decide \/ Choose \/ Restart \/ BacktrackOnly \/ Analyze \/ Learn
         \/ Split \/ BacktrackStep \/ Flip
         \/ EndInit \/ Ready \/ SearchAside \/ SearchSimplify \/ SimplifyTop
         \/ StartAnalysis \/ AnalysisPanics \/ Search \/ Propagate
<1>1. ~Integrate /\ ~SetBacktrack /\ ~PushRoot /\ ~PopRoot /\ ~SetStop /\ ~ClearStop
  BY DEF CallsEnum, Integrate, SetBacktrack, PushRoot, PopRoot, SetStop, ClearStop, Begin, Counted
<1>2. ~Integrated /\ ~PushRootAssume
  BY DEF CallsEnum, Sound, ControlInv, NotPushing, Integrated, PushRootAssume
<1>3. SearchStep => \/ SearchAside \/ SearchSimplify \/ SimplifyTop \/ Decide \/ BacktrackOnly \/ Learn
                    \/ StartAnalysis \/ AnalysisPanics \/ Analyze
  BY DEF SearchStep, SearchAside
<1> QED
  BY <1>1, <1>2, <1>3 DEF Next, Running, ApiCall

LEMMA StaysNotPushing ==
  ASSUME CallsEnum, Sound, NotPushing, [Next]_vars
  PROVE  NotPushing'
<1>1. ret.fail # "push"
  BY DEF Sound, ControlInv
<1>2. CASE UNCHANGED vars
  BY <1>2 DEF vars, NotPushing
<1>3. CASE Propagation
  BY <1>1, <1>3 DEF NotPushing, Propagation, ForceByShort, MoveWatch, ForceByWatch, Dequeue, PropagateReturns
<1>4. CASE AddFact \/ EndInit \/ Ready
  BY <1>4 DEF NotPushing, AddFact, EndInit, Ready, Call
<1>5. CASE SearchAside \/ SearchSimplify \/ SimplifyTop \/ Decide \/ BacktrackOnly
  BY <1>5 DEF NotPushing, SearchAside, SearchSimplify, SimplifyTop, Decide, BacktrackOnly, Call, SearchTop,
              ModelFound, GiveUp, Refute, LimitReached, Continue, Return
<1>6. CASE StartAnalysis \/ AnalysisPanics \/ Analyze \/ Learn
  <2>1. (pc' \in {"analyze", "panic", "learn", "after"} /\ ret' = ret) \/ Call("after", "resolve")
    BY <1>6 DEF StartAnalysis, AnalysisPanics, Analyze, Learn
  <2> QED
    BY <2>1 DEF NotPushing, Call
<1>7. CASE Search \/ Propagate \/ Choose \/ Restart \/ Split \/ BacktrackStep \/ Flip
  BY <1>7 DEF NotPushing, Search, Propagate, Choose, Restart, Split, BacktrackStep, Flip, Begin, Idle, Call
<1> QED
  BY <1>2, <1>3, <1>4, <1>5, <1>6, <1>7, EnumNext

LEMMA InitSplit ==
  ASSUME Init
  PROVE  SplitInv /\ NotPushing
<1>1. /\ sol = NewSolver /\ pc = "init" /\ ret.ok = "idle" /\ given = <<>> /\ excluded = {}
  BY DEF Init
<1>2. /\ sol.trail = <<>> /\ sol.decisions = <<>> /\ sol.implied.lits = <<>> /\ sol.implied.front = 0
      /\ sol.root = 0 /\ DL(sol) = 0 /\ OpenLevels = 0
  BY <1>1 DEF NewSolver, DL, OpenLevels, Busy
<1>3. \A m : ~Excluded(m)
  BY <1>1 DEF Excluded
<1>4. \A l, n : ~Answered(sol, l, n)
  BY <1>2 DEF Answered, TrueBy, Remembered
<1>5. Sourced(sol) /\ Seated(sol, OpenLevels)
  BY <1>2 DEF Sourced, Seated
<1>6. TracksLeft /\ LeavesPast /\ FlipsPast
  BY <1>1, <1>3, <1>4 DEF TracksLeft, Tracks, LeavesPast, FlipsPast
<1>7. ListHolds
  BY <1>2 DEF ListHolds, FrontHeld, AllListed
<1>8. Guided
  <2>1. given \in Seq(SUBSET Lit) /\ Len(given) = 0
    BY <1>1
  <2> QED
    BY <1>2, <2>1 DEF Guided
<1> QED
  BY <1>1, <1>5, <1>6, <1>7, <1>8 DEF SplitInv, NotPushing

LEMMA NextSplit ==
  ASSUME CallsEnum, TypeOK, LevelInv, Sound, LevelInv', SplitInv, NotPushing, [Next]_vars
  PROVE  SplitInv'
<1>1. CASE UNCHANGED vars
  <2>1. /\ sol' = sol /\ pc' = pc /\ formula' = formula /\ given' = given /\ excluded' = excluded
    BY <1>1 DEF vars
  <2>2. Models' = Models /\ \A m : Excluded(m)' = Excluded(m)
    BY <2>1 DEF Models, Excluded
  <2>3. TracksLeft' /\ LeavesPast' /\ FlipsPast'
    BY <2>1, <2>2 DEF SplitInv, TracksLeft, Tracks, LeavesPast, Leaves, FlipsPast, Over, Upto, Answered,
                      Remembered, TrueBy
  <2>4. Guided'
    BY <2>1, <2>2 DEF SplitInv, Guided, Guides, Upto
  <2>5. Sourced(sol)' /\ Seated(sol, OpenLevels)' /\ ListHolds'
    BY <2>1 DEF SplitInv, Sourced, Origin, Seated, OpenLevels, Busy, TrueBy, ListHolds, Over, FrontHeld,
                AllListed, ListedBy
  <2> QED
    BY <2>3, <2>4, <2>5 DEF SplitInv
<1> QED
  BY <1>1, EnumNext, PropagationSplit, AddFactSplit, ChooseSplit, BacktrackSplit, AnalyzeSplit, LearnSplit,
     SplitSplit, BacktrackStepSplit, FlipSplit, AsideSplit

LEMMA AlwaysSplit ==
  ASSUME CallsEnum
  PROVE  Spec => [](TypeOK /\ LevelInv /\ Sound /\ SplitInv /\ NotPushing)
<1>1. CallsFit
  BY DEF CallsEnum, CallsFit
<1>2. Spec => [](TypeOK /\ LevelInv /\ Sound)
  BY <1>1, AlwaysSound
<1>3. Init => SplitInv /\ NotPushing
  BY InitSplit
<1>4. /\ TypeOK /\ LevelInv /\ Sound /\ (TypeOK /\ LevelInv /\ Sound)'
      /\ SplitInv /\ NotPushing /\ [Next]_vars
      => (SplitInv /\ NotPushing)'
  BY NextSplit, StaysNotPushing
<1> QED
  BY <1>2, <1>3, <1>4, PTL DEF Spec

(***************************************************************************)
(* What follows from the invariant in every state.                         *)
(***************************************************************************)
LEMMA LeastMissed ==
  ASSUME NEW s, NEW m, NEW n \in Nat, ~Upto(s, m, n)
  PROVE  \E i \in 1..n : Upto(s, m, i - 1) /\ ~Holds(m, s.decisions[i])
<1> SUFFICES ASSUME \A i \in 1..n : Upto(s, m, i - 1) => Holds(m, s.decisions[i]) PROVE FALSE
  OBVIOUS
<1> DEFINE S == {k \in Nat : k <= n => Upto(s, m, k)}
<1>1. 0 \in S
  BY DEF Upto
<1>2. \A k \in Nat : k \in S => k + 1 \in S
  <2> SUFFICES ASSUME NEW k \in Nat, k \in S, k + 1 <= n PROVE Upto(s, m, k + 1)
    OBVIOUS
  <2>1. Upto(s, m, k) /\ k + 1 \in 1..n /\ (k + 1) - 1 = k
    OBVIOUS
  <2>2. Holds(m, s.decisions[k + 1])
    BY <2>1
  <2>3. \A j \in 1..(k + 1) : j \in 1..k \/ j = k + 1
    OBVIOUS
  <2> QED
    BY <2>1, <2>2, <2>3 DEF Upto
<1>3. Nat \subseteq S
  <2> HIDE DEF S
  <2> QED
    BY <1>1, <1>2, NatSetInduction
<1>4. n \in S
  BY <1>3
<1> QED
  BY <1>4

LEMMA Covers ==
  ASSUME TypeOK, LevelInv, Sound, SplitInv
  PROVE  SplitCovers
<1> SUFFICES ASSUME NEW m \in Models, ~Excluded(m)
             PROVE  AllHold(m, Premises(sol.root)) \/ Given(m) # {}
  BY DEF SplitCovers
<1>1. sol \in State /\ sol.root \in Nat /\ DL(sol) \in Nat /\ sol.bt \in Nat /\ sol.root <= DL(sol)
  BY Typed DEF TypeOK, LevelInv
<1>2. CASE Upto(sol, m, sol.root)
  <2> SUFFICES ASSUME NEW i \in DOMAIN sol.trail, sol.trail[i].level <= MinOf(sol.root, DL(sol))
               PROVE  Holds(m, sol.trail[i].lit)
    BY DEF AllHold, Premises, Entries
  <2>1. Answered(sol, sol.trail[i].lit, sol.root)
    BY <1>1 DEF MinOf, Answered, TrueBy
  <2>2. Tracks(sol, m) /\ sol.root \in 0..DL(sol)
    BY <1>1 DEF SplitInv, TracksLeft
  <2> QED
    BY <1>2, <2>1, <2>2 DEF Tracks
<1>3. CASE ~Upto(sol, m, sol.root)
  <2>1. PICK i \in 1..sol.root : Upto(sol, m, i - 1) /\ ~Holds(m, sol.decisions[i])
    BY <1>1, <1>3, LeastMissed
  <2>2. AllHold(m, given[i])
    BY <2>1 DEF SplitInv, Guided, Guides
  <2>3. i \in DOMAIN given
    <3>1. given \in Seq(SUBSET Lit) /\ Len(given) = sol.root
      BY DEF SplitInv, Guided
    <3> QED
      BY <3>1
  <2> QED
    BY <2>2, <2>3 DEF Given
<1> QED
  BY <1>2, <1>3

LEMMA NoOverlap ==
  ASSUME TypeOK, LevelInv, Sound, SplitInv
  PROVE  SplitDisjoint
<1> SUFFICES ASSUME NEW m \in Models
             PROVE  /\ Cardinality(Given(m)) <= 1
                    /\ Given(m) # {} => ~AllHold(m, Premises(sol.root)) /\ ~Excluded(m)
  BY DEF SplitDisjoint
<1>1. /\ sol \in State /\ sol.root \in Nat /\ DL(sol) \in Nat /\ sol.bt \in Nat
      /\ sol.root <= sol.bt /\ sol.bt <= DL(sol) /\ m \in Assignments
  BY Typed DEF TypeOK, LevelInv, Models
<1>2. sol.root <= OpenLevels
  <2>1. Busy => sol.bt < DL(sol)
    BY DEF Sound, SolverInv
  <2> QED
    BY <1>1, <2>1 DEF OpenLevels
<1>3. ASSUME NEW i \in Given(m)
      PROVE  /\ i \in 1..sol.root /\ sol.decisions[i] \in Lit /\ ~Holds(m, sol.decisions[i])
             /\ \A k \in 1..(i - 1) : Holds(m, sol.decisions[k])
             /\ ~Excluded(m)
  <2>1. /\ given \in Seq(SUBSET Lit) /\ Len(given) = sol.root /\ \A k \in 1..sol.root : Guides(k)
    BY DEF SplitInv, Guided
  <2>2. i \in 1..sol.root /\ AllHold(m, given[i])
    BY <1>3, <2>1 DEF Given
  <2>3. sol.decisions[i] \in Lit
    <3>1. sol.decisions \in [1..DL(sol) -> Lit] /\ i \in 1..DL(sol)
      BY <1>1, <2>2 DEF State, DL
    <3> QED
      BY <3>1
  <2>4. Holds(m, -(sol.decisions[i])) /\ \A k \in 1..(i - 1) : Holds(m, sol.decisions[k])
    BY <2>1, <2>2 DEF Guides, AllHold
  <2>5. ~Excluded(m)
    BY <2>1, <2>2 DEF Guides
  <2> QED
    BY <1>1, <2>2, <2>3, <2>4, <2>5, HoldsOne
<1>4. \A i, j \in Given(m) : i = j
  <2>1. \A i, j \in Given(m) : ~(i < j)
    <3> SUFFICES ASSUME NEW i \in Given(m), NEW j \in Given(m), i < j PROVE FALSE
      OBVIOUS
    <3>1. i \in 1..sol.root /\ j \in 1..sol.root
      BY <1>3
    <3>2. i \in 1..(j - 1)
      BY <1>1, <3>1
    <3> QED
      BY <1>3, <3>2
  <2>2. \A i \in Given(m) : i \in Nat
    BY <1>1, <1>3
  <2> QED
    BY <2>1, <2>2
<1>5. Cardinality(Given(m)) <= 1
  <2>1. CASE Given(m) = {}
    <3>1. Cardinality({}) = 0
      BY FS_EmptySet
    <3> QED
      BY <2>1, <3>1
  <2>2. CASE Given(m) # {}
    <3>1. PICK i : i \in Given(m)
      BY <2>2
    <3>2. Given(m) = {i}
      BY <1>4, <3>1
    <3>3. Cardinality({i}) = 1
      BY FS_Singleton
    <3> QED
      BY <3>2, <3>3
  <2> QED
    BY <2>1, <2>2
<1>6. ASSUME NEW i \in Given(m), AllHold(m, Premises(sol.root)) PROVE FALSE
  <2>1. i \in 1..sol.root /\ ~Holds(m, sol.decisions[i])
    BY <1>3
  <2>2. i \in 1..OpenLevels
    BY <1>1, <1>2, <2>1 DEF OpenLevels
  <2>3. PICK j \in DOMAIN sol.trail : sol.trail[j].lit = sol.decisions[i] /\ sol.trail[j].level <= i
    BY <2>2 DEF SplitInv, Seated, TrueBy
  <2>4. sol.trail[j].level \in Nat /\ sol.trail[j].level <= sol.root
    BY <1>1, <2>1, <2>3, Typed
  <2>5. Premises(sol.trail[j].level) \subseteq Premises(sol.root)
    <3>1. \A f \in Entries(sol) : f.level <= MinOf(sol.trail[j].level, DL(sol)) => f.level <= MinOf(sol.root, DL(sol))
      <4> SUFFICES ASSUME NEW k \in DOMAIN sol.trail,
                          sol.trail[k].level <= MinOf(sol.trail[j].level, DL(sol))
                   PROVE  sol.trail[k].level <= MinOf(sol.root, DL(sol))
        BY DEF Entries
      <4>1. sol.trail[k].level \in Nat
        BY <1>1, Typed
      <4> QED
        BY <1>1, <2>4, <4>1 DEF MinOf
    <3> QED
      BY <3>1 DEF Premises
  <2>6. AssignmentSound
    BY SoundAssignment
  <2>7. AllHold(m, Premises(sol.trail[j].level))
    BY <1>6, <2>5 DEF AllHold
  <2>8. Holds(m, sol.trail[j].lit)
    BY <2>6, <2>7 DEF AssignmentSound, Entries
  <2> QED
    BY <2>1, <2>3, <2>8
<1> QED
  BY <1>3, <1>5, <1>6

LEMMA ListedIsTrue ==
  ASSUME SplitInv
  PROVE  ImpliedHeld
<1> SUFFICES ASSUME NEW i \in DOMAIN sol.implied.lits, ~sol.conflict.has
             PROVE  IsTrue(sol, sol.implied.lits[i].lit)
  BY DEF ImpliedHeld
<1>1. AllListed(sol)
  BY DEF SplitInv, ListHolds, Over
<1> QED
  BY <1>1 DEF AllListed, TrueBy, IsTrue, TrueLits

(* Splitting loses no model and hands none out twice, while the solver     *)
(* that splits searches, learns, restarts and backtracks over models:      *)
(* every model of the problem that backtrack_step has not left behind is   *)
(* under the root path that is kept or under a guiding path of split, and  *)
(* a guiding path shares no model with another one, with the root path or  *)
(* with what has been backtracked over.                                    *)
THEOREM SplitNeverOverlaps ==
  ASSUME CallsEnum
  PROVE  Spec => []SplitPartitions
<1>1. TypeOK /\ LevelInv /\ Sound /\ SplitInv => SplitPartitions
  BY Covers, NoOverlap DEF SplitPartitions
<1> QED
  BY <1>1, AlwaysSplit, PTL

(* A literal remembered as implied, a flipped decision or the head of a    *)
(* clause that became unit below the backtrack level, is true whenever the *)
(* solver is at its level or above and sees no conflict: going back assigns*)
(* it again, and the list drops nothing too early.                         *)
THEOREM ImpliedStaysTrue ==
  ASSUME CallsEnum
  PROVE  Spec => []ImpliedHeld
<1>1. SplitInv => ImpliedHeld
  BY ListedIsTrue
<1> QED
  BY <1>1, AlwaysSplit, PTL
=============================================================================

-------------------------- MODULE PropagationProofs -------------------------
EXTENDS SoundnessProofs

(***************************************************************************)
(* Proofs that SolverKernel overlooks nothing: a clause that asserts is    *)
(* found by propagation and stays found after backjumps, through its       *)
(* watches or through the short graph, and simplification loses no clause. *)
(*                                                                         *)
(* The theorems are about programs that make the calls of one solver that  *)
(* works alone. A clause integrated below a root path may be overlooked    *)
(* (force_implied resets the queue), and backtrack_step may forget a       *)
(* conflict on the backtrack level.                                        *)
(***************************************************************************)
CallsAlone == \A call \in {"integrate", "backtrack_step", "set_backtrack_level"} : call \notin Api

(***************************************************************************)
(* What propagation has settled. A conflict leaves the queue in the middle *)
(* of the decision level, so that only the levels below it are settled.    *)
(***************************************************************************)
Settled(s, n) == s.conflict.has => n < DL(s)

(* The literal is true by level n and has been propagated.                 *)
Done(s, l, n) ==
  \E j \in DOMAIN s.trail : s.trail[j].lit = l /\ s.trail[j].level <= n /\ j <= s.front

(* The literal is true by level n, or remembered as implied there: it is   *)
(* forced again when the solver goes back to that level.                   *)
Remembered(s, l, n) ==
  \E i \in DOMAIN s.implied.lits : s.implied.lits[i].lit = l /\ s.implied.lits[i].level <= n
Answered(s, l, n) == TrueBy(s, l, n) \/ Remembered(s, l, n)

(* A short clause all of whose other literals are false by a level has its *)
(* last literal answered by this level; an explicit clause with a false    *)
(* watch has a literal that is answered by the level of the watch.         *)
ShortOk(s, c) ==
  \A x \in c : \A n \in Nat :
    Settled(s, n) /\ (\A y \in c \ {x} : Done(s, -y, n)) => Answered(s, x, n)
WatchOk(s, c, ws) ==
  \A w \in ws : \A n \in Nat :
    Settled(s, n) /\ Done(s, -w, n) => \E t \in c : Answered(s, t, n)
Closure(s, C, W) ==
  /\ \A c \in C : ShortOk(s, c)
  /\ \A c \in DOMAIN W : WatchOk(s, c, W[c])

(* What waits on the queue belongs to the decision level.                  *)
QueueTop(s) == \A i \in DOMAIN s.trail : i > s.front => s.trail[i].level = DL(s)

(* Implied literals are remembered below the root level only, never at the *)
(* top level, always with a reason; they are all true where the list was   *)
(* last assigned, unless a conflict came in between.                       *)
Listed(s) ==
  \A i \in DOMAIN s.implied.lits : s.implied.lits[i].level > 0 /\ s.implied.lits[i].ante # NoAnte
Held(s) ==
  \/ \A i \in DOMAIN s.implied.lits : TrueBy(s, s.implied.lits[i].lit, s.implied.level)
  \/ s.conflict.has /\ DL(s) = s.implied.level
Ordered(s) ==
  /\ s.bt = s.root /\ s.implied.level <= s.bt /\ s.implied.front <= Len(s.implied.lits)
  /\ QueueTop(s) /\ Listed(s) /\ Held(s)

(***************************************************************************)
(* The step from s to t settles no level that was not settled before.      *)
(***************************************************************************)
Follows(s, t) ==
  \A n \in Nat : Settled(t, n) =>
    \E k \in Nat : /\ Settled(s, k)
                   /\ \A l : Done(t, l, n) => Done(s, l, k)
                   /\ \A l : Answered(s, l, k) => Answered(t, l, n)

LEMMA FollowsClosure ==
  ASSUME NEW s, NEW t, Follows(s, t), NEW C, NEW W, Closure(s, C, W)
  PROVE  Closure(t, C, W)
<1>1. ASSUME NEW c \in C PROVE ShortOk(t, c)
  <2> SUFFICES ASSUME NEW x \in c, NEW n \in Nat, Settled(t, n), \A y \in c \ {x} : Done(t, -y, n)
               PROVE  Answered(t, x, n)
    BY DEF ShortOk
  <2>1. PICK k \in Nat : /\ Settled(s, k)
                         /\ \A l : Done(t, l, n) => Done(s, l, k)
                         /\ \A l : Answered(s, l, k) => Answered(t, l, n)
    BY DEF Follows
  <2>2. \A y \in c \ {x} : Done(s, -y, k)
    BY <2>1
  <2> QED
    BY <2>1, <2>2 DEF Closure, ShortOk
<1>2. ASSUME NEW c \in DOMAIN W PROVE WatchOk(t, c, W[c])
  <2> SUFFICES ASSUME NEW w \in W[c], NEW n \in Nat, Settled(t, n), Done(t, -w, n)
               PROVE  \E x \in c : Answered(t, x, n)
    BY DEF WatchOk
  <2>1. PICK k \in Nat : /\ Settled(s, k)
                         /\ \A l : Done(t, l, n) => Done(s, l, k)
                         /\ \A l : Answered(s, l, k) => Answered(t, l, n)
    BY DEF Follows
  <2>2. \E x \in c : Answered(s, x, k)
    BY <2>1 DEF Closure, WatchOk
  <2> QED
    BY <2>1, <2>2
<1> QED
  BY <1>1, <1>2 DEF Closure

LEMMA FollowsTrans ==
  ASSUME NEW s, NEW t, NEW u, Follows(s, t), Follows(t, u)
  PROVE  Follows(s, u)
<1> SUFFICES ASSUME NEW n \in Nat, Settled(u, n)
             PROVE  \E k \in Nat : /\ Settled(s, k)
                                   /\ \A l : Done(u, l, n) => Done(s, l, k)
                                   /\ \A l : Answered(s, l, k) => Answered(u, l, n)
  BY DEF Follows
<1>1. PICK m \in Nat : /\ Settled(t, m)
                       /\ \A l : Done(u, l, n) => Done(t, l, m)
                       /\ \A l : Answered(t, l, m) => Answered(u, l, n)
  BY DEF Follows
<1>2. PICK k \in Nat : /\ Settled(s, k)
                       /\ \A l : Done(t, l, m) => Done(s, l, k)
                       /\ \A l : Answered(s, l, k) => Answered(t, l, m)
  BY <1>1 DEF Follows
<1> QED
  BY <1>1, <1>2

(* A change of the levels only, of the saved stop conflict, of the list's  *)
(* front, or of reasons, is not seen.                                      *)
LEMMA SameFollows ==
  ASSUME NEW s, NEW t, t.trail = s.trail, t.decisions = s.decisions, t.front = s.front,
         t.conflict.has = s.conflict.has, t.implied.lits = s.implied.lits
  PROVE  Follows(s, t)
BY DEF Follows, Settled, DL, Done, Answered, TrueBy, Remembered

(* Literals are assigned, and remembered, behind the front of the queue.   *)
LEMMA GrownFollows ==
  ASSUME NEW s \in State, NEW t \in State, Grown(s, t), t.front = s.front, s.front <= Len(s.trail),
         DL(s) <= DL(t), DL(t) = DL(s) \/ ~t.conflict.has, s.conflict.has => t.conflict.has,
         \A i \in DOMAIN t.trail : i \in DOMAIN s.trail \/ i > Len(s.trail),
         \A i \in DOMAIN s.implied.lits : \E j \in DOMAIN t.implied.lits :
           t.implied.lits[j] = s.implied.lits[i]
  PROVE  Follows(s, t)
<1> SUFFICES ASSUME NEW n \in Nat, Settled(t, n)
             PROVE  /\ Settled(s, n)
                    /\ \A l : Done(t, l, n) => Done(s, l, n)
                    /\ \A l : Answered(s, l, n) => Answered(t, l, n)
  BY DEF Follows
<1>0. /\ DOMAIN s.trail = 1..Len(s.trail) /\ Len(s.trail) \in Nat /\ s.front \in Nat
      /\ DOMAIN t.trail = 1..Len(t.trail) /\ Len(t.trail) \in Nat
  BY Typed
<1>1. Settled(s, n)
  BY DEF Settled
<1>2. ASSUME NEW l, Done(t, l, n) PROVE Done(s, l, n)
  <2>1. PICK j \in DOMAIN t.trail : t.trail[j].lit = l /\ t.trail[j].level <= n /\ j <= t.front
    BY <1>2 DEF Done
  <2>2. j \in DOMAIN s.trail
    BY <1>0, <2>1
  <2> QED
    BY <2>1, <2>2 DEF Grown, Done
<1>3. ASSUME NEW l, Answered(s, l, n) PROVE Answered(t, l, n)
  <2>1. CASE TrueBy(s, l, n)
    BY <2>1, GrownTrue DEF Answered
  <2>2. CASE Remembered(s, l, n)
    BY <2>2 DEF Answered, Remembered
  <2> QED
    BY <1>3, <2>1, <2>2 DEF Answered
<1> QED
  BY <1>1, <1>2, <1>3

(***************************************************************************)
(* Undoing levels. Nothing is lost when a level is undone, or when there   *)
(* is no conflict and nothing on the queue.                                *)
(***************************************************************************)
Quiet(s) == ~s.conflict.has /\ s.front = Len(s.trail)
Lossless(s, n) == DL(s) > n \/ Quiet(s)

LEMMA ResetFollows ==
  ASSUME NEW s, Good(s), TrailShape(s), QueueTop(s), NEW level \in Nat,
         Lossless(s, MaxOf(level, s.bt))
  PROVE  Follows(s, Reset(s, level))
<1> DEFINE r == Reset(s, level)
           target == MaxOf(level, s.bt)
<1>0. /\ s \in State /\ DL(s) \in Nat /\ s.bt \in Nat /\ s.front \in Nat
      /\ DOMAIN s.trail = 1..Len(s.trail) /\ Len(s.trail) \in Nat
      /\ \A i \in DOMAIN s.trail : s.trail[i].level \in Nat /\ s.trail[i].level <= DL(s)
  BY Typed DEF Good, TrailShape
<1>1. target \in Nat
  BY <1>0 DEF MaxOf
<1>2. /\ r.implied = s.implied /\ r.front = Len(r.trail) /\ r.conflict = NoConflict
      /\ DL(r) = MinOf(DL(s), target)
      /\ Cut(s, r, target) /\ \A i \in DOMAIN r.trail : r.trail[i].level <= DL(r)
  BY ResetFacts
<1>3. Lossless(s, target)
  OBVIOUS
<1> HIDE DEF r, target
<1> SUFFICES ASSUME NEW n \in Nat
             PROVE  \E k \in Nat : /\ Settled(s, k)
                                   /\ \A l : Done(r, l, n) => Done(s, l, k)
                                   /\ \A l : Answered(s, l, k) => Answered(r, l, n)
  BY DEF Follows, r
<1>4. CASE DL(s) > target
  <2> DEFINE k == MinOf(n, target)
  <2>1. k \in Nat /\ k <= n /\ k <= target /\ (n <= k \/ target <= k) /\ DL(r) = target
    BY <1>0, <1>1, <1>2, <1>4 DEF MinOf
  <2> HIDE DEF k
  <2>2. Settled(s, k)
    BY <1>0, <1>1, <1>4, <2>1 DEF Settled
  <2>3. ASSUME NEW l, Done(r, l, n) PROVE Done(s, l, k)
    <3>1. PICK j \in DOMAIN r.trail : r.trail[j].lit = l /\ r.trail[j].level <= n
      BY <2>3 DEF Done
    <3>2. j \in DOMAIN s.trail /\ s.trail[j] = r.trail[j] /\ r.trail[j].level <= target
      BY <1>2, <2>1, <3>1 DEF Cut
    <3>3. s.trail[j].level <= k
      BY <1>0, <1>1, <2>1, <3>1, <3>2
    <3>4. ~(j > s.front)
      BY <1>0, <1>1, <1>4, <3>2 DEF QueueTop
    <3> QED
      BY <1>0, <3>1, <3>2, <3>3, <3>4 DEF Done
  <2>4. ASSUME NEW l, Answered(s, l, k) PROVE Answered(r, l, n)
    <3>1. CASE TrueBy(s, l, k)
      <4>1. PICK j \in DOMAIN s.trail : s.trail[j].lit = l /\ s.trail[j].level <= k
        BY <3>1 DEF TrueBy
      <4>2. s.trail[j].level <= target /\ s.trail[j].level <= n
        BY <1>0, <1>1, <2>1, <4>1
      <4>3. j \in DOMAIN r.trail /\ r.trail[j] = s.trail[j]
        BY <1>2, <4>2 DEF Cut
      <4> QED
        BY <4>1, <4>2, <4>3 DEF Answered, TrueBy
    <3>2. CASE Remembered(s, l, k)
      <4>1. PICK i \in DOMAIN s.implied.lits : s.implied.lits[i].lit = l /\ s.implied.lits[i].level <= k
        BY <3>2 DEF Remembered
      <4>2. s.implied.lits[i].level \in Nat
        BY <1>0, Typed
      <4>3. s.implied.lits[i].level <= n
        BY <2>1, <4>1, <4>2
      <4> QED
        BY <1>2, <4>1, <4>3 DEF Answered, Remembered
    <3> QED
      BY <2>4, <3>1, <3>2 DEF Answered
  <2> QED
    BY <2>1, <2>2, <2>3, <2>4
<1>5. CASE Quiet(s) /\ ~(DL(s) > target)
  <2>1. Settled(s, n)
    BY <1>5 DEF Settled, Quiet
  <2>2. ASSUME NEW l, Done(r, l, n) PROVE Done(s, l, n)
    <3>1. PICK j \in DOMAIN r.trail : r.trail[j].lit = l /\ r.trail[j].level <= n
      BY <2>2 DEF Done
    <3>2. j \in DOMAIN s.trail /\ s.trail[j] = r.trail[j]
      BY <1>2, <3>1 DEF Cut
    <3> QED
      BY <1>0, <1>5, <3>1, <3>2 DEF Done, Quiet
  <2>3. \A i \in DOMAIN s.trail : s.trail[i].level <= target
    BY <1>0, <1>1, <1>5
  <2>4. \A i \in DOMAIN s.trail : i \in DOMAIN r.trail /\ r.trail[i] = s.trail[i]
    BY <1>2, <2>3 DEF Cut
  <2>5. ASSUME NEW l, Answered(s, l, n) PROVE Answered(r, l, n)
    BY <1>2, <2>4, <2>5 DEF Answered, TrueBy, Remembered
  <2> QED
    BY <2>1, <2>2, <2>5
<1> QED
  BY <1>3, <1>4, <1>5 DEF Lossless

(* A literal that is true by a level that stays is still true.             *)
LEMMA CutTrue ==
  ASSUME NEW s \in State, NEW t, NEW n \in Nat, Cut(s, t, n)
  PROVE  \A l : \A k \in Nat : k <= n /\ TrueBy(s, l, k) => TrueBy(t, l, k)
<1> SUFFICES ASSUME NEW l, NEW k \in Nat, k <= n, TrueBy(s, l, k) PROVE TrueBy(t, l, k)
  OBVIOUS
<1>1. PICK j \in DOMAIN s.trail : s.trail[j].lit = l /\ s.trail[j].level <= k
  BY DEF TrueBy
<1>2. s.trail[j].level \in Nat
  BY Typed
<1>3. j \in DOMAIN t.trail /\ t.trail[j] = s.trail[j]
  BY <1>1, <1>2 DEF Cut
<1> QED
  BY <1>1, <1>3 DEF TrueBy

(* While the backtrack level is the root level the list of implied         *)
(* literals is not active above it.                                        *)
LEMMA UndoQuiet ==
  ASSUME NEW s, Good(s), TrailShape(s), Ordered(s), NEW level \in Nat,
         Lossless(s, MaxOf(level, s.bt))
  PROVE  LET t == UndoUntil(s, level)
         IN /\ t = Reset(s, level) /\ Good(t) /\ Follows(s, t) /\ Ordered(t) /\ Quiet(t)
            /\ t.implied = s.implied /\ t.conflict = NoConflict
            /\ t.root = s.root /\ t.bt = s.bt /\ t.stop = s.stop
            /\ DL(t) = MinOf(DL(s), MaxOf(level, s.bt)) /\ Cut(s, t, MaxOf(level, s.bt))
<1> DEFINE r == Reset(s, level)
           target == MaxOf(level, s.bt)
<1>0. /\ s \in State /\ DL(s) \in Nat /\ s.bt \in Nat /\ s.implied.level \in Nat
      /\ s.bt <= DL(s) /\ s.implied.level <= s.bt
  BY Typed DEF Good, Levels, Ordered
<1>1. target \in Nat /\ s.bt <= target
  BY <1>0 DEF MaxOf
<1>2. /\ Good(r) /\ r.root = s.root /\ r.bt = s.bt /\ r.implied = s.implied /\ r.stop = s.stop
      /\ r.front = Len(r.trail) /\ r.conflict = NoConflict
      /\ DL(r) = MinOf(DL(s), target) /\ Cut(s, r, target)
      /\ UndoUntil(s, level) = IF ImpliedActive(r) THEN ImpliedAssign(r) ELSE r
  BY ResetFacts
<1>3. Follows(s, r)
  BY ResetFollows DEF Ordered
<1>4. Lossless(s, target)
  OBVIOUS
<1> HIDE DEF r, target
<1>5. ~ImpliedActive(r)
  BY <1>0, <1>1, <1>2 DEF ImpliedActive, MinOf
<1>6. Quiet(r)
  BY <1>2 DEF Quiet, NoConflict
<1>7. Held(r)
  <2>1. ~(s.conflict.has /\ DL(s) = s.implied.level)
    BY <1>0, <1>1, <1>4 DEF Lossless, Quiet
  <2>2. \A i \in DOMAIN s.implied.lits : TrueBy(s, s.implied.lits[i].lit, s.implied.level)
    BY <2>1 DEF Ordered, Held
  <2>3. s.implied.level <= target
    BY <1>0, <1>1
  <2>4. \A i \in DOMAIN s.implied.lits : TrueBy(r, s.implied.lits[i].lit, s.implied.level)
    BY <1>0, <1>1, <1>2, <2>2, <2>3, CutTrue
  <2> QED
    BY <1>2, <2>4 DEF Held
<1>8. QueueTop(r)
  <2>1. DOMAIN r.trail = 1..Len(r.trail) /\ Len(r.trail) \in Nat
    BY <1>2, Typed DEF Good
  <2> QED
    BY <1>2, <2>1 DEF QueueTop
<1>9. Ordered(r)
  BY <1>2, <1>7, <1>8 DEF Ordered, Listed
<1> QED
  BY <1>2, <1>3, <1>5, <1>6, <1>9 DEF r, target

(***************************************************************************)
(* The walk over the list of implied literals, which pop_root_level starts *)
(* at its beginning: each literal it visits is assigned unless there is a  *)
(* conflict, and what it keeps is what the level keeps.                    *)
(***************************************************************************)
Found(s, i, acc) ==
  /\ acc.sol \in State /\ LevelsSame(s, acc.sol) /\ acc.kept \in Seq(Entry)
  /\ \A j \in DOMAIN acc.sol.trail : j \in DOMAIN s.trail \/ acc.sol.trail[j].level = DL(s)
  /\ \A k \in 1..i : Visited(s, k) => acc.sol.conflict.has \/ IsTrue(acc.sol, s.implied.lits[k].lit)
  /\ \A k \in 1..i : Kept(s, k) => \E j \in DOMAIN acc.kept : acc.kept[j] = s.implied.lits[k]

LEMMA ForceSeen ==
  ASSUME NEW s \in State, NEW l \in Lit, NEW ante \in SUBSET Lit
  PROVE  LET t == ForceLit(s, l, ante)
         IN /\ t \in State /\ LevelsSame(s, t)
            /\ \A j \in DOMAIN t.trail : j \in DOMAIN s.trail \/ t.trail[j].level = DL(s)
            /\ \A j \in DOMAIN s.trail : j \in DOMAIN t.trail /\ t.trail[j] = s.trail[j]
            /\ t.conflict.has \/ IsTrue(t, l)
            /\ s.conflict.has => t.conflict.has
<1> DEFINE t == ForceLit(s, l, ante)
           e == [lit |-> l, level |-> DL(s), ante |-> ante]
<1>0. /\ DOMAIN s.trail = 1..Len(s.trail) /\ Len(s.trail) \in Nat /\ DL(s) \in Nat
      /\ s.trail \in Seq(Entry)
  BY Typed DEF State
<1>1. t \in State /\ LevelsSame(s, t)
  BY ForceType
<1>2. CASE IsTrue(s, l)
  <2>1. t = s
    BY <1>2 DEF ForceLit
  <2> QED
    BY <1>1, <1>2, <2>1
<1>3. CASE ~IsTrue(s, l) /\ IsFalse(s, l)
  <2>1. t = SetConflict(s, l, ante)
    BY <1>3 DEF ForceLit
  <2>2. t.trail = s.trail /\ t.conflict.has
    BY <2>1 DEF SetConflict, State
  <2> QED
    BY <1>1, <2>2
<1>4. CASE ~IsTrue(s, l) /\ ~IsFalse(s, l)
  <2>1. t = [s EXCEPT !.trail = Append(@, e)]
    BY <1>4 DEF ForceLit
  <2>2. e \in Entry /\ e.lit = l /\ e.level = DL(s)
    BY <1>0 DEF Entry
  <2>3. t.trail = Append(s.trail, e) /\ t.conflict = s.conflict
    BY <2>1 DEF State
  <2> HIDE DEF t, e
  <2>4. /\ DOMAIN t.trail = 1..(Len(s.trail) + 1) /\ t.trail[Len(s.trail) + 1] = e
        /\ \A j \in 1..Len(s.trail) : t.trail[j] = s.trail[j]
    BY <1>0, <2>2, <2>3, AppendProperties
  <2>5. IsTrue(t, l)
    BY <1>0, <2>2, <2>4 DEF IsTrue, TrueLits
  <2>6. \A j \in DOMAIN s.trail : j \in DOMAIN t.trail /\ t.trail[j] = s.trail[j]
    BY <1>0, <2>4
  <2>7. \A j \in DOMAIN t.trail : j \in DOMAIN s.trail \/ t.trail[j].level = DL(s)
    BY <1>0, <2>2, <2>4
  <2> QED
    BY <1>1, <2>3, <2>5, <2>6, <2>7 DEF t
<1> HIDE DEF t
<1> QED
  BY <1>2, <1>3, <1>4 DEF t

LEMMA FoundStep ==
  ASSUME NEW s \in State, NEW i \in Nat, i + 1 \in DOMAIN s.implied.lits, NEW acc, Found(s, i, acc)
  PROVE  Found(s, i + 1, AssignNext(s, i + 1, acc))
<1> DEFINE e   == s.implied.lits[i + 1]
           f   == ForceLit(acc.sol, e.lit, e.ante)
           new == AssignNext(s, i + 1, acc)
<1>0. /\ e \in Entry /\ e.lit \in Lit /\ e.ante \in SUBSET Lit
      /\ acc.sol \in State /\ acc.kept \in Seq(Entry) /\ LevelsSame(s, acc.sol)
      /\ DL(acc.sol) = DL(s)
  BY Typed DEF Found, LevelsSame, DL
<1>1. /\ new.sol = IF Visited(s, i + 1) /\ ~acc.sol.conflict.has THEN f ELSE acc.sol
      /\ new.kept = IF Kept(s, i + 1) THEN Append(acc.kept, e) ELSE acc.kept
  BY DEF AssignNext
<1>2. /\ f \in State /\ LevelsSame(acc.sol, f)
      /\ \A j \in DOMAIN f.trail : j \in DOMAIN acc.sol.trail \/ f.trail[j].level = DL(s)
      /\ \A j \in DOMAIN acc.sol.trail : j \in DOMAIN f.trail /\ f.trail[j] = acc.sol.trail[j]
      /\ f.conflict.has \/ IsTrue(f, e.lit)
      /\ acc.sol.conflict.has => f.conflict.has
  BY <1>0, ForceSeen
<1> HIDE DEF e, f, new
<1>3. /\ new.sol \in State /\ LevelsSame(s, new.sol)
      /\ \A j \in DOMAIN new.sol.trail : j \in DOMAIN s.trail \/ new.sol.trail[j].level = DL(s)
      /\ \A j \in DOMAIN acc.sol.trail : /\ j \in DOMAIN new.sol.trail
                                         /\ new.sol.trail[j] = acc.sol.trail[j]
      /\ Visited(s, i + 1) => new.sol.conflict.has \/ IsTrue(new.sol, e.lit)
      /\ acc.sol.conflict.has => new.sol.conflict.has
  <2>1. CASE Visited(s, i + 1) /\ ~acc.sol.conflict.has
    BY <1>0, <1>1, <1>2, <2>1 DEF Found, LevelsSame
  <2>2. CASE ~(Visited(s, i + 1) /\ ~acc.sol.conflict.has)
    BY <1>0, <1>1, <2>2 DEF Found
  <2> QED
    BY <2>1, <2>2
<1>4. \A l : IsTrue(acc.sol, l) => IsTrue(new.sol, l)
  BY <1>3 DEF IsTrue, TrueLits
<1>5. \A k \in 1..(i + 1) : k \in 1..i \/ k = i + 1
  OBVIOUS
<1>6. \A k \in 1..(i + 1) :
        Visited(s, k) => new.sol.conflict.has \/ IsTrue(new.sol, s.implied.lits[k].lit)
  BY <1>3, <1>4, <1>5 DEF Found, e
<1>7. /\ new.kept \in Seq(Entry)
      /\ \A j \in DOMAIN acc.kept : j \in DOMAIN new.kept /\ new.kept[j] = acc.kept[j]
      /\ Kept(s, i + 1) => \E j \in DOMAIN new.kept : new.kept[j] = e
  <2>1. CASE Kept(s, i + 1)
    <3>1. /\ Append(acc.kept, e) \in Seq(Entry)
          /\ DOMAIN acc.kept = 1..Len(acc.kept) /\ Len(acc.kept) \in Nat
          /\ DOMAIN Append(acc.kept, e) = 1..(Len(acc.kept) + 1)
          /\ Append(acc.kept, e)[Len(acc.kept) + 1] = e
          /\ \A j \in 1..Len(acc.kept) : Append(acc.kept, e)[j] = acc.kept[j]
      BY <1>0, AppendProperties
    <3> QED
      BY <1>1, <2>1, <3>1
  <2>2. CASE ~Kept(s, i + 1)
    BY <1>0, <1>1, <2>2
  <2> QED
    BY <2>1, <2>2
<1>8. \A k \in 1..(i + 1) :
        Kept(s, k) => \E j \in DOMAIN new.kept : new.kept[j] = s.implied.lits[k]
  <2> SUFFICES ASSUME NEW k \in 1..(i + 1), Kept(s, k)
               PROVE  \E j \in DOMAIN new.kept : new.kept[j] = s.implied.lits[k]
    OBVIOUS
  <2>1. CASE k = i + 1
    BY <1>7, <2>1 DEF e
  <2>2. CASE k \in 1..i
    <3>1. PICK j \in DOMAIN acc.kept : acc.kept[j] = s.implied.lits[k]
      BY <2>2 DEF Found
    <3> QED
      BY <1>7, <3>1
  <2> QED
    BY <1>5, <2>1, <2>2
<1> QED
  BY <1>3, <1>6, <1>7, <1>8 DEF Found, new

LEMMA FoundHere ==
  ASSUME NEW s \in State
  PROVE  Found(s, Len(s.implied.lits), AssignUpTo(s)[Len(s.implied.lits)])
<1> DEFINE n == Len(s.implied.lits)
           f == AssignUpTo(s)
<1>1. n \in Nat /\ DOMAIN s.implied.lits = 1..n
  BY Typed
<1>2. f[0] = [sol |-> s, kept |-> <<>>]
  BY AssignUpToSteps
<1>3. \A i \in 1..n : f[i] = AssignNext(s, i, f[i - 1])
  BY AssignUpToSteps
<1> HIDE DEF f, n
<1> DEFINE S == {i \in Nat : i <= n => Found(s, i, f[i])}
<1>4. 0 \in S
  <2>1. f[0].kept = <<>> /\ <<>> \in Seq(Entry) /\ f[0].sol = s
    BY <1>2
  <2>2. \A k \in 1..0 : FALSE
    OBVIOUS
  <2>3. Found(s, 0, f[0])
    BY <2>1, <2>2 DEF Found, LevelsSame
  <2> QED
    BY <2>3
<1>5. \A i \in Nat : i \in S => i + 1 \in S
  <2> SUFFICES ASSUME NEW i \in Nat, i \in S, i + 1 <= n
               PROVE  Found(s, i + 1, f[i + 1])
    OBVIOUS
  <2>1. Found(s, i, f[i])
    BY <1>1
  <2>2. i + 1 \in DOMAIN s.implied.lits /\ i + 1 \in 1..n /\ (i + 1) - 1 = i
    BY <1>1
  <2>3. f[i + 1] = AssignNext(s, i + 1, f[i])
    BY <1>3, <2>2
  <2> QED
    BY <2>1, <2>2, <2>3, FoundStep
<1>6. Nat \subseteq S
  <2> HIDE DEF S
  <2> QED
    BY <1>4, <1>5, NatSetInduction
<1> QED
  BY <1>1, <1>6 DEF f, n

(* What pop_root_level's walk at the new root level leaves: every level    *)
(* below a conflict is as settled as it was.                               *)
LEMMA AssignFollows ==
  ASSUME NEW R, NEW r, Good(r), TrailOk(r, R), DL(r) = r.bt, r.bt = r.root, ListFits(r, R),
         Quiet(r), r.implied.front = 0, Listed(r)
  PROVE  LET t == ImpliedAssign(r) IN Follows(r, t) /\ Ordered(t)
<1> DEFINE done  == AssignUpTo(r)[Len(r.implied.lits)]
           level == IF done.kept = <<>> THEN 0 ELSE DL(r)
           front == IF level > r.root THEN r.implied.front ELSE Len(done.kept)
           t     == ImpliedAssign(r)
           n     == Len(r.implied.lits)
<1>0. /\ r \in State /\ n \in Nat /\ DOMAIN r.implied.lits = 1..n /\ DL(r) \in Nat
      /\ DOMAIN r.trail = 1..Len(r.trail) /\ Len(r.trail) \in Nat
      /\ \A i \in DOMAIN r.implied.lits : r.implied.lits[i].level \in Nat
      /\ \A i \in DOMAIN r.trail : r.trail[i].level \in Nat /\ r.trail[i].level <= DL(r)
  BY Typed DEF Good, TrailOk, TrailShape
<1>1. Found(r, n, done)
  BY <1>0, FoundHere
<1>2. t = [done.sol EXCEPT !.implied = [lits |-> done.kept, level |-> level, front |-> front]]
  BY DEF ImpliedAssign
<1>3. /\ Core(t, R) /\ t.front = r.front
      /\ \A j \in DOMAIN r.trail : j \in DOMAIN t.trail /\ t.trail[j] = r.trail[j]
      /\ t.implied.level <= t.bt
  BY ImpliedHere
<1>4. t \in State
  BY <1>0, ImpliedAssignType
<1> HIDE DEF done, t, n
<1>5. /\ t.trail = done.sol.trail /\ t.bt = r.bt /\ t.root = r.root /\ DL(t) = DL(r)
      /\ t.implied.lits = done.kept /\ t.implied.level = level /\ t.conflict = done.sol.conflict
  BY <1>1, <1>2 DEF Found, State, LevelsSame, DL
<1>6. /\ done.kept \in Seq(Entry) /\ Len(done.kept) \in Nat /\ DOMAIN done.kept = 1..Len(done.kept)
  BY <1>1 DEF Found
<1>7. \A j \in DOMAIN t.trail : t.trail[j].level \in Nat /\ t.trail[j].level <= DL(r)
  BY <1>3, <1>4, <1>5, Typed DEF Core, TrailOk, TrailShape
<1>8. \A i \in 1..n : r.implied.lits[i].level <= DL(r) =>
        t.conflict.has \/ TrueBy(t, r.implied.lits[i].lit, DL(r))
  <2> SUFFICES ASSUME NEW i \in 1..n, r.implied.lits[i].level <= DL(r), ~t.conflict.has
               PROVE  TrueBy(t, r.implied.lits[i].lit, DL(r))
    OBVIOUS
  <2>1. Visited(r, i)
    BY <1>0 DEF Visited
  <2>2. IsTrue(done.sol, r.implied.lits[i].lit)
    BY <1>1, <1>5, <2>1 DEF Found
  <2>3. PICK j \in DOMAIN t.trail : t.trail[j].lit = r.implied.lits[i].lit
    BY <1>5, <2>2 DEF IsTrue, TrueLits
  <2> QED
    BY <1>7, <2>3 DEF TrueBy
<1>9. Follows(r, t)
  <2> SUFFICES ASSUME NEW m \in Nat, Settled(t, m)
               PROVE  \E k \in Nat : /\ Settled(r, k)
                                     /\ \A l : Done(t, l, m) => Done(r, l, k)
                                     /\ \A l : Answered(r, l, k) => Answered(t, l, m)
    BY DEF Follows
  <2> DEFINE k == MinOf(m, DL(r))
  <2>1. k \in Nat /\ k <= m /\ k <= DL(r) /\ (k = m \/ k = DL(r)) /\ (m <= DL(r) => k = m)
    BY <1>0 DEF MinOf
  <2> HIDE DEF k
  <2>2. Settled(r, k)
    BY DEF Settled, Quiet
  <2>3. ASSUME NEW l, Done(t, l, m) PROVE Done(r, l, k)
    <3>1. PICK j \in DOMAIN t.trail : t.trail[j].lit = l /\ t.trail[j].level <= m /\ j <= t.front
      BY <2>3 DEF Done
    <3>2. j \in 1..Len(t.trail) /\ j <= Len(r.trail)
      BY <1>3, <1>4, <3>1, Typed DEF Quiet
    <3>3. j \in DOMAIN r.trail /\ t.trail[j] = r.trail[j]
      BY <1>0, <1>3, <3>2
    <3>4. r.trail[j].level <= k
      BY <1>0, <2>1, <3>1, <3>3
    <3> QED
      BY <1>3, <3>1, <3>3, <3>4 DEF Done
  <2>4. ASSUME NEW l, Answered(r, l, k) PROVE Answered(t, l, m)
    <3>1. CASE TrueBy(r, l, k)
      <4>1. PICK j \in DOMAIN r.trail : r.trail[j].lit = l /\ r.trail[j].level <= k
        BY <3>1 DEF TrueBy
      <4>2. j \in DOMAIN t.trail /\ t.trail[j] = r.trail[j] /\ r.trail[j].level <= m
        BY <1>0, <1>3, <2>1, <4>1
      <4> QED
        BY <4>1, <4>2 DEF Answered, TrueBy
    <3>2. CASE Remembered(r, l, k)
      <4>1. PICK i \in 1..n : r.implied.lits[i].lit = l /\ r.implied.lits[i].level <= k
        BY <1>0, <3>2 DEF Remembered
      <4>2. r.implied.lits[i].level \in Nat /\ r.implied.lits[i].level <= DL(r)
            /\ r.implied.lits[i].level <= m
        BY <1>0, <2>1, <4>1
      <4>3. CASE r.implied.lits[i].level < DL(r)
        <5>1. Kept(r, i)
          BY <1>0, <4>2, <4>3 DEF Kept, Visited
        <5>2. PICK j \in DOMAIN done.kept : done.kept[j] = r.implied.lits[i]
          BY <1>1, <5>1 DEF Found
        <5> QED
          BY <1>5, <4>1, <4>2, <5>2 DEF Answered, Remembered
      <4>4. CASE ~(r.implied.lits[i].level < DL(r))
        <5>1. DL(r) <= m
          BY <1>0, <4>2, <4>4
        <5>2. ~t.conflict.has
          BY <1>0, <1>5, <5>1 DEF Settled
        <5>3. TrueBy(t, l, DL(r))
          BY <1>8, <4>1, <4>2, <5>2
        <5>4. PICK j \in DOMAIN t.trail : t.trail[j].lit = l /\ t.trail[j].level <= DL(r)
          BY <5>3 DEF TrueBy
        <5>5. t.trail[j].level <= m
          BY <1>0, <1>7, <5>1, <5>4
        <5> QED
          BY <5>4, <5>5 DEF Answered, TrueBy
      <4> QED
        BY <4>3, <4>4
    <3> QED
      BY <2>4, <3>1, <3>2 DEF Answered
  <2> QED
    BY <2>1, <2>2, <2>3, <2>4
<1>10. \A i \in DOMAIN done.kept : \E j \in 1..n : done.kept[i] = r.implied.lits[j] /\ Kept(r, j)
  <2>1. WalkKept(r, n, done)
    BY WalkHere DEF done, n
  <2> QED
    BY <2>1 DEF WalkKept
<1>11. Listed(t)
  BY <1>0, <1>5, <1>10 DEF Listed
<1>12. Held(t)
  <2>1. CASE done.kept = <<>>
    <3>1. \A i \in DOMAIN done.kept : FALSE
      BY <2>1
    <3> QED
      BY <1>5, <3>1 DEF Held
  <2>2. CASE done.kept # <<>>
    <3>1. t.implied.level = DL(r)
      BY <1>5, <2>2
    <3>2. ASSUME NEW i \in DOMAIN done.kept, ~t.conflict.has
          PROVE  TrueBy(t, done.kept[i].lit, DL(r))
      <4>1. PICK j \in 1..n : done.kept[i] = r.implied.lits[j] /\ Kept(r, j)
        BY <1>10
      <4>2. r.implied.lits[j].level <= DL(r)
        BY <1>0, <4>1 DEF Kept, Visited
      <4> QED
        BY <1>8, <3>2, <4>1, <4>2
    <3> QED
      BY <1>5, <3>1, <3>2 DEF Held
  <2> QED
    BY <2>1, <2>2
<1>13. QueueTop(t)
  <2>1. ASSUME NEW j \in DOMAIN t.trail, j > t.front PROVE t.trail[j].level = DL(r)
    <3>1. j \notin DOMAIN r.trail
      BY <1>0, <1>3, <2>1 DEF Quiet
    <3> QED
      BY <1>1, <1>5, <3>1 DEF Found
  <2> QED
    BY <1>5, <2>1 DEF QueueTop
<1>14. t.implied.front <= Len(t.implied.lits)
  BY <1>3 DEF Core, ImpliedOk
<1> QED
  BY <1>3, <1>5, <1>9, <1>11, <1>12, <1>13, <1>14 DEF Ordered, t

(***************************************************************************)
(* pop_root_level, seen from the state without its stop conflict.          *)
(***************************************************************************)
RootAfter(s, n) == IF Base(s).root >= n THEN Base(s).root - n ELSE 0
Popped(s, n) == [Base(s) EXCEPT !.root = RootAfter(s, n), !.bt = RootAfter(s, n), !.implied.front = 0]

LEMMA PoppedFacts ==
  ASSUME NEW R, NEW s, Good(s), Core(Base(s), R), NEW n \in Nat
  PROVE  LET c == Base(s)
             x == Popped(s, n)
             root == RootAfter(s, n)
         IN /\ PopRootLevel(s, n) = UndoUntil(x, root)
            /\ root \in Nat /\ root <= DL(c) /\ DL(x) = DL(c)
            /\ Good(x) /\ TrailShape(x) /\ Reasoned(x, R) /\ ~x.stop.set
            /\ x.root = root /\ x.bt = root /\ x.trail = c.trail /\ x.decisions = c.decisions
            /\ x.front = c.front /\ x.conflict = c.conflict
            /\ x.implied.lits = c.implied.lits /\ x.implied.level = c.implied.level
            /\ x.implied.front = 0
            /\ c \in State /\ c.root \in Nat /\ c.implied.level \in Nat
<1> DEFINE c == Base(s)
           x == Popped(s, n)
           root == RootAfter(s, n)
<1>1. Good(c) /\ ~c.stop.set /\ Core(c, R)
  BY ClearStopConflictGood, BaseFacts DEF Good, Base
<1>2. PopRootLevel(s, n) = UndoUntil(x, root)
  BY DEF PopRootLevel, Base, Popped, RootAfter
<1>3. root \in Nat /\ root <= DL(c) /\ c.root \in Nat
  BY <1>1, Typed DEF Good, Levels, RootAfter
<1>4. x = [c EXCEPT !.root = root, !.bt = root, !.implied.front = 0]
  BY DEF Popped
<1> HIDE DEF c, root, x
<1>5. /\ c \in State /\ c.implied \in [lits : Seq(Entry), level : Nat, front : Nat] /\ c.implied.level \in Nat
  BY <1>1, Typed DEF Good, State
<1>6. /\ x \in State /\ x.root = root /\ x.bt = root /\ x.decisions = c.decisions /\ x.stop = c.stop
      /\ x.trail = c.trail /\ x.implied.lits = c.implied.lits /\ x.implied.level = c.implied.level
      /\ x.implied.front = 0 /\ x.front = c.front /\ x.conflict = c.conflict
  <2>1. [c.implied EXCEPT !.front = 0] \in [lits : Seq(Entry), level : Nat, front : Nat]
    BY <1>5
  <2> QED
    BY <1>3, <1>4, <1>5, <2>1 DEF State
<1>7. Good(x) /\ DL(x) = DL(c)
  BY <1>1, <1>3, <1>6 DEF Good, Levels, DL
<1>8. TrailShape(x) /\ Reasoned(x, R)
  BY <1>1, <1>6, <1>7 DEF Core, TrailOk, TrailShape, Reasoned
<1> QED
  BY <1>1, <1>2, <1>3, <1>5, <1>6, <1>7, <1>8 DEF c, x, root

LEMMA PopRootFollows ==
  ASSUME NEW R, NEW s, Good(s), Core(Base(s), R), Ordered(Base(s)), NEW n \in Nat,
         Lossless(Base(s), RootAfter(s, n))
  PROVE  LET t == PopRootLevel(s, n)
         IN Follows(Base(s), t) /\ Ordered(t) /\ DL(t) = t.root /\ ~t.stop.set /\ Good(t)
<1> DEFINE c == Base(s)
           x == Popped(s, n)
           root == RootAfter(s, n)
           r == Reset(x, root)
           t == PopRootLevel(s, n)
<1>1. /\ t = UndoUntil(x, root)
      /\ root \in Nat /\ root <= DL(c) /\ DL(x) = DL(c)
      /\ Good(x) /\ TrailShape(x) /\ Reasoned(x, R) /\ ~x.stop.set
      /\ x.root = root /\ x.bt = root /\ x.trail = c.trail /\ x.decisions = c.decisions
      /\ x.front = c.front /\ x.conflict = c.conflict
      /\ x.implied.lits = c.implied.lits /\ x.implied.level = c.implied.level
      /\ x.implied.front = 0
      /\ c \in State /\ c.implied.level \in Nat
  BY PoppedFacts
<1>2. Ordered(c) /\ Core(c, R) /\ Lossless(c, root)
  OBVIOUS
<1>3. Good(t)
  BY PopRootLevelGood
<1> HIDE DEF c, x, root, t
<1>4. x \in State /\ Len(x.implied.lits) \in Nat /\ DL(c) \in Nat
  BY <1>1, Typed DEF Good
<1>5. MaxOf(root, x.bt) = root /\ MinOf(DL(x), root) = root
  BY <1>1, <1>4 DEF MaxOf, MinOf
<1>6. /\ Good(r) /\ r.root = root /\ r.bt = root /\ r.implied = x.implied /\ r.stop = x.stop
      /\ r.front = Len(r.trail) /\ r.conflict = NoConflict /\ DL(r) = root
      /\ Cut(x, r, root) /\ \A i \in DOMAIN r.trail : r.trail[i].level <= DL(r)
      /\ t = IF ImpliedActive(r) THEN ImpliedAssign(r) ELSE r
  BY <1>1, <1>5, ResetFacts
<1>7. Follows(c, x)
  BY <1>1, SameFollows
<1>8. Follows(x, r)
  <2>1. QueueTop(x)
    BY <1>1, <1>2 DEF Ordered, QueueTop
  <2>2. Lossless(x, MaxOf(root, x.bt))
    BY <1>1, <1>2, <1>5 DEF Lossless, Quiet
  <2> QED
    BY <1>1, <2>1, <2>2, ResetFollows
<1> HIDE DEF r
<1>9. r \in State /\ Quiet(r) /\ ~r.stop.set /\ Len(r.trail) \in Nat /\ DOMAIN r.trail = 1..Len(r.trail)
  BY <1>1, <1>6, Typed DEF Good, Quiet, NoConflict
<1>10. \A l : \A k \in Nat : k <= root /\ TrueBy(x, l, k) => TrueBy(r, l, k)
  BY <1>1, <1>4, <1>6, CutTrue
<1>11. Listed(r)
  BY <1>1, <1>2, <1>6 DEF Ordered, Listed
<1>12. CASE ImpliedActive(r)
  <2>1. t = ImpliedAssign(r)
    BY <1>6, <1>12
  <2>2. TrailOk(r, R)
    <3>1. DL(r) <= r.bt
      BY <1>1, <1>6
    <3> QED
      BY <1>1, <1>4, <1>6, <1>9, <3>1, CutTrail DEF TrailOk
  <2>3. ListFits(r, R)
    <3>1. \A i \in DOMAIN c.implied.lits : EntryOk(c, R, c.implied.lits[i])
      BY <1>2 DEF Core, ImpliedOk
    <3>2. \A i \in DOMAIN c.implied.lits : c.implied.lits[i].level \in Nat /\ i \in Nat /\ ~(i <= 0)
      BY <1>1, Typed
    <3>3. ASSUME NEW i \in DOMAIN c.implied.lits, c.implied.lits[i].level <= root
          PROVE  EntryOk(r, R, c.implied.lits[i])
      <4>1. \A l : TrueBy(c, l, c.implied.lits[i].level) => TrueBy(x, l, c.implied.lits[i].level)
        BY <1>1 DEF TrueBy
      <4>2. \A l : TrueBy(x, l, c.implied.lits[i].level) => TrueBy(r, l, c.implied.lits[i].level)
        BY <1>10, <3>2, <3>3
      <4> QED
        BY <3>1, <4>1, <4>2 DEF EntryOk
    <3> QED
      BY <1>1, <1>4, <1>6, <3>2, <3>3 DEF ListFits
  <2>4. Follows(r, t) /\ Ordered(t)
    BY <1>1, <1>6, <1>9, <1>11, <2>1, <2>2, <2>3, AssignFollows
  <2>5. Follows(c, t)
    BY <1>7, <1>8, <2>4, FollowsTrans
  <2>6. DL(t) = t.root /\ ~t.stop.set
    BY <1>6, <1>9, <2>1, ImpliedAssignType DEF LevelsSame, DL
  <2> QED
    BY <1>3, <2>4, <2>5, <2>6 DEF c, t
<1>13. CASE ~ImpliedActive(r)
  <2>1. t = r
    BY <1>6, <1>13
  <2>2. r.implied.level <= root \/ Len(r.implied.lits) = 0
    BY <1>1, <1>4, <1>6, <1>13 DEF ImpliedActive
  <2>3. r.implied.level <= root
    <3>1. CASE Len(r.implied.lits) = 0
      <4>1. c.implied.lits \in Seq(Entry) /\ Len(c.implied.lits) = 0
        BY <1>1, <1>6, <3>1 DEF State
      <4>2. c.implied.lits = <<>>
        BY <4>1, EmptySeq
      <4>3. c.implied.level = 0
        BY <1>2, <4>2 DEF Core, ImpliedOk
      <4> QED
        BY <1>1, <1>6, <4>3
    <3> QED
      BY <2>2, <3>1
  <2>4. Held(r)
    <3>1. ~(c.conflict.has /\ DL(c) = c.implied.level)
      BY <1>1, <1>2, <1>4, <1>6, <2>3 DEF Lossless, Quiet
    <3>2. \A i \in DOMAIN c.implied.lits : TrueBy(c, c.implied.lits[i].lit, c.implied.level)
      BY <1>2, <3>1 DEF Ordered, Held
    <3>3. \A l : TrueBy(c, l, c.implied.level) => TrueBy(x, l, c.implied.level)
      BY <1>1 DEF TrueBy
    <3>4. \A i \in DOMAIN c.implied.lits : TrueBy(r, c.implied.lits[i].lit, c.implied.level)
      BY <1>1, <1>6, <1>10, <2>3, <3>2, <3>3
    <3> QED
      BY <1>1, <1>6, <3>4 DEF Held
  <2>5. QueueTop(r)
    BY <1>6, <1>9 DEF QueueTop
  <2>6. Ordered(r)
    BY <1>1, <1>4, <1>6, <1>11, <2>3, <2>4, <2>5 DEF Ordered
  <2>7. Follows(c, r)
    BY <1>7, <1>8, FollowsTrans
  <2> QED
    BY <1>3, <1>6, <1>9, <2>1, <2>6, <2>7 DEF c, t
<1> QED
  BY <1>12, <1>13

(***************************************************************************)
(* A literal that is free is assigned.                                     *)
(***************************************************************************)
LEMMA ForceFree ==
  ASSUME NEW s \in State, NEW l \in Lit, IsFree(s, l), NEW ante \in SUBSET Lit
  PROVE  LET t == ForceLit(s, l, ante)
         IN /\ t \in State /\ LevelsSame(s, t) /\ DL(t) = DL(s)
            /\ t.front = s.front /\ t.conflict = s.conflict /\ t.implied = s.implied
            /\ \A j \in DOMAIN s.trail : j \in DOMAIN t.trail /\ t.trail[j] = s.trail[j]
            /\ \A j \in DOMAIN t.trail : \/ j \in DOMAIN s.trail
                                         \/ j > Len(s.trail) /\ t.trail[j].level = DL(s)
            /\ Grown(s, t) /\ TrueBy(t, l, DL(s))
<1> DEFINE t == ForceLit(s, l, ante)
           e == [lit |-> l, level |-> DL(s), ante |-> ante]
<1>0. /\ DOMAIN s.trail = 1..Len(s.trail) /\ Len(s.trail) \in Nat /\ DL(s) \in Nat
      /\ s.trail \in Seq(Entry)
  BY Typed DEF State
<1>1. t \in State /\ LevelsSame(s, t)
  BY ForceType
<1>2. t = [s EXCEPT !.trail = Append(@, e)]
  BY DEF ForceLit, IsFree
<1>3. e \in Entry /\ e.lit = l /\ e.level = DL(s)
  BY <1>0 DEF Entry
<1>4. /\ t.trail = Append(s.trail, e) /\ t.conflict = s.conflict /\ t.front = s.front
      /\ t.implied = s.implied /\ t.decisions = s.decisions
  BY <1>2 DEF State
<1> HIDE DEF t, e
<1>5. /\ DOMAIN t.trail = 1..(Len(s.trail) + 1) /\ t.trail[Len(s.trail) + 1] = e
      /\ \A j \in 1..Len(s.trail) : t.trail[j] = s.trail[j]
  BY <1>0, <1>3, <1>4, AppendProperties
<1>6. \A j \in DOMAIN s.trail : j \in DOMAIN t.trail /\ t.trail[j] = s.trail[j]
  BY <1>0, <1>5
<1>7. \A j \in DOMAIN t.trail : \/ j \in DOMAIN s.trail
                                \/ j > Len(s.trail) /\ t.trail[j].level = DL(s)
  BY <1>0, <1>3, <1>5
<1>8. TrueBy(t, l, DL(s))
  BY <1>0, <1>3, <1>5 DEF TrueBy
<1>9. Grown(s, t)
  BY <1>6 DEF Grown
<1> QED
  BY <1>1, <1>4, <1>6, <1>7, <1>8, <1>9 DEF t, DL

(* What is on the list is still true when the trail grows.                 *)
LEMMA GrownOrdered ==
  ASSUME NEW s \in State, NEW t \in State, Ordered(s), Grown(s, t), t.front = s.front,
         t.implied = s.implied, t.bt = s.bt, t.root = s.root, DL(t) = DL(s),
         s.conflict.has => t.conflict.has,
         \A j \in DOMAIN t.trail : j \in DOMAIN s.trail \/ t.trail[j].level = DL(s)
  PROVE  Ordered(t)
<1>1. QueueTop(t)
  BY DEF Ordered, QueueTop, Grown
<1>2. Held(t)
  <2>1. \A l, k : TrueBy(s, l, k) => TrueBy(t, l, k)
    BY GrownTrue
  <2> QED
    BY <2>1 DEF Ordered, Held
<1> QED
  BY <1>1, <1>2 DEF Ordered, Listed

(* The literal of a learnt clause is forced where the solver has jumped    *)
(* back to, and remembered when the clause already asserts below.          *)
AssertedAt(s, t, l, level) ==
  /\ Follows(s, t) /\ Ordered(t) /\ ~t.conflict.has /\ Grown(s, t)
  /\ TrueBy(t, l, DL(t)) /\ Answered(t, l, level)

LEMMA ForceHereFollows ==
  ASSUME NEW s, Good(s), Ordered(s), Quiet(s), NEW l \in Lit, IsFree(s, l), NEW c \in SUBSET Lit
  PROVE  AssertedAt(s, ForceLit(s, l, c), l, DL(s))
<1> DEFINE t == ForceLit(s, l, c)
<1>0. s \in State /\ Len(s.trail) \in Nat /\ DL(s) \in Nat
  BY Typed DEF Good
<1>1. /\ t \in State /\ LevelsSame(s, t) /\ DL(t) = DL(s)
      /\ t.front = s.front /\ t.conflict = s.conflict /\ t.implied = s.implied
      /\ \A j \in DOMAIN t.trail : \/ j \in DOMAIN s.trail
                                   \/ j > Len(s.trail) /\ t.trail[j].level = DL(s)
      /\ Grown(s, t) /\ TrueBy(t, l, DL(s))
  BY <1>0, ForceFree
<1> HIDE DEF t
<1>2. Follows(s, t)
  <2>1. \A i \in DOMAIN s.implied.lits : \E j \in DOMAIN t.implied.lits :
          t.implied.lits[j] = s.implied.lits[i]
    BY <1>1
  <2>2. s.front <= Len(s.trail) /\ DL(s) <= DL(t)
    BY <1>0, <1>1 DEF Quiet
  <2> QED
    BY <1>0, <1>1, <2>1, <2>2, GrownFollows DEF Quiet
<1>3. Ordered(t)
  BY <1>0, <1>1, GrownOrdered DEF LevelsSame
<1> QED
  BY <1>1, <1>2, <1>3 DEF AssertedAt, Answered, Quiet, t

LEMMA AddedFollows ==
  ASSUME NEW s, Good(s), Ordered(s), Quiet(s), NEW e \in Entry, e.level > 0, e.ante # NoAnte,
         DL(s) = s.bt
  PROVE  LET t == AddImplied(s, e)
         IN /\ t \in State /\ Follows(s, t) /\ Grown(s, t)
            /\ t.trail = s.trail /\ t.decisions = s.decisions /\ t.front = s.front
            /\ t.conflict = s.conflict /\ t.bt = s.bt /\ t.root = s.root
            /\ t.implied.level = s.bt /\ t.implied.front <= Len(t.implied.lits)
            /\ Listed(t) /\ Remembered(t, e.lit, e.level)
            /\ \A i \in DOMAIN t.implied.lits :
                 t.implied.lits[i] = e \/ TrueBy(t, t.implied.lits[i].lit, s.bt)
<1> DEFINE t == AddImplied(s, e)
<1>0. /\ s \in State /\ Len(s.trail) \in Nat /\ DL(s) \in Nat /\ s.bt \in Nat
      /\ s.implied \in [lits : Seq(Entry), level : Nat, front : Nat]
      /\ DOMAIN s.implied.lits = 1..Len(s.implied.lits) /\ Len(s.implied.lits) \in Nat
  BY Typed DEF Good, State
<1>1. t.implied = [lits |-> Append(s.implied.lits, e), level |-> MaxOf(s.implied.level, DL(s)),
                   front |-> s.implied.front]
      /\ t = [s EXCEPT !.implied = t.implied]
  BY <1>0 DEF AddImplied, State
<1>2. MaxOf(s.implied.level, DL(s)) = s.bt
  BY <1>0 DEF Ordered, MaxOf
<1>3. /\ Append(s.implied.lits, e) \in Seq(Entry)
      /\ DOMAIN Append(s.implied.lits, e) = 1..(Len(s.implied.lits) + 1)
      /\ Len(Append(s.implied.lits, e)) = Len(s.implied.lits) + 1
      /\ Append(s.implied.lits, e)[Len(s.implied.lits) + 1] = e
      /\ \A i \in 1..Len(s.implied.lits) : Append(s.implied.lits, e)[i] = s.implied.lits[i]
  BY <1>0, AppendProperties
<1>4. t.implied \in [lits : Seq(Entry), level : Nat, front : Nat]
  BY <1>0, <1>1, <1>2, <1>3
<1> HIDE DEF t
<1>5. /\ t \in State /\ t.trail = s.trail /\ t.decisions = s.decisions /\ t.front = s.front
      /\ t.conflict = s.conflict /\ t.bt = s.bt /\ t.root = s.root
  BY <1>0, <1>1, <1>4 DEF State
<1>6. /\ t.implied.level = s.bt
      /\ DOMAIN t.implied.lits = 1..(Len(s.implied.lits) + 1)
      /\ t.implied.lits[Len(s.implied.lits) + 1] = e
      /\ \A i \in 1..Len(s.implied.lits) : t.implied.lits[i] = s.implied.lits[i]
      /\ t.implied.front <= Len(t.implied.lits)
  BY <1>0, <1>1, <1>2, <1>3 DEF Ordered
<1>7. \A i \in DOMAIN t.implied.lits : i \in DOMAIN s.implied.lits \/ i = Len(s.implied.lits) + 1
  BY <1>0, <1>6
<1>8. Listed(t)
  BY <1>0, <1>6, <1>7 DEF Ordered, Listed
<1>9. Remembered(t, e.lit, e.level)
  <2>1. e.level \in Nat
    BY DEF Entry
  <2>2. Len(s.implied.lits) + 1 \in DOMAIN t.implied.lits
    BY <1>0, <1>6
  <2>3. /\ t.implied.lits[Len(s.implied.lits) + 1].lit = e.lit
        /\ t.implied.lits[Len(s.implied.lits) + 1].level <= e.level
    BY <1>6, <2>1
  <2> QED
    BY <2>2, <2>3 DEF Remembered
<1>10. Grown(s, t)
  BY <1>5 DEF Grown
<1>11. Follows(s, t)
  <2>1. \A i \in DOMAIN s.implied.lits : \E j \in DOMAIN t.implied.lits :
          t.implied.lits[j] = s.implied.lits[i]
    BY <1>0, <1>6
  <2>2. s.front <= Len(s.trail) /\ DL(s) <= DL(t) /\ DL(t) = DL(s)
    BY <1>0, <1>5 DEF Quiet, DL
  <2> QED
    BY <1>0, <1>5, <1>10, <2>1, <2>2, GrownFollows DEF Quiet
<1>12. \A i \in DOMAIN t.implied.lits :
         t.implied.lits[i] = e \/ TrueBy(t, t.implied.lits[i].lit, s.bt)
  <2>1. \A i \in DOMAIN s.implied.lits : TrueBy(s, s.implied.lits[i].lit, s.implied.level)
    BY DEF Ordered, Held, Quiet
  <2>2. ASSUME NEW i \in DOMAIN s.implied.lits PROVE TrueBy(t, s.implied.lits[i].lit, s.bt)
    <3>1. PICK j \in DOMAIN s.trail : s.trail[j].lit = s.implied.lits[i].lit
                                      /\ s.trail[j].level <= s.implied.level
      BY <2>1 DEF TrueBy
    <3>2. s.trail[j].level \in Nat /\ s.implied.level \in Nat
      BY <1>0, Typed
    <3>3. s.trail[j].level <= s.bt
      BY <1>0, <3>1, <3>2 DEF Ordered
    <3> QED
      BY <1>5, <3>1, <3>3 DEF TrueBy
  <2> QED
    BY <1>0, <1>6, <1>7, <2>2
<1> QED
  BY <1>5, <1>6, <1>8, <1>9, <1>10, <1>11, <1>12 DEF t

LEMMA ForceBelowFollows ==
  ASSUME NEW s, Good(s), TrailShape(s), Ordered(s), Quiet(s), DL(s) = s.bt,
         NEW l \in Lit, IsFree(s, l), NEW c \in SUBSET Lit, c # {},
         NEW level \in Nat, level > 0, level < DL(s)
  PROVE  AssertedAt(s, ForceImplied(s, l, level, c), l, level)
<1> DEFINE e == [lit |-> l, level |-> level, ante |-> c]
           u == UndoUntil(s, level)
           v == AddImplied(u, e)
           t == ForceLit(v, l, c)
<1>0. /\ s \in State /\ DL(s) \in Nat /\ s.bt \in Nat /\ Len(s.trail) \in Nat
      /\ MaxOf(level, s.bt) = s.bt /\ MinOf(DL(s), s.bt) = s.bt
  BY Typed DEF Good, MaxOf, MinOf
<1>1. /\ Good(u) /\ Follows(s, u) /\ Ordered(u) /\ Quiet(u)
      /\ u.root = s.root /\ u.bt = s.bt /\ DL(u) = s.bt /\ Cut(s, u, s.bt)
  <2>1. Lossless(s, MaxOf(level, s.bt))
    BY DEF Lossless
  <2> QED
    BY <1>0, <2>1, UndoQuiet
<1>2. Grown(s, u)
  BY <1>1 DEF Cut, Grown, TrailShape
<1>3. IsFree(u, l)
  BY <1>1 DEF Cut, IsFree, IsTrue, IsFalse, TrueLits
<1>4. e \in Entry /\ e.level = level /\ e.lit = l /\ e.ante = c
  BY DEF Entry
<1>5. ForceImplied(s, l, level, c) = t
  <2>1. ~IsTrue(s, l) /\ DL(u) # level
    BY <1>0, <1>1 DEF IsFree
  <2>2. v.trail = u.trail
    BY <1>1 DEF AddImplied, Good, State
  <2>3. ~IsTrue(v, l)
    BY <1>3, <2>2 DEF IsFree, IsTrue, TrueLits
  <2> HIDE DEF u
  <2> QED
    BY <2>1, <2>3 DEF ForceImplied, u
<1> HIDE DEF u, e
<1>6. /\ v \in State /\ Follows(u, v) /\ Grown(u, v)
      /\ v.trail = u.trail /\ v.decisions = u.decisions /\ v.front = u.front
      /\ v.conflict = u.conflict /\ v.bt = s.bt /\ v.root = u.root
      /\ v.implied.level = s.bt /\ v.implied.front <= Len(v.implied.lits)
      /\ Listed(v) /\ Remembered(v, l, level)
      /\ \A i \in DOMAIN v.implied.lits :
           v.implied.lits[i] = e \/ TrueBy(v, v.implied.lits[i].lit, s.bt)
  BY <1>1, <1>4, AddedFollows DEF NoAnte
<1>7. IsFree(v, l) /\ DL(v) = s.bt /\ Quiet(v)
  BY <1>1, <1>3, <1>6 DEF IsFree, IsTrue, IsFalse, TrueLits, DL, Quiet
<1> HIDE DEF v
<1>8. /\ t \in State /\ LevelsSame(v, t) /\ DL(t) = DL(v)
      /\ t.front = v.front /\ t.conflict = v.conflict /\ t.implied = v.implied
      /\ \A j \in DOMAIN t.trail : \/ j \in DOMAIN v.trail
                                   \/ j > Len(v.trail) /\ t.trail[j].level = DL(v)
      /\ Grown(v, t) /\ TrueBy(t, l, DL(v))
  BY <1>6, <1>7, ForceFree
<1> HIDE DEF t
<1>9. Follows(v, t)
  <2>1. \A i \in DOMAIN v.implied.lits : \E j \in DOMAIN t.implied.lits :
          t.implied.lits[j] = v.implied.lits[i]
    BY <1>8
  <2>2. v.front <= Len(v.trail) /\ DL(v) <= DL(t) /\ ~v.conflict.has
    BY <1>0, <1>6, <1>7, <1>8, Typed DEF Quiet
  <2> QED
    BY <1>6, <1>8, <2>1, <2>2, GrownFollows
<1>10. Held(t)
  <2>1. \A k, n : TrueBy(v, k, n) => TrueBy(t, k, n)
    BY <1>8, GrownTrue
  <2>2. \A i \in DOMAIN t.implied.lits : TrueBy(t, t.implied.lits[i].lit, s.bt)
    BY <1>4, <1>6, <1>7, <1>8, <2>1
  <2> QED
    BY <1>6, <1>8, <2>2 DEF Held
<1>11. QueueTop(t)
  <2>1. DOMAIN v.trail = 1..Len(v.trail) /\ Len(v.trail) \in Nat
    BY <1>6, Typed
  <2> QED
    BY <1>7, <1>8, <2>1 DEF QueueTop, Quiet
<1>12. Ordered(t)
  <2>1. t.bt = s.bt /\ t.root = s.root /\ t.bt = t.root
    BY <1>1, <1>6, <1>8 DEF LevelsSame, Ordered
  <2>2. Listed(t)
    BY <1>6, <1>8 DEF Listed
  <2> QED
    BY <1>0, <1>6, <1>8, <1>10, <1>11, <2>1, <2>2 DEF Ordered
<1>13. Follows(s, t)
  BY <1>1, <1>6, <1>9, FollowsTrans
<1>14. Grown(s, t)
  BY <1>2, <1>6, <1>8 DEF Grown
<1>15. ~t.conflict.has /\ TrueBy(t, l, DL(t)) /\ Remembered(t, l, level)
  BY <1>6, <1>7, <1>8 DEF Quiet, Remembered
<1> QED
  BY <1>5, <1>12, <1>13, <1>14, <1>15 DEF AssertedAt, Answered

(* The clause Learn creates: it asserts its first literal, and is settled. *)
Asserting(s, R, u, tail) ==
  /\ tail \in SUBSET Lit /\ AllFalse(s, tail)
  /\ u \in Lit /\ AtLevel(s, u, DL(s)) /\ {-u} \cup tail \in R
LearntFits(s, u, tail, l1) ==
  LET t == Learnt(s, u, tail, l1)
      c == {-u} \cup tail
  IN /\ Follows(s, t) /\ Ordered(t) /\ ~t.conflict.has /\ ~Subsumed(JumpedBack(s, l1), -u)
     /\ tail # {} => ShortOk(t, c) /\ WatchOk(t, c, {-u, l1})
     /\ tail = {} => Cardinality(c) = 1

(* Where a learnt clause is asserted: the solver has jumped back, and the  *)
(* first literal is free there and forced at a level not above.            *)
Lands(s, u, tail, l1, level) ==
  LET back == JumpedBack(s, l1)
  IN /\ \E n \in Nat : back = Reset(s, n)
     /\ Good(back) /\ TrailShape(back) /\ Follows(s, back) /\ Ordered(back) /\ Quiet(back)
     /\ DL(back) < DL(s) /\ IsFree(back, -u) /\ ~Subsumed(back, -u)
     /\ level <= DL(back) /\ (level < DL(back) => level > 0 /\ DL(back) = back.bt)
     /\ Learnt(s, u, tail, l1) = ForceAtLevel(back, -u, level, {-u} \cup tail)
     /\ IF tail = {} THEN level = DL(back) ELSE l1 \in tail /\ l1 # -u /\ AtLevel(back, -l1, level)

LEMMA LearntLands ==
  ASSUME NEW R, NEW s, Good(s), Core(s, R), Ordered(s), s.bt < DL(s),
         NEW u, NEW tail, Asserting(s, R, u, tail), NEW l1 \in Second(s, tail)
  PROVE  \E level \in Nat : Lands(s, u, tail, l1, level)
<1> USE DEF Asserting
<1> DEFINE l0 == -u
           c == {l0} \cup tail
           level == IF l1 = 0 THEN 0 ELSE LevelOf(s, l1)
           back == UndoUntil(s, level)
           target == MaxOf(level, s.bt)
           t == Created(back, c, l0, l1)
<1>1. /\ s \in State /\ TrailShape(s) /\ s.bt \in Nat /\ DL(s) \in Nat /\ l0 \in Lit /\ c \in SUBSET Lit
      /\ c \in R /\ -l0 = u /\ Reasoned(s, R)
  BY Typed, LitFacts, Complements DEF Good, Core, TrailOk
<1> HIDE DEF l0
<1>3. \A k \in tail : /\ AtLevel(s, -k, LevelOf(s, k)) /\ LevelOf(s, k) \in 1..(DL(s) - 1)
                      /\ k # l0
  <2> SUFFICES ASSUME NEW k \in tail
               PROVE  /\ AtLevel(s, -k, LevelOf(s, k)) /\ LevelOf(s, k) \in 1..(DL(s) - 1)
                      /\ k # l0
    OBVIOUS
  <2>1. PICK n \in 1..(DL(s) - 1) : AtLevel(s, -k, n)
    BY DEF AllFalse
  <2>2. LevelOf(s, k) = n
    BY <1>1, <2>1, TrueAt
  <2>3. n # DL(s)
    BY <1>1
  <2>4. -k # u
    BY <1>1, <2>1, <2>3, SameVar
  <2> QED
    BY <1>1, <2>1, <2>2, <2>4
<1>4. \/ tail = {} /\ l1 = 0 /\ level = 0
      \/ /\ l1 \in tail /\ l1 # 0 /\ l1 # l0 /\ level \in 1..(DL(s) - 1) /\ AtLevel(s, -l1, level)
         /\ \A k \in tail : LevelOf(s, k) <= level
  <2>1. CASE tail = {}
    BY <2>1 DEF Second
  <2>2. CASE tail # {}
    <3>1. l1 \in tail /\ \A k \in tail : LevelOf(s, k) <= LevelOf(s, l1)
      BY <2>2 DEF Second
    <3>2. l1 # 0
      BY <3>1, LitFacts
    <3> QED
      BY <1>3, <3>1, <3>2
  <2> QED
    BY <2>1, <2>2
<1> HIDE DEF level
<1>5. level \in Nat /\ level < DL(s) /\ target \in Nat /\ level <= target /\ s.bt <= target /\ target < DL(s)
      /\ MinOf(DL(s), target) = target /\ (target = level \/ target = s.bt)
  BY <1>1, <1>4 DEF MaxOf, MinOf
<1>6. /\ Good(back) /\ Follows(s, back) /\ Ordered(back) /\ Quiet(back)
      /\ back.bt = s.bt /\ DL(back) = target /\ Cut(s, back, target)
      /\ \A i \in DOMAIN back.trail : back.trail[i].level <= target
      /\ \E n \in Nat : back = Reset(s, n)
  <2>1. Lossless(s, MaxOf(level, s.bt))
    BY <1>1, <1>5 DEF Lossless
  <2>2. /\ back = Reset(s, level) /\ Good(back) /\ Follows(s, back) /\ Ordered(back) /\ Quiet(back)
        /\ back.bt = s.bt /\ DL(back) = target /\ Cut(s, back, target)
    BY <1>1, <1>5, <2>1, UndoQuiet
  <2>3. \A i \in DOMAIN Reset(s, level).trail : Reset(s, level).trail[i].level <= DL(Reset(s, level))
    BY <1>1, <1>5, ResetFacts
  <2>4. \E n \in Nat : back = Reset(s, n)
    BY <1>5, <2>2
  <2> HIDE DEF back, target
  <2> QED
    BY <2>2, <2>3, <2>4
<1> HIDE DEF target, back
<1>7. back \in State
  BY <1>6 DEF Good
<1>8. TrailShape(back)
  BY <1>1, <1>5, <1>6, <1>7, CutTrail
<1>9. IsFree(back, l0)
  <2> SUFFICES ASSUME NEW i \in DOMAIN back.trail, Var(back.trail[i].lit) = Var(u) PROVE FALSE
    <3>1. Var(l0) = Var(u) /\ Var(-l0) = Var(u)
      BY <1>1, Complements DEF l0
    <3> QED
      BY <3>1 DEF IsFree, IsTrue, IsFalse, TrueLits
  <2>1. i \in DOMAIN s.trail /\ s.trail[i] = back.trail[i]
    BY <1>6 DEF Cut
  <2>2. PICK j \in DOMAIN s.trail : s.trail[j].lit = u /\ s.trail[j].level = DL(s)
    BY DEF AtLevel
  <2>3. i = j
    BY <1>1, <2>1, <2>2 DEF TrailShape
  <2>4. back.trail[i].level <= target /\ back.trail[i].level = DL(s)
    BY <1>6, <2>1, <2>2, <2>3
  <2> QED
    BY <1>1, <1>5, <2>4
<1>10. ~Subsumed(back, l0) /\ ~IsTrue(back, l0) /\ ~IsFalse(back, l0)
  BY <1>9 DEF Subsumed, IsFree
<1>11. DL(back) \in Nat /\ DL(back) < DL(s) /\ level <= DL(back)
  BY <1>5, <1>6
<1>12. CASE tail = {}
  <2>1. c = {l0} /\ Cardinality(c) = 1
    BY <1>12, FS_Singleton
  <2>2. t = ForceLit(back, l0, c)
    BY <1>10, <2>1 DEF Created, AddUnit
  <2>3. t = ForceAtLevel(back, l0, DL(back), c)
    BY <2>2 DEF ForceAtLevel
  <2> HIDE DEF t, c
  <2>4. Lands(s, u, tail, l1, DL(back))
    BY <1>6, <1>8, <1>9, <1>10, <1>11, <1>12, <2>3
       DEF Lands, Learnt, JumpedBack, back, level, t, c, l0
  <2> QED
    BY <1>11, <2>4
<1>13. CASE tail # {}
  <2>1. /\ l1 \in tail /\ l1 # 0 /\ l1 # l0 /\ level \in 1..(DL(s) - 1) /\ AtLevel(s, -l1, level)
        /\ \A k \in tail : LevelOf(s, k) <= level
    BY <1>4, <1>13
  <2>2. Cardinality(c) # 1
    <3>1. IsFiniteSet(c)
      BY <1>1, LitFinite, FS_Subset
    <3>2. ASSUME Cardinality(c) = 1 PROVE FALSE
      <4>1. Cardinality(c) <= 1
        BY <3>2
      <4>2. c = {l0}
        BY <3>1, <4>1, SingleElement
      <4> QED
        BY <2>1, <4>2
    <3> QED
      BY <3>2
  <2>3. AtLevel(back, -l1, level)
    <3>1. PICK j \in DOMAIN s.trail : s.trail[j].lit = -l1 /\ s.trail[j].level = level
      BY <2>1 DEF AtLevel
    <3>2. j \in DOMAIN back.trail /\ back.trail[j] = s.trail[j]
      BY <1>5, <1>6, <3>1 DEF Cut
    <3> QED
      BY <3>1, <3>2 DEF AtLevel
  <2>4. LevelOf(back, l1) = level /\ IsFalse(back, l1) /\ ~IsTrue(back, l1)
    <3>1. l1 \in Lit /\ -l1 \in Lit /\ -(-l1) = l1
      BY <2>1, Complements
    <3>2. LevelOf(back, l1) = level /\ IsFalse(back, l1)
      BY <1>7, <1>8, <2>3, <3>1, TrueAt
    <3>3. IsTrue(back, -l1) => ~IsFalse(back, -l1)
      BY <1>7, <1>8, <3>1, TrueAt
    <3> QED
      BY <3>1, <3>2, <3>3 DEF IsTrue, IsFalse
  <2> HIDE DEF c
  <2>5. t = ForceAtLevel(back, l0, level, c)
    <3>1. WatchOrder(back, l1) = level /\ WatchOrder(back, l0) = target + 1
      BY <1>6, <1>9, <2>4 DEF WatchOrder, IsFree
    <3>2. IsUnit(back, l0, l1)
      BY <1>5, <1>6, <1>10, <2>1, <3>1 DEF IsUnit, SecondOrder, FirstOrder
    <3> QED
      BY <1>10, <2>1, <2>2, <2>4, <3>2 DEF Created, Asserted, MustAssert
  <2>6. level < DL(back) => level > 0 /\ DL(back) = back.bt
    BY <1>5, <1>6, <2>1
  <2> HIDE DEF t
  <2>7. Lands(s, u, tail, l1, level)
    BY <1>6, <1>8, <1>9, <1>10, <1>11, <1>13, <2>1, <2>3, <2>5, <2>6
       DEF Lands, Learnt, JumpedBack, back, level, t, c, l0
  <2> QED
    BY <1>5, <2>7
<1> QED
  BY <1>12, <1>13

LEMMA LearntFollows ==
  ASSUME NEW R, NEW s, Good(s), Core(s, R), Ordered(s), s.bt < DL(s),
         NEW u, NEW tail, Asserting(s, R, u, tail), NEW l1 \in Second(s, tail)
  PROVE  LearntFits(s, u, tail, l1)
<1> DEFINE l0 == -u
           c == {l0} \cup tail
           back == JumpedBack(s, l1)
           t == Learnt(s, u, tail, l1)
<1>1. l0 \in Lit /\ c \in SUBSET Lit /\ c # {} /\ s \in State
  BY Complements DEF Asserting, Good
<1>2. Core(t, R) /\ t \in State
  BY CreatedCore DEF Asserting
<1>3. PICK level \in Nat : Lands(s, u, tail, l1, level)
  BY LearntLands
<1>4. /\ Good(back) /\ TrailShape(back) /\ Follows(s, back) /\ Ordered(back) /\ Quiet(back)
      /\ IsFree(back, l0) /\ ~Subsumed(back, l0)
      /\ level <= DL(back) /\ (level < DL(back) => level > 0 /\ DL(back) = back.bt)
      /\ t = ForceAtLevel(back, l0, level, c)
      /\ IF tail = {} THEN level = DL(back) ELSE l1 \in tail /\ l1 # l0 /\ AtLevel(back, -l1, level)
  BY <1>3 DEF Lands
<1> HIDE DEF t, back, c, l0
<1>5. AssertedAt(back, t, l0, level)
  <2>1. CASE level = DL(back)
    <3>1. t = ForceLit(back, l0, c)
      BY <1>4, <2>1 DEF ForceAtLevel
    <3> QED
      BY <1>1, <1>4, <2>1, <3>1, ForceHereFollows
  <2>2. CASE level # DL(back)
    <3>1. t = ForceImplied(back, l0, level, c)
      BY <1>4, <2>2 DEF ForceAtLevel
    <3>2. DL(back) \in Nat
      BY <1>4, Typed DEF Good
    <3>3. DL(back) = back.bt /\ level < DL(back) /\ level > 0
      BY <1>4, <2>2, <3>2
    <3> QED
      BY <1>1, <1>4, <3>1, <3>3, ForceBelowFollows
  <2> QED
    BY <2>1, <2>2
<1>6. /\ Follows(back, t) /\ Ordered(t) /\ ~t.conflict.has /\ Grown(back, t)
      /\ TrueBy(t, l0, DL(t)) /\ Answered(t, l0, level) /\ Follows(s, t)
  BY <1>4, <1>5, FollowsTrans DEF AssertedAt
<1>7. CASE tail = {}
  <2>1. Cardinality(c) = 1
    BY <1>7, FS_Singleton DEF c
  <2> QED
    BY <1>4, <1>6, <1>7, <2>1 DEF t, c, back, l0, LearntFits
<1>8. CASE tail # {}
  <2>1. TrailShape(t) /\ \A i \in DOMAIN t.trail : t.trail[i].level \in Nat /\ t.trail[i].lit \in Lit
    BY <1>2, Typed DEF Core, TrailOk
  <2>2. \A n : ~Done(t, -l0, n)
    <3> SUFFICES ASSUME NEW n, NEW j \in DOMAIN t.trail, t.trail[j].lit = -l0 PROVE FALSE
      BY DEF Done
    <3>1. PICK i \in DOMAIN t.trail : t.trail[i].lit = l0
      BY <1>6 DEF TrueBy
    <3>2. Var(-l0) = Var(l0) /\ l0 # -l0
      BY <1>1, Complements
    <3> QED
      BY <2>1, <3>1, <3>2 DEF TrailShape
  <2>3. ASSUME NEW n \in Nat, Done(t, -l1, n) PROVE Answered(t, l0, n)
    <3>1. PICK j \in DOMAIN t.trail : t.trail[j].lit = -l1 /\ t.trail[j].level <= n
      BY <2>3 DEF Done
    <3>2. PICK i \in DOMAIN t.trail : t.trail[i].lit = -l1 /\ t.trail[i].level = level
      BY <1>4, <1>8, <1>6 DEF Grown, AtLevel
    <3>3. i = j
      BY <2>1, <3>1, <3>2 DEF TrailShape
    <3>4. level <= n
      BY <3>1, <3>2, <3>3
    <3>5. CASE TrueBy(t, l0, level)
      <4>1. PICK k \in DOMAIN t.trail : t.trail[k].lit = l0 /\ t.trail[k].level <= level
        BY <3>5 DEF TrueBy
      <4>2. t.trail[k].level <= n
        BY <2>1, <3>4, <4>1
      <4> QED
        BY <4>1, <4>2 DEF Answered, TrueBy
    <3>6. CASE Remembered(t, l0, level)
      <4>1. PICK k \in DOMAIN t.implied.lits :
              t.implied.lits[k].lit = l0 /\ t.implied.lits[k].level <= level
        BY <3>6 DEF Remembered
      <4>2. t.implied.lits[k].level \in Nat
        BY <1>2, Typed
      <4>3. t.implied.lits[k].level <= n
        BY <3>4, <4>1, <4>2
      <4> QED
        BY <4>1, <4>3 DEF Answered, Remembered
    <3> QED
      BY <1>6, <3>5, <3>6 DEF Answered
  <2>4. ShortOk(t, c)
    <3> SUFFICES ASSUME NEW x \in c, NEW n \in Nat, \A y \in c \ {x} : Done(t, -y, n)
                 PROVE  Answered(t, x, n)
      BY DEF ShortOk
    <3>1. x = l0
      BY <2>2 DEF c
    <3>2. Done(t, -l1, n)
      BY <1>4, <1>8, <3>1 DEF c
    <3> QED
      BY <2>3, <3>1, <3>2
  <2>5. WatchOk(t, c, {l0, l1})
    <3> SUFFICES ASSUME NEW w \in {l0, l1}, NEW n \in Nat, Done(t, -w, n)
                 PROVE  \E x \in c : Answered(t, x, n)
      BY DEF WatchOk
    <3>1. w = l1
      BY <2>2
    <3> QED
      BY <2>3, <3>1 DEF c
  <2> QED
    BY <1>4, <1>6, <1>8, <2>4, <2>5 DEF t, c, back, l0, LearntFits
<1> QED
  BY <1>7, <1>8

LEMMA ForceFollows ==
  ASSUME NEW s \in State, Ordered(s), s.front <= Len(s.trail), ~s.conflict.has,
         NEW l \in Lit, NEW ante \in SUBSET Lit
  PROVE  LET t == ForceLit(s, l, ante)
         IN Follows(s, t) /\ Ordered(t) /\ t.stop = s.stop
<1> DEFINE t == ForceLit(s, l, ante)
<1>0. /\ DOMAIN s.trail = 1..Len(s.trail) /\ Len(s.trail) \in Nat /\ DL(s) \in Nat
  BY Typed
<1>1. /\ t \in State /\ LevelsSame(s, t)
      /\ \A j \in DOMAIN t.trail : j \in DOMAIN s.trail \/ t.trail[j].level = DL(s)
      /\ \A j \in DOMAIN s.trail : j \in DOMAIN t.trail /\ t.trail[j] = s.trail[j]
  BY ForceSeen
<1>2. t.front = s.front /\ t.implied = s.implied
  BY DEF ForceLit, SetConflict, State
<1> HIDE DEF t
<1>3. DL(t) = DL(s) /\ t.bt = s.bt /\ t.root = s.root /\ t.stop = s.stop
  BY <1>1 DEF LevelsSame, DL
<1>4. \A j \in DOMAIN t.trail : j \in DOMAIN s.trail \/ j > Len(s.trail)
  BY <1>0, <1>1, Typed
<1>5. Grown(s, t)
  BY <1>1 DEF Grown
<1>6. Follows(s, t)
  <2>1. \A i \in DOMAIN s.implied.lits : \E j \in DOMAIN t.implied.lits :
          t.implied.lits[j] = s.implied.lits[i]
    BY <1>2
  <2>2. DL(s) <= DL(t)
    BY <1>0, <1>3
  <2> QED
    BY <1>1, <1>2, <1>3, <1>4, <1>5, <2>1, <2>2, GrownFollows
<1>7. Ordered(t)
  BY <1>1, <1>2, <1>3, <1>5, GrownOrdered
<1> QED
  BY <1>3, <1>6, <1>7 DEF t

(***************************************************************************)
(* The invariant of a solver that works alone.                             *)
(***************************************************************************)
PropOk(s, C, W) == Ordered(Base(s)) /\ Closure(Base(s), C, W)
Propagated ==
  /\ PropOk(sol, imps, watches)
  /\ Busy => sol.conflict.has
  /\ \A c \in imps : Cardinality(c) \in {2, 3}

LEMMA StepFollows ==
  ASSUME Propagated, Follows(Base(sol), Base(sol')), Ordered(Base(sol')),
         imps' = imps, watches' = watches, Busy' => sol'.conflict.has
  PROVE  Propagated'
<1>1. Closure(Base(sol'), imps, watches)
  BY FollowsClosure DEF Propagated, PropOk
<1> QED
  BY <1>1 DEF Propagated, PropOk

LEMMA StepSame ==
  ASSUME Propagated, sol' = sol, imps' = imps, watches' = watches, Busy' => sol.conflict.has
  PROVE  Propagated'
BY DEF Propagated, PropOk

(* Without a stop conflict the state is its own base.                      *)
LEMMA PlainProp ==
  ASSUME TypeOK, LevelInv, Sound, Propagated, ~sol.stop.set
  PROVE  /\ Base(sol) = sol /\ Ordered(sol) /\ Closure(sol, imps, watches)
         /\ sol \in State /\ Good(sol) /\ Core(sol, Sure) /\ TrailShape(sol)
<1>1. Good(sol) /\ sol \in State
  BY GoodSol DEF Good
<1>2. Base(sol) = sol
  BY <1>1, BaseFacts
<1>3. Core(sol, Sure)
  BY <1>1, PlainCore DEF Sound, SolverInv
<1> QED
  BY <1>1, <1>2, <1>3 DEF Propagated, PropOk, Core, TrailOk

LEMMA NotStopped ==
  ASSUME TypeOK, Sound, ~Busy, ~sol.conflict.has
  PROVE  ~sol.stop.set
BY DEF Sound, SolverInv, SolverOk

(* A step that leaves no stop conflict.                                    *)
LEMMA PlainStep ==
  ASSUME TypeOK, LevelInv, Sound, Propagated, ~sol.stop.set, sol' \in State, ~sol'.stop.set,
         Follows(sol, sol'), Ordered(sol'), imps' = imps, watches' = watches,
         Busy' => sol'.conflict.has
  PROVE  Propagated'
<1>1. Base(sol) = sol /\ Base(sol') = sol'
  BY PlainProp, BaseFacts
<1> QED
  BY <1>1, StepFollows

LEMMA ForceStep ==
  ASSUME TypeOK, LevelInv, Sound, Propagated, ~Busy, ~sol.conflict.has, sol.front <= Len(sol.trail),
         NEW l \in Lit, NEW c \in SUBSET Lit, sol' = ForceLit(sol, l, c),
         imps' = imps, watches' = watches, ~Busy'
  PROVE  Propagated'
<1>1. ~sol.stop.set
  BY NotStopped
<1>2. sol \in State /\ Ordered(sol)
  BY <1>1, PlainProp
<1>3. Follows(sol, sol') /\ Ordered(sol') /\ sol'.stop = sol.stop
  BY <1>2, ForceFollows
<1>4. sol' \in State
  BY <1>2, ForceType
<1> QED
  BY <1>1, <1>3, <1>4, PlainStep

(* What is taken from the queue has been looked up in all clauses.         *)
LEMMA DequeueSettles ==
  ASSUME TypeOK, LevelInv, Sound, Propagated, Dequeue
  PROVE  Propagated'
<1>1. /\ Propagating /\ ShortPending = {} /\ WatchPending = {} /\ imps' = imps /\ watches' = watches
      /\ sol' = [sol EXCEPT !.front = sol.front + 1] /\ pc = "prop" /\ pc' = "prop" /\ ~sol.conflict.has
  BY DEF Dequeue, db, Propagating
<1>2. ~Busy /\ ~Busy'
  BY <1>1 DEF Busy
<1>3. ~sol.stop.set
  BY <1>1, <1>2, NotStopped
<1>4. /\ Base(sol) = sol /\ Ordered(sol) /\ Closure(sol, imps, watches) /\ sol \in State /\ TrailShape(sol)
  BY <1>3, PlainProp
<1>5. /\ QHead \in Lit /\ -(-QHead) = QHead /\ sol.front + 1 \in DOMAIN sol.trail
      /\ sol.front \in Nat /\ DL(sol) \in Nat
  BY <1>1, <1>4, HeadOfQueue, Typed
<1>6. /\ sol' \in State /\ sol'.trail = sol.trail /\ sol'.decisions = sol.decisions
      /\ sol'.implied = sol.implied /\ sol'.root = sol.root /\ sol'.bt = sol.bt
      /\ sol'.conflict = sol.conflict /\ sol'.stop = sol.stop /\ sol'.front = sol.front + 1
      /\ DL(sol') = DL(sol)
  <2>1. sol.front + 1 \in Nat
    BY <1>5
  <2>2. /\ sol' \in State /\ sol'.trail = sol.trail /\ sol'.decisions = sol.decisions
        /\ sol'.implied = sol.implied /\ sol'.root = sol.root /\ sol'.bt = sol.bt
        /\ sol'.conflict = sol.conflict /\ sol'.stop = sol.stop /\ sol'.front = sol.front + 1
    BY <1>1, <1>4, <2>1 DEF State
  <2> QED
    BY <2>2 DEF DL
<1>7. Base(sol') = sol'
  BY <1>3, <1>6, BaseFacts
<1>8. /\ sol.trail[sol.front + 1].lit = QHead /\ sol.trail[sol.front + 1].level = DL(sol)
      /\ \A i \in DOMAIN sol.trail : sol.trail[i].level <= DL(sol) /\ sol.trail[i].level \in Nat
                                     /\ sol.trail[i].lit \in Lit
  BY <1>4, <1>5, Typed DEF QHead, Ordered, QueueTop, TrailShape
<1>9. Ordered(sol')
  <2>1. QueueTop(sol')
    <3>1. ASSUME NEW i \in DOMAIN sol.trail, i > sol.front + 1 PROVE i > sol.front
      BY <1>4, <1>5, <3>1, Typed
    <3> QED
      BY <1>4, <1>6, <3>1 DEF Ordered, QueueTop
  <2>2. Held(sol') /\ Listed(sol')
    BY <1>4, <1>6 DEF Ordered, Held, TrueBy, Listed
  <2> QED
    BY <1>4, <1>6, <2>1, <2>2 DEF Ordered
<1>10. \A l, n : Done(sol', l, n) => Done(sol, l, n) \/ (l = QHead /\ DL(sol) <= n)
  <2> SUFFICES ASSUME NEW l, NEW n, NEW j \in DOMAIN sol.trail, sol.trail[j].lit = l,
                      sol.trail[j].level <= n, j <= sol.front + 1
               PROVE  Done(sol, l, n) \/ (l = QHead /\ DL(sol) <= n)
    BY <1>6 DEF Done
  <2>1. j <= sol.front \/ j = sol.front + 1
    BY <1>4, <1>5, Typed
  <2> QED
    BY <1>8, <2>1 DEF Done
<1>11. \A l, n : Answered(sol', l, n) <=> Answered(sol, l, n)
  BY <1>6 DEF Answered, TrueBy, Remembered
<1>12. \A n \in Nat : Settled(sol, n)
  BY <1>1 DEF Settled
<1>13. \A l : \A n \in Nat : DL(sol) <= n /\ IsTrue(sol, l) => Answered(sol, l, n)
  <2> SUFFICES ASSUME NEW n \in Nat, DL(sol) <= n, NEW i \in DOMAIN sol.trail
               PROVE  Answered(sol, sol.trail[i].lit, n)
    BY DEF IsTrue, TrueLits
  <2>1. sol.trail[i].level <= n
    BY <1>5, <1>8
  <2> QED
    BY <2>1 DEF Answered, TrueBy
<1>14. ASSUME NEW c \in imps PROVE ShortOk(sol', c)
  <2> SUFFICES ASSUME NEW x \in c, NEW n \in Nat, \A y \in c \ {x} : Done(sol', -y, n)
               PROVE  Answered(sol, x, n)
    BY <1>11 DEF ShortOk
  <2>1. c \in SUBSET Lit
    BY DEF TypeOK
  <2>2. CASE \A y \in c \ {x} : Done(sol, -y, n)
    BY <1>4, <1>12, <2>2 DEF Closure, ShortOk
  <2>3. CASE \E y \in c \ {x} : ~Done(sol, -y, n)
    <3>1. PICK y \in c \ {x} : ~Done(sol, -y, n)
      BY <2>3
    <3>2. -y = QHead /\ DL(sol) <= n
      BY <1>10, <3>1
    <3>3. -QHead = y
      BY <2>1, <3>1, <3>2, Complements
    <3>4. ~Forcing(c)
      BY <1>1, <3>1, <3>3 DEF ShortPending
    <3>5. \A z \in c \ {x} : IsFalse(sol, z)
      BY <1>6 DEF Done, IsFalse, TrueLits
    <3>6. NotFalse(c) \subseteq {x}
      BY <3>5 DEF NotFalse
    <3>7. Cardinality(NotFalse(c)) <= 1
      <4>1. IsFiniteSet({x}) /\ Cardinality({x}) = 1
        BY FS_Singleton
      <4>2. Cardinality(NotFalse(c)) <= Cardinality({x})
        BY <3>6, <4>1, FS_Subset
      <4> QED
        BY <4>1, <4>2
    <3>8. PICK z \in c : IsTrue(sol, z)
      BY <3>4, <3>7 DEF Forcing, Satisfied
    <3>9. z = x
      <4>1. z \in Lit
        BY <2>1
      <4>2. ~IsFalse(sol, z)
        BY <1>4, <3>8, <4>1, TrueAt
      <4> QED
        BY <3>5, <4>2
    <3> QED
      BY <1>13, <3>2, <3>8, <3>9
  <2> QED
    BY <2>2, <2>3
<1>15. ASSUME NEW c \in Explicit PROVE WatchOk(sol', c, watches[c])
  <2> SUFFICES ASSUME NEW w \in watches[c], NEW n \in Nat, Done(sol', -w, n)
               PROVE  \E x \in c : Answered(sol, x, n)
    BY <1>11 DEF WatchOk
  <2>1. CASE Done(sol, -w, n)
    BY <1>4, <1>12, <2>1 DEF Closure, WatchOk, Explicit
  <2>2. CASE ~Done(sol, -w, n)
    <3>1. -w = QHead /\ DL(sol) <= n
      BY <1>10, <2>2
    <3>2. w \in Lit
      <4>1. watches[c] \in SUBSET Lit
        BY DEF TypeOK
      <4> QED
        BY <4>1
    <3>3. -QHead = w
      BY <3>1, <3>2, Complements
    <3>4. Satisfied(c)
      BY <1>1, <3>3 DEF WatchPending
    <3> QED
      BY <1>13, <3>1, <3>4 DEF Satisfied
  <2> QED
    BY <2>1, <2>2
<1>16. Closure(sol', imps, watches)
  BY <1>14, <1>15 DEF Closure, Explicit
<1> QED
  BY <1>1, <1>2, <1>7, <1>9, <1>16 DEF Propagated, PropOk

(* A new watch is not false, and stays so until it is settled.             *)
LEMMA MoveWatchSettles ==
  ASSUME TypeOK, LevelInv, Sound, Propagated, MoveWatch
  PROVE  Propagated'
<1>1. /\ Propagating /\ imps' = imps /\ sol' = sol /\ pc' = "prop" /\ pc = "prop" /\ ~sol.conflict.has
  BY DEF MoveWatch, Propagating
<1>2. ~Busy /\ ~Busy'
  BY <1>1 DEF Busy
<1>3. ~sol.stop.set
  BY <1>1, <1>2, NotStopped
<1>4. /\ Base(sol) = sol /\ Ordered(sol) /\ Closure(sol, imps, watches)
  BY <1>3, PlainProp
<1>5. PICK c \in WatchPending : \E l \in NotFalse(c) \ watches[c] :
        watches' = [watches EXCEPT ![c] = (@ \ {-QHead}) \cup {l}]
  BY DEF MoveWatch
<1>6. PICK l \in NotFalse(c) \ watches[c] :
        watches' = [watches EXCEPT ![c] = (@ \ {-QHead}) \cup {l}]
  BY <1>5
<1>7. c \in Explicit /\ ~IsFalse(sol, l)
  BY DEF WatchPending, NotFalse
<1>8. \A d \in Explicit : WatchOk(sol, d, watches[d])
  BY <1>4 DEF Closure, Explicit
<1>9. ASSUME NEW w \in (watches[c] \ {-QHead}) \cup {l}, NEW n \in Nat, Done(sol, -w, n)
      PROVE  \E t \in c : Answered(sol, t, n)
  <2>1. w # l
    BY <1>7, <1>9 DEF Done, IsFalse, TrueLits
  <2>2. Settled(sol, n)
    BY <1>1 DEF Settled
  <2> QED
    BY <1>7, <1>8, <1>9, <2>1, <2>2 DEF WatchOk
<1>10. WatchOk(sol, c, (watches[c] \ {-QHead}) \cup {l})
  BY <1>9 DEF WatchOk
<1>11. /\ DOMAIN watches' = Explicit
       /\ \A d \in Explicit : watches'[d] = IF d = c THEN (watches[c] \ {-QHead}) \cup {l} ELSE watches[d]
  BY <1>6, <1>7 DEF Explicit
<1>12. \A d \in DOMAIN watches' : WatchOk(sol, d, watches'[d])
  BY <1>8, <1>10, <1>11
<1>13. Closure(sol, imps, watches')
  BY <1>4, <1>12 DEF Closure
<1> QED
  BY <1>1, <1>2, <1>4, <1>13 DEF Propagated, PropOk

(* The conflict leaves nothing on the queue that belongs below its level.  *)
LEMMA PropagateReturnsSettles ==
  ASSUME TypeOK, LevelInv, Sound, Propagated, PropagateReturns
  PROVE  Propagated'
<1>1. /\ imps' = imps /\ watches' = watches /\ sol' = [sol EXCEPT !.front = Len(sol.trail)]
      /\ pc' \in {ret.ok, ret.fail} /\ (sol.conflict.has \/ QueueEmpty)
  BY DEF PropagateReturns, db
<1>2. ~Busy'
  <2>1. ControlInv
    BY DEF Sound
  <2> QED
    BY <1>1, <2>1 DEF ControlInv, Busy
<1>3. /\ sol \in State /\ Len(sol.trail) \in Nat /\ DOMAIN sol.trail = 1..Len(sol.trail) /\ DL(sol) \in Nat
      /\ sol.front \in Nat
  BY Typed DEF TypeOK
<1>4. /\ sol' \in State /\ sol'.trail = sol.trail /\ sol'.decisions = sol.decisions
      /\ sol'.implied = sol.implied /\ sol'.root = sol.root /\ sol'.bt = sol.bt
      /\ sol'.conflict = sol.conflict /\ sol'.stop = sol.stop /\ sol'.front = Len(sol.trail)
  BY <1>1, <1>3 DEF State
<1>5. CASE sol.stop.set
  <2>1. Base(sol') = Base(sol)
    BY <1>1, <1>3, <1>4, <1>5 DEF Base, ClearStopConflict, State
  <2> QED
    BY <1>1, <1>2, <2>1 DEF Propagated, PropOk
<1>6. CASE ~sol.stop.set
  <2>1. Ordered(sol) /\ TrailShape(sol)
    BY <1>6, PlainProp
  <2>2. DL(sol') = DL(sol)
    BY <1>4 DEF DL
  <2>3. Ordered(sol')
    BY <1>3, <1>4, <2>1, <2>2 DEF Ordered, QueueTop, Listed, Held, TrueBy
  <2>4. Follows(sol, sol')
    <3>1. ASSUME NEW n \in Nat, Settled(sol', n), NEW l, Done(sol', l, n)
          PROVE  Done(sol, l, n)
      <4>1. PICK j \in DOMAIN sol.trail : sol.trail[j].lit = l /\ sol.trail[j].level <= n
        BY <1>4, <3>1 DEF Done
      <4>2. CASE sol.conflict.has
        <5>1. n < DL(sol)
          BY <1>4, <2>2, <3>1, <4>2 DEF Settled
        <5>2. ~(j > sol.front)
          BY <1>3, <2>1, <4>1, <5>1 DEF Ordered, QueueTop
        <5> QED
          BY <1>3, <4>1, <5>2 DEF Done
      <4>3. CASE ~sol.conflict.has
        BY <1>1, <1>3, <4>1, <4>3 DEF Done, QueueEmpty
      <4> QED
        BY <4>2, <4>3
    <3>2. \A n \in Nat : Settled(sol', n) => Settled(sol, n)
      BY <1>4, <2>2 DEF Settled
    <3>3. \A n, l : Answered(sol, l, n) => Answered(sol', l, n)
      BY <1>4 DEF Answered, TrueBy, Remembered
    <3> QED
      BY <3>1, <3>2, <3>3 DEF Follows
  <2> QED
    BY <1>1, <1>2, <1>4, <1>6, <2>3, <2>4, PlainStep
<1> QED
  BY <1>5, <1>6

LEMMA PropagationSettles ==
  ASSUME TypeOK, LevelInv, Sound, Propagated, Propagation
  PROVE  Propagated'
<1>1. ASSUME Propagating, imps' = imps, watches' = watches, pc' = pc,
             NEW c \in Clauses, NEW l \in c, sol' = ForceLit(sol, l, c)
      PROVE  Propagated'
  <2>1. ~Busy /\ ~Busy' /\ ~sol.conflict.has
    BY <1>1 DEF Propagating, Busy
  <2>2. sol.front <= Len(sol.trail)
    BY <2>1, PlainSol DEF QueueOk
  <2>3. c \in SUBSET Lit /\ l \in Lit
    BY DEF TypeOK, Clauses
  <2> QED
    BY <1>1, <2>1, <2>2, <2>3, ForceStep
<1>2. CASE ForceByShort
  <2>1. PICK c \in ShortPending : \E l \in Forced(c, c \ {-QHead}) : sol' = ForceLit(sol, l, c)
    BY <1>2 DEF ForceByShort
  <2>2. PICK l \in Forced(c, c \ {-QHead}) : sol' = ForceLit(sol, l, c)
    BY <2>1
  <2>3. c \in Clauses /\ l \in c
    BY DEF ShortPending, Clauses, Forced, NotFalse
  <2> QED
    BY <1>1, <1>2, <2>2, <2>3 DEF ForceByShort, db
<1>3. CASE ForceByWatch
  <2>1. PICK c \in WatchPending : \E l \in watches[c] \ {-QHead} : sol' = ForceLit(sol, l, c)
    BY <1>3 DEF ForceByWatch
  <2>2. PICK l \in watches[c] \ {-QHead} : sol' = ForceLit(sol, l, c)
    BY <2>1
  <2>3. c \in Clauses /\ c \in Explicit
    BY DEF WatchPending, Clauses
  <2>4. l \in c
    BY <2>3 DEF Sound, WatchInv, Watched
  <2> QED
    BY <1>1, <1>3, <2>2, <2>3, <2>4 DEF ForceByWatch, db
<1> QED
  BY <1>2, <1>3, DequeueSettles, MoveWatchSettles, PropagateReturnsSettles DEF Propagation

(***************************************************************************)
(* Simplification, decisions and backtracking.                             *)
(***************************************************************************)
(* A clause that simplification shortens has only free literals left.      *)
LEMMA SimplifiedSettles ==
  ASSUME NEW s, NEW C, NEW W, Closure(s, C, W), \A c \in C : Cardinality(c) \in {2, 3}
  PROVE  Closure(s, Simplified(C, s), W) /\ \A c \in Simplified(C, s) : Cardinality(c) \in {2, 3}
<1>1. ASSUME NEW d \in Simplified(C, s)
      PROVE  ShortOk(s, d) /\ Cardinality(d) \in {2, 3}
  <2>1. d \in C \/ (Cardinality(d) = 2 /\ d \subseteq FreeLits(s))
    BY DEF Simplified
  <2>2. CASE d \in C
    BY <2>2 DEF Closure
  <2>3. CASE Cardinality(d) = 2 /\ d \subseteq FreeLits(s)
    <3>1. ASSUME NEW x \in d PROVE \E y \in d \ {x} : IsFree(s, y)
      <4>1. Cardinality({x}) = 1
        BY FS_Singleton
      <4>2. d # {x}
        BY <2>3, <4>1
      <4> QED
        BY <2>3, <3>1, <4>2 DEF FreeLits
    <3>2. \A y, n : IsFree(s, y) => ~Done(s, -y, n)
      BY DEF IsFree, IsFalse, TrueLits, Done
    <3> QED
      BY <2>3, <3>1, <3>2 DEF ShortOk
  <2> QED
    BY <2>1, <2>2, <2>3
<1> QED
  BY <1>1 DEF Closure

LEMMA SimplifySettles ==
  ASSUME TypeOK, LevelInv, Sound, Propagated, ~Busy, ~Busy', ~sol.conflict.has,
         sol' = sol, imps' \in {imps, Simplified(imps, sol)}, watches' = watches
  PROVE  Propagated'
<1>1. Base(sol) = sol /\ Ordered(sol) /\ Closure(sol, imps, watches)
  BY NotStopped, PlainProp
<1>2. Closure(sol, imps', watches) /\ \A c \in imps' : Cardinality(c) \in {2, 3}
  BY <1>1, SimplifiedSettles DEF Propagated
<1> QED
  BY <1>1, <1>2 DEF Propagated, PropOk

(* A decision opens a level above all that is settled.                     *)
LEMMA AssumeFollows ==
  ASSUME NEW s, Good(s), Ordered(s), Quiet(s), NEW l \in FreeLits(s)
  PROVE  LET t == Assume(s, l)
         IN /\ t \in State /\ Follows(s, t) /\ Ordered(t) /\ ~t.conflict.has /\ t.stop = s.stop
            /\ DL(t) = DL(s) + 1
<1> DEFINE u == [s EXCEPT !.decisions = Append(@, l)]
           t == ForceLit(u, l, NoAnte)
<1>0. /\ s \in State /\ DL(s) \in Nat /\ s.decisions \in Seq(Lit) /\ l \in Lit /\ IsFree(s, l)
      /\ Len(s.trail) \in Nat /\ NoAnte \in SUBSET Lit
  BY Typed DEF Good, State, FreeLits, NoAnte
<1>1. Assume(s, l) = t
  BY <1>0 DEF Assume, IsFree
<1>2. Append(s.decisions, l) \in Seq(Lit) /\ Len(Append(s.decisions, l)) = DL(s) + 1
  BY <1>0, AppendProperties DEF DL
<1>3. /\ u \in State /\ u.trail = s.trail /\ u.front = s.front /\ u.implied = s.implied
      /\ u.conflict = s.conflict /\ u.bt = s.bt /\ u.root = s.root /\ u.stop = s.stop
      /\ u.decisions = Append(s.decisions, l)
  BY <1>0, <1>2 DEF State
<1>4. DL(u) = DL(s) + 1 /\ IsFree(u, l)
  BY <1>0, <1>2, <1>3 DEF DL, IsFree, IsTrue, IsFalse, TrueLits
<1> HIDE DEF u
<1>5. /\ t \in State /\ LevelsSame(u, t) /\ DL(t) = DL(u)
      /\ t.front = u.front /\ t.conflict = u.conflict /\ t.implied = u.implied
      /\ \A j \in DOMAIN t.trail : \/ j \in DOMAIN u.trail
                                   \/ j > Len(u.trail) /\ t.trail[j].level = DL(u)
      /\ Grown(u, t)
  BY <1>0, <1>3, <1>4, ForceFree
<1> HIDE DEF t
<1>6. Grown(s, t) /\ \A l1, n : TrueBy(s, l1, n) => TrueBy(t, l1, n)
  <2>1. Grown(s, t)
    BY <1>3, <1>5 DEF Grown
  <2> QED
    BY <2>1, GrownTrue
<1>7. Follows(s, t)
  <2>1. \A i \in DOMAIN s.implied.lits : \E j \in DOMAIN t.implied.lits :
          t.implied.lits[j] = s.implied.lits[i]
    BY <1>3, <1>5
  <2>2. s.front <= Len(s.trail) /\ DL(s) <= DL(t) /\ ~t.conflict.has /\ ~s.conflict.has
    BY <1>0, <1>3, <1>4, <1>5 DEF Quiet
  <2>3. \A i \in DOMAIN t.trail : i \in DOMAIN s.trail \/ i > Len(s.trail)
    BY <1>3, <1>5
  <2> QED
    BY <1>0, <1>3, <1>5, <1>6, <2>1, <2>2, <2>3, GrownFollows
<1>8. QueueTop(t)
  <2>1. DOMAIN s.trail = 1..Len(s.trail)
    BY <1>0, Typed
  <2> QED
    BY <1>0, <1>3, <1>5, <2>1 DEF QueueTop, Quiet
<1>9. Held(t) /\ Listed(t)
  BY <1>3, <1>5, <1>6 DEF Ordered, Held, Listed, Quiet
<1>10. Ordered(t)
  BY <1>3, <1>5, <1>8, <1>9 DEF Ordered, LevelsSame
<1> QED
  BY <1>1, <1>3, <1>4, <1>5, <1>7, <1>10 DEF Quiet, LevelsSame

LEMMA RootFollows ==
  ASSUME NEW s, Good(s), Ordered(s), NEW n \in Nat
  PROVE  LET t == PushRootLevel(s, n)
         IN t \in State /\ Follows(s, t) /\ Ordered(t) /\ t.stop = s.stop /\ t.conflict = s.conflict
<1> DEFINE root == MinOf(DL(s), s.root + n)
           t == PushRootLevel(s, n)
<1>0. s \in State /\ DL(s) \in Nat /\ s.root \in Nat /\ s.bt \in Nat /\ s.root <= s.bt /\ s.bt <= DL(s)
      /\ s.implied.level \in Nat
  BY Typed DEF Good, Levels
<1>1. t = [s EXCEPT !.root = root, !.bt = MaxOf(s.bt, root)]
  BY DEF PushRootLevel
<1>2. root \in Nat /\ MaxOf(s.bt, root) = root /\ s.bt <= root
  BY <1>0 DEF MinOf, MaxOf, Ordered
<1> HIDE DEF root
<1>3. /\ t \in State /\ t.trail = s.trail /\ t.front = s.front /\ t.implied = s.implied
      /\ t.conflict = s.conflict /\ t.bt = root /\ t.root = root /\ t.stop = s.stop
      /\ t.decisions = s.decisions
  BY <1>0, <1>1, <1>2 DEF State
<1> HIDE DEF t
<1>4. DL(t) = DL(s)
  BY <1>3 DEF DL
<1>5. Follows(s, t)
  BY <1>3, SameFollows
<1>6. Ordered(t)
  BY <1>0, <1>2, <1>3, <1>4 DEF Ordered, QueueTop, Listed, Held, TrueBy
<1> QED
  BY <1>3, <1>5, <1>6 DEF t

LEMMA AssumeStep ==
  ASSUME TypeOK, LevelInv, Sound, Propagated, ~Busy, NothingToLose, NEW l \in FreeLits(sol),
         sol' = Assume(sol, l), imps' = imps, watches' = watches, ~Busy'
  PROVE  Propagated'
<1>1. ~sol.stop.set
  BY NotStopped DEF NothingToLose
<1>2. Good(sol) /\ Ordered(sol) /\ Quiet(sol)
  BY <1>1, PlainProp DEF NothingToLose, QueueEmpty, Quiet
<1>3. sol' \in State /\ Follows(sol, sol') /\ Ordered(sol') /\ sol'.stop = sol.stop
  BY <1>2, AssumeFollows
<1> QED
  BY <1>1, <1>3, PlainStep

LEMMA UndoStep ==
  ASSUME TypeOK, LevelInv, Sound, Propagated, ~sol.stop.set, NEW level \in Nat,
         Lossless(sol, MaxOf(level, sol.bt)), sol' = UndoUntil(sol, level),
         imps' = imps, watches' = watches, ~Busy'
  PROVE  Propagated'
<1>1. Good(sol) /\ Ordered(sol) /\ TrailShape(sol)
  BY PlainProp
<1>2. /\ Good(sol') /\ Follows(sol, sol') /\ Ordered(sol') /\ sol'.stop = sol.stop
  BY <1>1, UndoQuiet
<1> QED
  BY <1>2, PlainStep DEF Good

(* Backtracking over a conflict undoes its level.                          *)
LEMMA BacktrackUndoes ==
  ASSUME TypeOK, LevelInv, LevelInv', Sound, Propagated, BacktrackOnly
  PROVE  /\ \E level \in Nat : Lossless(sol, MaxOf(level, sol.bt)) /\ sol' = UndoUntil(sol, level)
         /\ ~sol.stop.set /\ ~Busy /\ DL(sol') = DL(sol) - 1
<1>1. /\ sol' = Backtrack(sol, DL(sol) - 1) /\ imps' = imps /\ ~Busy /\ ~Busy'
      /\ sol.conflict.has /\ DL(sol) > sol.root
  BY DEF BacktrackOnly, Call, Busy, db
<1>2. /\ sol.root \in Nat /\ sol.bt \in Nat /\ DL(sol) \in Nat /\ sol \in State
  BY Typed DEF TypeOK
<1>3. ~sol.stop.set
  BY <1>1, <1>2 DEF Sound, SolverInv, SolverOk
<1>4. Good(sol) /\ Ordered(sol) /\ TrailShape(sol)
  BY <1>3, PlainProp
<1> DEFINE level == MaxOf(DL(sol) - 1, sol.root)
           u == UndoUntil(sol, level)
<1>5. level \in Nat /\ MaxOf(level, sol.bt) = DL(sol) - 1 /\ MinOf(DL(sol), DL(sol) - 1) = DL(sol) - 1
  BY <1>1, <1>2, <1>4 DEF MaxOf, MinOf, Ordered
<1> HIDE DEF level
<1>6. /\ Good(u) /\ u.bt = sol.bt /\ DL(u) = DL(sol) - 1 /\ u.stop = sol.stop
  <2>1. Lossless(sol, MaxOf(level, sol.bt))
    BY <1>2, <1>5 DEF Lossless
  <2> QED
    BY <1>4, <1>5, <2>1, UndoQuiet
<1>7. sol' = [u EXCEPT !.bt = MinOf(u.bt, DL(u))]
  BY <1>1 DEF Backtrack, level
<1>8. MinOf(u.bt, DL(u)) = u.bt
  BY <1>1, <1>2, <1>4, <1>6 DEF MinOf, Ordered
<1> HIDE DEF u
<1>9. sol' = u
  BY <1>6, <1>7, <1>8 DEF Good, State
<1>10. Lossless(sol, MaxOf(level, sol.bt))
  BY <1>2, <1>5 DEF Lossless
<1> QED
  BY <1>1, <1>3, <1>5, <1>6, <1>9, <1>10 DEF u

LEMMA SearchLoopSettles ==
  ASSUME TypeOK, LevelInv, LevelInv', Sound, Propagated,
         SearchAside \/ SearchSimplify \/ SimplifyTop \/ Decide \/ BacktrackOnly
  PROVE  Propagated'
<1>1. ControlInv /\ watches' = watches
  BY DEF Sound, SearchAside, SearchTop, ModelFound, GiveUp, Refute, LimitReached, Continue,
         SearchSimplify, SimplifyTop, Decide, BacktrackOnly, db
<1>2. CASE SearchAside
  <2>1. sol' = sol /\ imps' = imps /\ ~Busy'
    BY <1>2 DEF SearchAside, SearchTop, ModelFound, GiveUp, Refute, LimitReached, Continue, Return,
                Call, Busy, db
  <2> QED
    BY <1>1, <2>1, StepSame
<1>3. CASE SearchSimplify \/ SimplifyTop
  <2>1. /\ sol' = sol /\ imps' \in {imps, Simplified(imps, sol)} /\ ~Busy /\ ~Busy' /\ ~sol.conflict.has
    BY <1>1, <1>3 DEF SearchSimplify, SimplifyTop, Call, Busy, ControlInv, NothingToLose
  <2> QED
    BY <1>1, <2>1, SimplifySettles
<1>4. CASE Decide
  <2>1. /\ \E l \in FreeLits(sol) : sol' = Assume(sol, l)
        /\ imps' = imps /\ ~Busy /\ ~Busy' /\ NothingToLose
    BY <1>1, <1>4 DEF Decide, Call, Busy, ControlInv, db
  <2> QED
    BY <1>1, <2>1, AssumeStep
<1>5. CASE BacktrackOnly
  <2>1. imps' = imps /\ ~Busy'
    BY <1>5 DEF BacktrackOnly, Call, Busy, db
  <2>2. PICK level \in Nat : Lossless(sol, MaxOf(level, sol.bt)) /\ sol' = UndoUntil(sol, level)
    BY <1>5, BacktrackUndoes
  <2>3. ~sol.stop.set
    BY <1>5, BacktrackUndoes
  <2> QED
    BY <1>1, <2>1, <2>2, <2>3, UndoStep
<1> QED
  BY <1>2, <1>3, <1>4, <1>5

LEMMA SetupSettles ==
  ASSUME TypeOK, LevelInv, Sound, Propagated, AddFact \/ EndInit \/ Ready \/ PushRootAssume
  PROVE  Propagated'
<1>1. ControlInv /\ watches' = watches /\ ~Busy
  BY DEF Sound, AddFact, EndInit, Ready, PushRootAssume, db, Busy
<1>2. CASE AddFact
  <2>1. PICK l \in UnitLits(formula) : sol' = ForceLit(sol, l, NoAnte)
    BY <1>2 DEF AddFact
  <2>2. l \in Lit /\ NoAnte \in SUBSET Lit
    BY DEF UnitLits, NoAnte
  <2>3. imps' = imps /\ ~Busy' /\ ~sol.conflict.has
    BY <1>2 DEF AddFact, Busy, db
  <2>4. sol.front <= Len(sol.trail)
    BY <1>1, <2>3, PlainSol DEF QueueOk
  <2> QED
    BY <1>1, <2>1, <2>2, <2>3, <2>4, ForceStep
<1>3. CASE EndInit
  <2>1. sol' = sol /\ imps' = imps /\ ~Busy'
    BY <1>3 DEF EndInit, Busy, Call, db
  <2> QED
    BY <1>1, <2>1, StepSame
<1>4. CASE Ready
  <2>1. sol' = sol /\ imps' = Simplified(imps, sol) /\ ~Busy' /\ ~sol.conflict.has
    BY <1>1, <1>4 DEF Ready, Busy, ControlInv, NothingToLose
  <2> QED
    BY <1>1, <2>1, SimplifySettles
<1>5. CASE PushRootAssume
  <2>1. imps' = imps /\ ~Busy' /\ NothingToLose
    BY <1>1, <1>5 DEF PushRootAssume, Call, Busy, ControlInv, db
  <2>2. CASE arg \notin FreeLits(sol)
    <3>1. sol' = sol
      BY <1>5, <2>2 DEF PushRootAssume
    <3> QED
      BY <1>1, <2>1, <3>1, StepSame
  <2>3. CASE arg \in FreeLits(sol)
    <3> DEFINE t == Assume(sol, arg)
    <3>1. sol' = PushRootLevel(t, 1)
      BY <1>5, <2>3 DEF PushRootAssume
    <3>2. ~sol.stop.set
      BY <1>1, <2>1, NotStopped DEF NothingToLose
    <3>3. Good(sol) /\ Ordered(sol) /\ Quiet(sol) /\ Core(sol, Sure)
      BY <2>1, <3>2, PlainProp DEF NothingToLose, QueueEmpty, Quiet
    <3>4. t \in State /\ Follows(sol, t) /\ Ordered(t) /\ ~t.conflict.has /\ t.stop = sol.stop
      BY <2>3, <3>3, AssumeFollows
    <3>5. Good(t)
      BY <2>1, <2>3, <3>3, AssumeCore DEF NothingToLose, QueueEmpty
    <3> HIDE DEF t
    <3>6. sol' \in State /\ Follows(t, sol') /\ Ordered(sol') /\ sol'.stop = t.stop
      BY <3>1, <3>4, <3>5, RootFollows
    <3>7. Follows(sol, sol')
      BY <3>4, <3>6, FollowsTrans
    <3> QED
      BY <1>1, <2>1, <3>2, <3>4, <3>6, <3>7, PlainStep
  <2> QED
    BY <2>2, <2>3
<1> QED
  BY <1>2, <1>3, <1>4, <1>5

(***************************************************************************)
(* Conflict analysis and learning.                                         *)
(***************************************************************************)
(* Analysis takes literals of the conflict level off the trail: the levels *)
(* below it stay as settled as they were.                                  *)
LEMMA CutFollows ==
  ASSUME NEW s \in State, NEW t \in State, Ordered(s), s.bt < DL(s), s.conflict.has,
         t.conflict = s.conflict, t.decisions = s.decisions, t.front = s.front,
         t.implied = s.implied, t.bt = s.bt, t.root = s.root, Cut(s, t, DL(s) - 1)
  PROVE  Follows(s, t) /\ Ordered(t)
<1>0. DL(s) \in Nat /\ DL(t) = DL(s) /\ s.implied.level \in Nat /\ s.bt \in Nat
  BY Typed DEF DL
<1>1. DL(s) - 1 \in Nat /\ s.implied.level <= DL(s) - 1
  BY <1>0 DEF Ordered
<1>2. \A l : \A k \in Nat : k <= DL(s) - 1 /\ TrueBy(s, l, k) => TrueBy(t, l, k)
  BY <1>1, CutTrue
<1>3. Follows(s, t)
  <2> SUFFICES ASSUME NEW n \in Nat, Settled(t, n)
               PROVE  /\ Settled(s, n)
                      /\ \A l : Done(t, l, n) => Done(s, l, n)
                      /\ \A l : Answered(s, l, n) => Answered(t, l, n)
    BY DEF Follows
  <2>1. n < DL(s)
    BY <1>0 DEF Settled
  <2>2. Settled(s, n)
    BY <2>1 DEF Settled
  <2>3. \A l : Done(t, l, n) => Done(s, l, n)
    BY DEF Done, Cut
  <2>4. \A l : Answered(s, l, n) => Answered(t, l, n)
    <3>1. n <= DL(s) - 1
      BY <1>0, <2>1
    <3> QED
      BY <1>2, <3>1 DEF Answered, Remembered
  <2> QED
    BY <2>2, <2>3, <2>4
<1>4. Held(t)
  <2>1. ~(DL(s) = s.implied.level)
    BY <1>0 DEF Ordered
  <2>2. \A i \in DOMAIN s.implied.lits : TrueBy(s, s.implied.lits[i].lit, s.implied.level)
    BY <2>1 DEF Ordered, Held
  <2> QED
    BY <1>0, <1>1, <1>2, <2>2 DEF Held
<1>5. QueueTop(t)
  BY <1>0 DEF Ordered, QueueTop, Cut
<1> QED
  BY <1>3, <1>4, <1>5 DEF Ordered, Listed

LEMMA AnalyzeCuts ==
  ASSUME TypeOK, LevelInv, Sound, Propagated, Analyze
  PROVE  /\ sol' \in State /\ Cut(sol, sol', DL(sol) - 1) /\ sol.bt < DL(sol) /\ ~sol.stop.set
         /\ sol'.conflict = sol.conflict /\ sol'.decisions = sol.decisions /\ sol'.front = sol.front
         /\ sol'.implied = sol.implied /\ sol'.bt = sol.bt /\ sol'.root = sol.root
         /\ sol'.stop = sol.stop
<1>1. /\ pc = "analyze" /\ Busy /\ ~Panics /\ Resolving /\ imps' = imps /\ watches' = watches
      /\ SolverInv
  BY DEF Sound, AnalysisInv, Analyze, Busy, db
<1>2. Good(sol) /\ Core(sol, Sure) /\ ~sol.stop.set /\ sol.bt < DL(sol) /\ sol.conflict.has
  BY <1>1, GoodSol DEF SolverInv, Propagated
<1>3. /\ Pending(sol, Sure, NewLits, NewSeen)
      /\ NewOn = Cardinality(OpenOf(sol, NewSeen)) /\ NewOn > 0 /\ NewOn \in Nat
  BY <1>1, <1>2, Visiting DEF TypeOK
<1>4. PICK last \in DOMAIN sol.trail :
        /\ IsLastSeen(last, NewSeen)
        /\ sol' = [sol EXCEPT !.trail = SubSeq(@, 1, last)]
  BY DEF Analyze, NewSeen
<1> DEFINE p == sol.trail[last].lit
<1>5. OpenOf(sol, NewSeen) # {}
  BY <1>3, FS_EmptySet
<1>6. sol' \in State /\ p \in OpenOf(sol, NewSeen)
  <2>1. Var(p) \in NewSeen /\ \A j \in DOMAIN sol.trail : j > last => Var(sol.trail[j].lit) \notin NewSeen
    BY <1>4 DEF IsLastSeen
  <2> QED
    BY <1>2, <1>3, <1>4, <1>5, <2>1, TakingOff
<1>7. Ordered(sol) /\ TrailShape(sol) /\ sol \in State
  BY <1>2, PlainProp
<1>8. /\ sol.trail[last].level = DL(sol) /\ DL(sol) \in Nat
      /\ DOMAIN sol.trail = 1..Len(sol.trail) /\ Len(sol.trail) \in Nat
  <2>1. PICK j \in DOMAIN sol.trail : sol.trail[j].lit = p /\ sol.trail[j].level = DL(sol)
    BY <1>6 DEF OpenOf, AtLevel
  <2>2. j = last
    BY <1>7, <2>1 DEF TrailShape
  <2> QED
    BY <1>7, <2>1, <2>2, Typed
<1>9. /\ sol'.trail = SubSeq(sol.trail, 1, last)
      /\ sol'.conflict = sol.conflict /\ sol'.decisions = sol.decisions /\ sol'.front = sol.front
      /\ sol'.implied = sol.implied /\ sol'.bt = sol.bt /\ sol'.root = sol.root /\ sol'.stop = sol.stop
  BY <1>4, <1>7 DEF State
<1>10. Cut(sol, sol', DL(sol) - 1)
  <2>1. DOMAIN sol'.trail = 1..last /\ \A i \in 1..last : sol'.trail[i] = sol.trail[i]
    BY <1>7, <1>8, <1>9, SubSeqProperties DEF State
  <2>2. \A i \in DOMAIN sol.trail : sol.trail[i].level <= DL(sol) - 1 => i \in 1..last
    <3> SUFFICES ASSUME NEW i \in DOMAIN sol.trail, sol.trail[i].level <= DL(sol) - 1, ~(i <= last)
                 PROVE  FALSE
      BY <1>8
    <3>1. sol.trail[last].level <= sol.trail[i].level /\ sol.trail[i].level \in Nat
      BY <1>7, <1>8, Typed DEF TrailShape
    <3> QED
      BY <1>8, <3>1
  <2> QED
    BY <1>8, <2>1, <2>2 DEF Cut
<1> QED
  BY <1>2, <1>6, <1>9, <1>10

LEMMA AnalyzeSettles ==
  ASSUME TypeOK, LevelInv, Sound, Propagated, Analyze
  PROVE  Propagated'
<1>1. pc = "analyze" /\ Busy /\ imps' = imps /\ watches' = watches /\ sol'.conflict.has
  BY AnalyzeCuts DEF Analyze, Busy, db, Propagated
<1>2. ~sol.stop.set /\ ~sol'.stop.set /\ sol.conflict.has /\ sol' \in State
  BY <1>1, AnalyzeCuts
<1>3. Ordered(sol) /\ sol \in State
  BY <1>2, PlainProp
<1>4. Follows(sol, sol') /\ Ordered(sol')
  BY <1>2, <1>3, AnalyzeCuts, CutFollows
<1> QED
  BY <1>1, <1>2, <1>4, PlainStep


LEMMA StartSettles ==
  ASSUME Propagated, StartAnalysis \/ AnalysisPanics
  PROVE  Propagated'
<1>1. sol' = sol /\ imps' = imps /\ watches' = watches /\ sol.conflict.has
  BY DEF StartAnalysis, AnalysisPanics, db, Propagated, Busy
<1> QED
  BY <1>1, StepSame

(* Which clause is learnt, where it is asserted and how it is stored.       *)
Learns(tail, l1) ==
  LET c == {-an.uip} \cup tail
  IN /\ Asserting(sol, Sure, an.uip, tail) /\ LearntFits(sol, an.uip, tail, l1)
     /\ sol' = Learnt(sol, an.uip, tail, l1)
     /\ imps' = StoreImp(c) /\ watches' = StoreExplicit(c, {-an.uip, l1})
     /\ pc' = "prop" /\ ret' = [ok |-> "after", fail |-> "resolve"]

LEMMA LearnChoice ==
  ASSUME TypeOK, LevelInv, Sound, Propagated, Learn
  PROVE  \E tail \in SUBSET Lit : \E l1 \in Second(sol, tail) : Learns(tail, l1)
<1>1. SolverInv /\ pc = "learn" /\ Busy /\ Resolved
  BY DEF Sound, AnalysisInv, Learn, Busy
<1>2. /\ Good(sol) /\ Core(sol, Sure) /\ ~sol.stop.set /\ sol.bt < DL(sol) /\ an.lits \in SUBSET Lit
      /\ sol \in State /\ TrailShape(sol) /\ Reasoned(sol, Sure) /\ an.uip \in Lit
      /\ Ordered(sol) /\ Closure(sol, imps, watches)
  BY <1>1, GoodSol, PlainProp DEF SolverInv, Good, TypeOK, Analysis, Core, TrailOk
<1> DEFINE u == an.uip
           l0 == -u
<1>3. PICK removed \in {{}, Removable} : \E l1 \in Second(sol, an.lits \ removed) :
        LET c == {l0} \cup (an.lits \ removed)
            back == UndoUntil(sol, IF l1 = 0 THEN 0 ELSE LevelOf(sol, l1))
        IN /\ sol' = Created(back, c, l0, l1)
           /\ imps' = IF Subsumed(back, l0) THEN imps ELSE StoreImp(c)
           /\ watches' = IF Subsumed(back, l0) THEN watches ELSE StoreExplicit(c, {l0, l1})
           /\ IF sol'.conflict.has \/ (IsEmpty(back, l0) /\ Cardinality(c) > 1)
              THEN pc' = "after" /\ UNCHANGED ret
              ELSE Call("after", "resolve")
  BY DEF Learn
<1> DEFINE tail == an.lits \ removed
           c == {l0} \cup tail
<1>4. PICK l1 \in Second(sol, tail) :
        LET back == UndoUntil(sol, IF l1 = 0 THEN 0 ELSE LevelOf(sol, l1))
        IN /\ sol' = Created(back, c, l0, l1)
           /\ imps' = IF Subsumed(back, l0) THEN imps ELSE StoreImp(c)
           /\ watches' = IF Subsumed(back, l0) THEN watches ELSE StoreExplicit(c, {l0, l1})
           /\ IF sol'.conflict.has \/ (IsEmpty(back, l0) /\ Cardinality(c) > 1)
              THEN pc' = "after" /\ UNCHANGED ret
              ELSE Call("after", "resolve")
  BY <1>3
<1>5. \A l \in removed : /\ l \in an.lits /\ AnteOf(sol, l) # NoAnte
                         /\ SeenVars(AnteOf(sol, l) \ {-l}) \subseteq SeenVars(an.lits)
  BY <1>1 DEF Removable, Resolved
<1>6. AllFalse(sol, an.lits) /\ {-u} \cup an.lits \in Sure /\ AtLevel(sol, u, DL(sol))
  BY <1>1 DEF Resolved
<1>7. /\ sol' = Learnt(sol, u, tail, l1)
      /\ imps' = IF Subsumed(JumpedBack(sol, l1), -u) THEN imps ELSE StoreImp(c)
      /\ watches' = IF Subsumed(JumpedBack(sol, l1), -u) THEN watches ELSE StoreExplicit(c, {-u, l1})
      /\ IF sol'.conflict.has \/ (IsEmpty(JumpedBack(sol, l1), -u) /\ Cardinality(c) > 1)
         THEN pc' = "after" /\ UNCHANGED ret
         ELSE Call("after", "resolve")
  BY <1>4 DEF Learnt, JumpedBack
<1> HIDE DEF u
<1>8. u \in Lit
  BY <1>2 DEF u
<1>9. {-u} \cup tail \in Sure
  BY <1>2, <1>5, <1>6, <1>8, Minimised DEF Sure
<1>10. tail \in SUBSET Lit /\ AllFalse(sol, tail)
  BY <1>2, <1>6 DEF AllFalse
<1> HIDE DEF tail
<1>11. Asserting(sol, Sure, u, tail)
  BY <1>6, <1>8, <1>9, <1>10 DEF Asserting
<1>12. LearntFits(sol, u, tail, l1)
  BY <1>2, <1>11, LearntFollows
<1>13. ~sol'.conflict.has /\ ~Subsumed(JumpedBack(sol, l1), -u)
  BY <1>7, <1>12 DEF LearntFits
<1>14. ~(IsEmpty(JumpedBack(sol, l1), -u) /\ Cardinality(c) > 1)
  <2>1. Cardinality(c) # 1 => ~IsEmpty(JumpedBack(sol, l1), -u)
    BY <1>2, <1>6, <1>8, <1>9, <1>10, CreatedCore
  <2> QED
    BY <2>1
<1>15. imps' = StoreImp(c) /\ watches' = StoreExplicit(c, {-u, l1})
  BY <1>7, <1>13
<1>16. pc' = "prop" /\ ret' = [ok |-> "after", fail |-> "resolve"]
  BY <1>7, <1>13, <1>14 DEF Call
<1>17. Learns(tail, l1)
  BY <1>7, <1>11, <1>12, <1>15, <1>16 DEF Learns, u
<1> QED
  BY <1>10, <1>17

(* The learnt clause asserts where the solver jumps back to; it is forced  *)
(* there, or remembered, and it watches the right literals.                *)
LEMMA LearnSettles ==
  ASSUME TypeOK, TypeOK', LevelInv, Sound, Propagated, Learn
  PROVE  Propagated'
<1> DEFINE u == an.uip
<1>1. /\ SolverInv /\ pc = "learn" /\ Busy
  BY DEF Sound, Learn, Busy
<1>2. ~sol.stop.set /\ Closure(sol, imps, watches)
  BY <1>1, PlainProp DEF SolverInv
<1>3. PICK tail \in SUBSET Lit : \E l1 \in Second(sol, tail) : Learns(tail, l1)
  BY LearnChoice
<1>4. PICK l1 \in Second(sol, tail) : Learns(tail, l1)
  BY <1>3
<1> DEFINE c == {-u} \cup tail
<1>5. /\ Follows(sol, sol') /\ Ordered(sol') /\ ~sol'.conflict.has
      /\ tail # {} => ShortOk(sol', c) /\ WatchOk(sol', c, {-u, l1})
      /\ tail = {} => Cardinality(c) = 1
  BY <1>4 DEF Learns, LearntFits
<1>6. imps' = StoreImp(c) /\ watches' = StoreExplicit(c, {-u, l1}) /\ ~Busy'
  BY <1>4 DEF Learns, Busy
<1> HIDE DEF c
<1>7. sol' \in State /\ ~sol'.stop.set
  BY <1>5, <1>6, LearnSound DEF TypeOK, Sound, SolverInv, SolverOk
<1>8. Closure(sol', imps, watches)
  BY <1>2, <1>5, FollowsClosure
<1>9. /\ \A d \in imps' : ShortOk(sol', d) /\ Cardinality(d) \in {2, 3}
  <2>1. ASSUME NEW d \in imps', d \notin imps PROVE d = c /\ Cardinality(c) \in {2, 3}
    BY <1>6, <2>1 DEF StoreImp
  <2> QED
    BY <1>5, <1>8, <2>1 DEF Closure, Propagated
<1>10. \A d \in DOMAIN watches' : WatchOk(sol', d, watches'[d])
  <2>1. CASE watches' = watches
    BY <1>8, <2>1 DEF Closure
  <2>2. CASE watches' # watches
    <3>1. /\ Cardinality(c) > 3
          /\ watches' = [k \in Explicit \cup {c} |-> IF k = c THEN {-u, l1} ELSE watches[k]]
      BY <1>6, <2>2 DEF StoreExplicit
    <3>2. \A k \in Explicit \cup {c} : watches'[k] = IF k = c THEN {-u, l1} ELSE watches[k]
      BY <3>1
    <3>3. DOMAIN watches' = Explicit \cup {c}
      BY <3>1
    <3>4. WatchOk(sol', c, {-u, l1})
      BY <1>5, <3>1
    <3> QED
      BY <1>8, <3>2, <3>3, <3>4 DEF Closure, Explicit
  <2> QED
    BY <2>1, <2>2
<1>11. Base(sol') = sol'
  BY <1>7, BaseFacts
<1> QED
  BY <1>5, <1>6, <1>9, <1>10, <1>11 DEF Propagated, PropOk, Closure

LEMMA SearchSettles ==
  ASSUME TypeOK, TypeOK', LevelInv, LevelInv', Sound, Propagated, SearchStep
  PROVE  Propagated'
BY SearchLoopSettles, StartSettles, AnalyzeSettles, LearnSettles DEF SearchStep, SearchAside

(***************************************************************************)
(* The calls of the application.                                           *)
(***************************************************************************)
LEMMA PopRootBack ==
  ASSUME TypeOK, LevelInv, Sound, Propagated, ~Busy, NEW n \in Nat, sol' = PopRootLevel(sol, n),
         Lossless(Base(sol), RootAfter(sol, n)), imps' = imps, watches' = watches, ~Busy'
  PROVE  Propagated'
<1>1. Good(sol) /\ Core(Base(sol), Sure) /\ Ordered(Base(sol))
  BY GoodSol DEF Sound, SolverInv, SolverOk, Whole, Propagated, PropOk
<1>2. Follows(Base(sol), sol') /\ Ordered(sol') /\ ~sol'.stop.set /\ Good(sol')
  BY <1>1, PopRootFollows
<1>3. Base(sol') = sol'
  BY <1>2, BaseFacts DEF Good
<1> QED
  BY <1>2, <1>3, StepFollows

(* Popping loses nothing when it undoes a level, or when nothing waits.    *)
LEMMA PopRootUndoes ==
  ASSUME TypeOK, LevelInv, Sound, Propagated, PopRoot
  PROVE  \E n \in Nat : sol' = PopRootLevel(sol, n) /\ Lossless(Base(sol), RootAfter(sol, n))
<1>1. ~Busy
  BY DEF PopRoot, Begin, Idle, Busy
<1>2. PICK n \in 0..sol.root : (n > 0 \/ NothingToLose) /\ sol' = PopRootLevel(sol, n)
  BY DEF PopRoot
<1>3. /\ sol \in State /\ sol.root \in Nat /\ DL(sol) \in Nat /\ sol.bt \in Nat /\ n \in Nat
      /\ sol.root <= sol.bt /\ sol.bt <= DL(sol) /\ sol.stop \in [set : BOOLEAN, root : Nat, bt : Nat, front : Nat]
  BY <1>2, Typed DEF TypeOK, LevelInv, State
<1>4. /\ Base(sol).root \in Nat /\ Base(sol).root <= sol.root /\ DL(Base(sol)) = DL(sol)
  <2>1. CASE sol.stop.set
    <3>1. Base(sol).root = sol.stop.root /\ DL(Base(sol)) = DL(sol)
      BY <1>3, <2>1, BaseFacts
    <3>2. sol.stop.root <= sol.stop.bt /\ sol.stop.bt <= sol.root
      BY <2>1 DEF LevelInv
    <3>3. sol.stop.root \in Nat /\ sol.stop.bt \in Nat
      BY <1>3
    <3> QED
      BY <1>3, <3>1, <3>2, <3>3
  <2>2. CASE ~sol.stop.set
    BY <1>3, <2>2, BaseFacts
  <2> QED
    BY <2>1, <2>2
<1>5. Lossless(Base(sol), RootAfter(sol, n))
  <2>1. CASE n > 0
    <3>1. RootAfter(sol, n) < DL(sol)
      BY <1>2, <1>3, <1>4, <2>1 DEF RootAfter
    <3> QED
      BY <1>3, <1>4, <3>1 DEF Lossless
  <2>2. CASE NothingToLose
    <3>1. ~sol.stop.set
      BY <1>1, <2>2, NotStopped DEF NothingToLose
    <3>2. Base(sol) = sol
      BY <3>1, PlainProp
    <3> QED
      BY <2>2, <3>2 DEF Lossless, Quiet, NothingToLose, QueueEmpty
  <2> QED
    BY <1>2, <2>1, <2>2
<1> QED
  BY <1>2, <1>3, <1>5

LEMMA PopRootSettles ==
  ASSUME TypeOK, LevelInv, Sound, Propagated, PopRoot
  PROVE  Propagated'
<1>1. /\ imps' = imps /\ watches' = watches /\ ~Busy /\ ~Busy'
  BY DEF PopRoot, Begin, Idle, Busy, db
<1> QED
  BY <1>1, PopRootUndoes, PopRootBack

LEMMA PushRootUndoes ==
  ASSUME TypeOK, LevelInv, Sound, Propagated, PushRoot, sol' # sol
  PROVE  sol' = PopRootLevel(sol, 0) /\ Lossless(Base(sol), RootAfter(sol, 0)) /\ ~sol.stop.set
<1>1. ~Busy /\ ~sol.conflict.has /\ DL(sol) # sol.root /\ sol' = PopRootLevel(sol, 0)
  BY DEF PushRoot, Begin, Idle, Busy
<1>2. ~sol.stop.set
  BY <1>1, NotStopped
<1>3. Base(sol) = sol
  BY <1>2, PlainProp
<1>4. sol.root \in Nat /\ DL(sol) \in Nat /\ sol.bt \in Nat /\ sol.root <= sol.bt /\ sol.bt <= DL(sol)
  BY Typed DEF TypeOK, LevelInv
<1>5. RootAfter(sol, 0) = sol.root /\ DL(sol) > sol.root
  BY <1>1, <1>3, <1>4 DEF RootAfter
<1> QED
  BY <1>1, <1>2, <1>3, <1>5 DEF Lossless

LEMMA PushRootSettles ==
  ASSUME TypeOK, LevelInv, Sound, Propagated, PushRoot
  PROVE  Propagated'
<1>1. /\ imps' = imps /\ watches' = watches /\ ~Busy /\ ~Busy'
  BY DEF PushRoot, Begin, Idle, Busy, Call, db
<1>2. CASE sol' = sol
  BY <1>1, <1>2, StepSame
<1>3. CASE sol' # sol
  <2>1. 0 \in Nat
    OBVIOUS
  <2> QED
    BY <1>1, <1>3, <2>1, PushRootUndoes, PopRootBack
<1> QED
  BY <1>2, <1>3

(* A stop conflict is put on top of the state and taken off again.         *)
LEMMA SetStopSettles ==
  ASSUME TypeOK, LevelInv, Sound, Propagated, SetStop
  PROVE  Propagated'
<1>1. /\ imps' = imps /\ watches' = watches /\ ~Busy /\ ~Busy' /\ sol' = SetStopConflict(sol)
  BY DEF SetStop, Begin, Idle, Busy, db
<1>2. /\ sol \in State /\ DL(sol) \in Nat /\ sol.root \in Nat /\ sol.bt \in Nat /\ sol.front \in Nat
      /\ sol.root <= sol.bt /\ sol.bt <= DL(sol) /\ Ordered(Base(sol)) /\ Good(sol)
  BY GoodSol, Typed DEF TypeOK, LevelInv, Propagated, PropOk
<1>3. CASE sol.conflict.has
  <2>1. sol' = PushRootLevel(sol, DL(sol))
    BY <1>1, <1>3 DEF SetStopConflict
  <2>2. CASE sol.stop.set
    <3>1. sol.root = DL(sol)
      BY <1>1, <2>2 DEF Sound, SolverInv, SolverOk
    <3>2. MinOf(DL(sol), sol.root + DL(sol)) = sol.root /\ MaxOf(sol.bt, sol.root) = sol.bt
      BY <1>2, <3>1 DEF MinOf, MaxOf
    <3>3. sol' = [sol EXCEPT !.root = sol.root, !.bt = sol.bt]
      BY <2>1, <3>2 DEF PushRootLevel
    <3>4. sol' = sol
      BY <1>2, <3>3 DEF State
    <3> QED
      BY <1>1, <3>4, StepSame
  <2>3. CASE ~sol.stop.set
    <3>1. Base(sol) = sol /\ Ordered(sol)
      BY <2>3, PlainProp
    <3>2. sol' \in State /\ Follows(sol, sol') /\ Ordered(sol') /\ sol'.stop = sol.stop
      BY <1>2, <2>1, <3>1, RootFollows
    <3> QED
      BY <1>1, <2>3, <3>2, PlainStep
  <2> QED
    BY <2>2, <2>3
<1>4. CASE ~sol.conflict.has
  <2> DEFINE saved == [set |-> TRUE, root |-> sol.root, bt |-> sol.bt, front |-> sol.front]
             m == [sol EXCEPT !.stop = saved, !.conflict = [has |-> TRUE, lits |-> {}]]
             b == Base(sol')
  <2>1. ~sol.stop.set /\ Base(sol) = sol
    BY <1>1, <1>4, NotStopped, PlainProp
  <2>2. sol' = PushRootLevel(m, DL(sol))
    BY <1>1, <1>4 DEF SetStopConflict
  <2>3. /\ sol'.trail = sol.trail /\ sol'.decisions = sol.decisions /\ sol'.implied = sol.implied
        /\ sol'.stop = saved /\ sol' \in State
    <3>1. sol' \in State
      BY <1>1, <1>2, SetStopConflictGood DEF Good
    <3> QED
      BY <1>2, <2>2, <3>1 DEF PushRootLevel, State
  <2>4. b = [sol' EXCEPT !.root = saved.root, !.bt = saved.bt, !.front = saved.front,
                         !.stop = NoStop, !.conflict = NoConflict]
    BY <2>3 DEF Base, ClearStopConflict
  <2>5. /\ b.trail = sol.trail /\ b.decisions = sol.decisions /\ b.front = sol.front
        /\ b.implied = sol.implied /\ b.root = sol.root /\ b.bt = sol.bt
        /\ b.conflict.has = sol.conflict.has
    <3>1. b.conflict.has = FALSE /\ sol.conflict.has = FALSE
      BY <1>2, <1>4, <2>3, <2>4 DEF NoConflict, State
    <3> QED
      BY <2>3, <2>4, <3>1 DEF State
  <2> HIDE DEF b, saved, m
  <2>6. Follows(sol, b)
    BY <2>5, SameFollows
  <2>7. DL(b) = DL(sol)
    BY <2>5 DEF DL
  <2>8. Ordered(b)
    BY <1>2, <2>1, <2>5, <2>7 DEF Ordered, QueueTop, Listed, Held, TrueBy
  <2> QED
    BY <1>1, <2>1, <2>6, <2>8, StepFollows DEF b
<1> QED
  BY <1>3, <1>4

LEMMA ClearStopSettles ==
  ASSUME TypeOK, LevelInv, Sound, Propagated, ClearStop
  PROVE  Propagated'
<1>1. /\ imps' = imps /\ watches' = watches /\ ~Busy' /\ sol' = Base(sol) /\ sol \in State
  BY DEF ClearStop, Begin, Idle, Busy, db, Base, TypeOK
<1>2. Base(sol') = sol'
  BY <1>1, BaseFacts
<1>3. Follows(Base(sol), Base(sol'))
  BY <1>1, <1>2, SameFollows
<1> QED
  BY <1>1, <1>2, <1>3, StepFollows DEF Propagated, PropOk

LEMMA SplitSettles ==
  ASSUME TypeOK, LevelInv, Sound, Propagated, Split
  PROVE  Propagated'
<1>1. /\ imps' = imps /\ watches' = watches /\ ~Busy /\ ~Busy' /\ sol' = PushRootLevel(sol, 1)
      /\ DL(sol) > sol.root
  BY DEF Split, Begin, Idle, Busy, db
<1>2. DL(sol) # sol.root
  BY <1>1, Typed DEF TypeOK
<1>3. ~sol.stop.set
  BY <1>1, <1>2 DEF Sound, SolverInv, SolverOk
<1>4. Good(sol) /\ Ordered(sol)
  BY <1>3, PlainProp
<1>5. sol' \in State /\ Follows(sol, sol') /\ Ordered(sol') /\ sol'.stop = sol.stop
  BY <1>1, <1>4, RootFollows
<1> QED
  BY <1>1, <1>3, <1>5, PlainStep

LEMMA OtherCallsSettle ==
  ASSUME TypeOK, LevelInv, Sound, Propagated, Search \/ Propagate \/ Choose \/ Restart
  PROVE  Propagated'
<1>1. imps' = imps /\ watches' = watches /\ ~Busy /\ ~Busy'
  BY DEF Search, Propagate, Choose, Restart, Begin, Idle, Busy, Call, db
<1>2. CASE Search \/ Propagate
  <2>1. sol' = sol
    BY <1>2 DEF Search, Propagate
  <2> QED
    BY <1>1, <2>1, StepSame
<1>3. CASE Choose
  <2>1. NothingToLose /\ \E l \in FreeLits(sol) : sol' = Assume(sol, l)
    BY <1>3 DEF Choose
  <2> QED
    BY <1>1, <2>1, AssumeStep
<1>4. CASE Restart
  <2>1. NothingToLose /\ sol' = UndoUntil(sol, 0)
    BY <1>4 DEF Restart
  <2>2. ~sol.stop.set
    BY <1>1, <2>1, NotStopped DEF NothingToLose
  <2>3. Lossless(sol, MaxOf(0, sol.bt))
    BY <2>1 DEF Lossless, Quiet, NothingToLose, QueueEmpty
  <2>4. 0 \in Nat
    OBVIOUS
  <2> QED
    BY <1>1, <2>1, <2>2, <2>3, <2>4, UndoStep
<1> QED
  BY <1>2, <1>3, <1>4

LEMMA NextSettles ==
  ASSUME CallsAlone, TypeOK, TypeOK', LevelInv, LevelInv', Sound, Propagated, [Next]_vars
  PROVE  Propagated'
<1>1. ~Integrate /\ ~Integrated /\ ~BacktrackStep /\ ~SetBacktrack /\ ~Flip
  <2>1. ~Integrate /\ ~BacktrackStep /\ ~SetBacktrack
    BY DEF CallsAlone, Integrate, BacktrackStep, SetBacktrack, Begin, Counted
  <2>2. pc # "integrate" /\ pc # "flip"
    BY DEF CallsAlone, Sound, ControlInv
  <2> QED
    BY <2>1, <2>2 DEF Integrated, Flip
<1>2. CASE UNCHANGED vars
  <2>1. sol' = sol /\ imps' = imps /\ watches' = watches /\ pc' = pc
    BY <1>2 DEF vars
  <2>2. Busy' = Busy
    BY <2>1 DEF Busy
  <2> QED
    BY <2>1, <2>2, StepSame DEF Propagated
<1>3. CASE Running
  BY <1>1, <1>3, SetupSettles, PropagationSettles, SearchSettles DEF Running
<1>4. CASE ApiCall
  BY <1>1, <1>4, OtherCallsSettle, PushRootSettles, PopRootSettles, SetStopSettles, ClearStopSettles,
     SplitSettles DEF ApiCall
<1> QED
  BY <1>2, <1>3, <1>4 DEF Next

(***************************************************************************)
(* The invariant holds in every state.                                     *)
(***************************************************************************)
LEMMA InitSettles ==
  ASSUME Init
  PROVE  Propagated
<1>1. /\ sol = NewSolver /\ pc = "init" /\ formula \subseteq SUBSET Lit
      /\ imps = {c \in formula : Cardinality(c) \in {2, 3}}
  BY KernelAssumption DEF Init
<1>2. Base(sol) = sol
  BY <1>1 DEF Base, ClearStopConflict, NewSolver, NoStop
<1>3. sol.trail = <<>> /\ sol.implied.lits = <<>> /\ ~sol.conflict.has /\ sol.front = 0
  BY <1>1 DEF NewSolver, NoConflict
<1>4. Ordered(sol)
  <2>1. QueueTop(sol) /\ Listed(sol) /\ Held(sol)
    BY <1>3 DEF QueueTop, Listed, Held
  <2> QED
    BY <1>1, <2>1 DEF Ordered, NewSolver
<1>5. \A l, n : ~Done(sol, l, n)
  BY <1>3 DEF Done
<1>6. ASSUME NEW c \in imps PROVE ShortOk(sol, c) /\ Cardinality(c) \in {2, 3}
  <2>1. ASSUME NEW x \in c PROVE c \ {x} # {}
    <3>1. Cardinality({x}) = 1
      BY FS_Singleton
    <3>2. Cardinality(c) \in {2, 3}
      BY <1>1, <1>6
    <3>3. c # {x}
      BY <3>1, <3>2
    <3> QED
      BY <2>1, <3>3
  <2> QED
    BY <1>1, <1>5, <1>6, <2>1 DEF ShortOk
<1>7. \A c \in DOMAIN watches : WatchOk(sol, c, watches[c])
  BY <1>5 DEF WatchOk
<1> QED
  BY <1>1, <1>2, <1>4, <1>6, <1>7 DEF Propagated, PropOk, Closure, Busy

LEMMA AlwaysPropagated ==
  ASSUME CallsAlone
  PROVE  Spec => [](TypeOK /\ LevelInv /\ Sound /\ Propagated)
<1>1. CallsFit
  BY DEF CallsAlone, CallsFit
<1>2. Spec => [](TypeOK /\ LevelInv /\ Sound)
  BY <1>1, AlwaysSound
<1>3. Init => Propagated
  BY InitSettles
<1>4. /\ TypeOK /\ LevelInv /\ Sound /\ (TypeOK /\ LevelInv /\ Sound)'
      /\ Propagated /\ [Next]_vars
      => Propagated'
  BY NextSettles
<1> QED
  BY <1>2, <1>3, <1>4, PTL DEF Spec

(***************************************************************************)
(* What follows from the invariant when the search decides.                *)
(***************************************************************************)
(* Everything true has been propagated, and everything remembered is true. *)
LEMMA DecidesSettled ==
  ASSUME TypeOK, LevelInv, Sound, Propagated, pc = "decide"
  PROVE  /\ Closure(sol, imps, watches) /\ sol \in State /\ TrailShape(sol)
         /\ DL(sol) \in Nat /\ \A n \in Nat : Settled(sol, n)
         /\ \A i \in DOMAIN sol.trail : /\ i <= sol.front /\ sol.trail[i].level \in Nat
                                        /\ sol.trail[i].level <= DL(sol)
         /\ \A l : IsFalse(sol, l) => Done(sol, -l, DL(sol))
         /\ \A l, n : Answered(sol, l, n) => IsTrue(sol, l)
<1>1. NothingToLose /\ ~Busy
  BY DEF Sound, ControlInv, Busy
<1>2. ~sol.conflict.has /\ sol.front = Len(sol.trail) /\ ~sol.stop.set
  BY <1>1, NotStopped DEF NothingToLose, QueueEmpty
<1>3. Closure(sol, imps, watches) /\ sol \in State /\ TrailShape(sol) /\ Ordered(sol)
  BY <1>2, PlainProp
<1>4. DL(sol) \in Nat /\ \A n \in Nat : Settled(sol, n)
  BY <1>2, <1>3, Typed DEF Settled
<1>5. \A i \in DOMAIN sol.trail : /\ i <= sol.front /\ sol.trail[i].level \in Nat
                                  /\ sol.trail[i].level <= DL(sol)
  BY <1>2, <1>3, Typed DEF TrailShape
<1>6. ASSUME NEW l, IsFalse(sol, l) PROVE Done(sol, -l, DL(sol))
  BY <1>5, <1>6 DEF IsFalse, TrueLits, Done
<1>7. ASSUME NEW l, NEW n, Answered(sol, l, n) PROVE IsTrue(sol, l)
  BY <1>2, <1>3, <1>7 DEF Answered, TrueBy, Remembered, Ordered, Held, IsTrue, TrueLits
<1> QED
  BY <1>3, <1>4, <1>5, <1>6, <1>7

LEMMA NoneMissed ==
  ASSUME TypeOK, LevelInv, Sound, Propagated
  PROVE  NoMissedPropagation
<1> SUFFICES ASSUME pc = "decide", NEW c \in Clauses, Forcing(c) PROVE FALSE
  BY DEF NoMissedPropagation
<1>1. /\ Closure(sol, imps, watches) /\ DL(sol) \in Nat /\ \A n \in Nat : Settled(sol, n)
      /\ \A l : IsFalse(sol, l) => Done(sol, -l, DL(sol))
      /\ \A l, n : Answered(sol, l, n) => IsTrue(sol, l)
  BY DecidesSettled
<1>2. /\ \A l \in c : ~IsTrue(sol, l)
      /\ Cardinality(NotFalse(c)) <= 1 /\ IsFiniteSet(NotFalse(c)) /\ IsFiniteSet(c)
  <2>1. c \subseteq Lit
    BY DEF TypeOK, Clauses, Explicit
  <2>2. IsFiniteSet(c)
    BY <2>1, LitFinite, FS_Subset
  <2> QED
    BY <2>2, FS_Subset DEF Forcing, Satisfied, NotFalse
<1>3. CASE c \in imps
  <2>1. PICK x \in c : NotFalse(c) \subseteq {x}
    <3>1. c # {}
      <4>1. Cardinality(c) \in {2, 3}
        BY <1>3 DEF Propagated
      <4>2. Cardinality({}) = 0
        BY FS_EmptySet
      <4> QED
        BY <4>1, <4>2
    <3>2. CASE NotFalse(c) = {}
      BY <3>1, <3>2
    <3>3. CASE NotFalse(c) # {}
      <4>1. PICK x : x \in NotFalse(c)
        BY <3>3
      <4>2. NotFalse(c) = {x}
        BY <1>2, <4>1, SingleElement
      <4> QED
        BY <4>1, <4>2 DEF NotFalse
    <3> QED
      BY <3>2, <3>3
  <2>2. \A y \in c \ {x} : Done(sol, -y, DL(sol))
    BY <1>1, <2>1 DEF NotFalse
  <2>3. Answered(sol, x, DL(sol))
    BY <1>1, <1>3, <2>2 DEF Closure, ShortOk
  <2> QED
    BY <1>1, <1>2, <2>3
<1>4. CASE c \in Explicit
  <2>1. PICK a, b \in c : a # b /\ watches[c] = {a, b}
    BY <1>4 DEF Sound, WatchInv, Watched
  <2>2. PICK w \in {a, b} : IsFalse(sol, w)
    <3>1. CASE a \in NotFalse(c)
      <4>1. NotFalse(c) = {a}
        BY <1>2, <3>1, SingleElement
      <4> QED
        BY <2>1, <4>1 DEF NotFalse
    <3>2. CASE a \notin NotFalse(c)
      BY <3>2 DEF NotFalse
    <3> QED
      BY <3>1, <3>2
  <2>3. \E t \in c : Answered(sol, t, DL(sol))
    BY <1>1, <1>4, <2>1, <2>2 DEF Closure, WatchOk, Explicit
  <2> QED
    BY <1>1, <1>2, <2>3
<1> QED
  BY <1>3, <1>4 DEF Clauses

LEMMA NoneBlind ==
  ASSUME TypeOK, LevelInv, Sound, Propagated
  PROVE  WatchesSafe
<1> SUFFICES ASSUME pc = "decide", NEW c \in Explicit, NEW w \in watches[c], IsFalse(sol, w)
             PROVE  \E t \in c : HeldBy(t, LevelOf(sol, w))
  BY DEF WatchesSafe
<1>1. /\ Closure(sol, imps, watches) /\ sol \in State /\ TrailShape(sol)
      /\ \A n \in Nat : Settled(sol, n)
      /\ \A i \in DOMAIN sol.trail : i <= sol.front /\ sol.trail[i].level \in Nat
      /\ \A l, n : Answered(sol, l, n) => IsTrue(sol, l)
  BY DecidesSettled
<1>2. c \subseteq Lit /\ w \in Lit
  BY DEF TypeOK, Explicit
<1>3. PICK j \in DOMAIN sol.trail : sol.trail[j].lit = -w
  BY DEF IsFalse, TrueLits
<1> DEFINE n == sol.trail[j].level
<1>4. n \in Nat /\ Done(sol, -w, n)
  BY <1>1, <1>3 DEF Done
<1>5. LevelOf(sol, w) = n
  <2>1. AtLevel(sol, -w, n)
    BY <1>3 DEF AtLevel
  <2> HIDE DEF n
  <2> QED
    BY <1>1, <1>2, <2>1, TrueAt
<1> HIDE DEF n
<1>6. PICK t \in c : Answered(sol, t, n)
  BY <1>1, <1>4 DEF Closure, WatchOk, Explicit
<1>7. TrueBy(sol, t, n) => LevelOf(sol, t) <= n
  <2> SUFFICES ASSUME NEW i \in DOMAIN sol.trail, sol.trail[i].lit = t, sol.trail[i].level <= n
               PROVE  LevelOf(sol, t) <= n
    BY DEF TrueBy
  <2>1. AtLevel(sol, t, sol.trail[i].level) /\ t \in Lit
    BY <1>2, <1>6 DEF AtLevel
  <2>2. LevelOf(sol, t) = sol.trail[i].level
    BY <1>1, <2>1, TrueAt
  <2> QED
    BY <2>2
<1> QED
  BY <1>1, <1>5, <1>6, <1>7 DEF Answered, Remembered, HeldBy

(* The propagation queue never points behind the trail, and nothing on it  *)
(* is passed over: when the search takes a decision, no clause of either   *)
(* store is unit or falsified, whatever was learnt, undone and simplified. *)
THEOREM QueueNeverSkips ==
  ASSUME CallsAlone
  PROVE  Spec => []QueueExact
<1>1. TypeOK /\ LevelInv /\ Sound /\ Propagated => QueueExact
  BY SoundQueue, NoneMissed DEF QueueExact
<1> QED
  BY <1>1, AlwaysPropagated, PTL

(* An explicit clause that asserts is found through its watches, now and   *)
(* after backjumps: a false watch is covered by a true literal that stays. *)
THEOREM WatchesNeverBlind ==
  ASSUME CallsAlone
  PROVE  Spec => []WatchesExact
<1>1. TypeOK /\ LevelInv /\ Sound /\ Propagated => WatchesExact
  BY NoneMissed, NoneBlind DEF WatchesExact
<1> QED
  BY <1>1, AlwaysPropagated, PTL
=============================================================================

--------------------------- MODULE SolverProofs -----------------------------
EXTENDS SolverCorrectness, FiniteSetTheorems, SequenceTheorems, WellFoundedInduction, TLAPS

(***************************************************************************)
(* Proofs about SolverKernel for any number of variables, any problem and  *)
(* any sequence of calls: type correctness, the order of the levels, and   *)
(* that the root path is kept.                                             *)
(*                                                                         *)
(* TypeOK and LevelInv are proved together, as neither is inductive alone: *)
(* popping levels keeps the sequences of a state well formed only if       *)
(* root <= bt <= DL, and the order is about numbers only if the state is   *)
(* well typed. Good(s) is the part of both that concerns the solver state. *)
(* The operators of SolverState get one lemma each, SolverState's list walk*)
(* by induction over its positions (NatSetInduction). Then there is one    *)
(* lemma per group of actions, each with a step per action.                *)
(***************************************************************************)
(* Induction on a set of numbers, from the well-foundedness of <.          *)
LEMMA NatSetInduction ==
  ASSUME NEW S, 0 \in S, \A n \in Nat : n \in S => n + 1 \in S
  PROVE  Nat \subseteq S
<1> SUFFICES ASSUME Nat \ S # {} PROVE FALSE
  OBVIOUS
<1>1. PICK n \in Nat \ S : \A m \in Nat \ S : ~(<<m, n>> \in OpToRel(<, Nat))
  BY NatLessThanWellFounded, WFMin
<1>2. n # 0
  OBVIOUS
<1>3. n - 1 \in S
  <2>1. n - 1 \in Nat
    BY <1>2
  <2>2. <<n - 1, n>> \in OpToRel(<, Nat)
    BY <2>1 DEF OpToRel
  <2> QED
    BY <1>1, <2>1, <2>2
<1> QED
  BY <1>3, <1>2

(***************************************************************************)
(* The operators of SolverState keep a solver state a solver state; none   *)
(* but those named for it changes the levels.                              *)
(***************************************************************************)
LevelsSame(s, t) ==
  /\ t.decisions = s.decisions /\ t.root = s.root /\ t.bt = s.bt /\ t.stop = s.stop

LEMMA LitFacts ==
  /\ Lit \subseteq Int /\ 0 \notin Lit
  /\ \A l \in Lit : -l \in Lit /\ Var(l) \in Vars
  /\ \A c \in SUBSET Lit : Neg(c) \in SUBSET Lit
BY NumVarsAssumption DEF Lit, Vars, Var, Neg

LEMMA LevelOfNat ==
  ASSUME NEW s \in State, NEW l
  PROVE  LevelOf(s, l) \in Nat
<1>1. CASE PositionsOf(s, l) = {}
  BY <1>1 DEF LevelOf
<1>2. CASE PositionsOf(s, l) # {}
  <2> DEFINE i == CHOOSE i \in PositionsOf(s, l) : TRUE
  <2>1. i \in DOMAIN s.trail
    BY <1>2 DEF PositionsOf
  <2>2. s.trail[i] \in Entry
    BY <2>1 DEF State
  <2> QED
    BY <1>2, <2>2 DEF LevelOf, Entry
<1> QED
  BY <1>1, <1>2

LEMMA UpToType ==
  ASSUME NEW s \in State, NEW level
  PROVE  UpTo(s, level) \in 0..Len(s.trail)
<1> DEFINE P == {i \in DOMAIN s.trail : s.trail[i].level <= level}
<1>1. Len(s.trail) \in Nat /\ DOMAIN s.trail = 1..Len(s.trail)
  BY DEF State
<1>2. IsFiniteSet(1..Len(s.trail)) /\ Cardinality(1..Len(s.trail)) = Len(s.trail)
  BY <1>1, FS_Interval, 1 \in Int
<1>3. IsFiniteSet(P) /\ Cardinality(P) <= Len(s.trail)
  BY <1>1, <1>2, FS_Subset
<1>4. Cardinality(P) \in Nat
  BY <1>3, FS_CardinalityType
<1> QED
  BY <1>1, <1>3, <1>4 DEF UpTo

LEMMA SetConflictType ==
  ASSUME NEW s \in State, NEW l \in Lit, NEW ante \in SUBSET Lit
  PROVE  SetConflict(s, l, ante) \in State /\ LevelsSame(s, SetConflict(s, l, ante))
<1>1. {-l} \cup Neg(ante \ {l}) \in SUBSET Lit
  BY LitFacts
<1> QED
  BY <1>1 DEF SetConflict, State, LevelsSame

LEMMA ForceType ==
  ASSUME NEW s \in State, NEW l \in Lit, NEW ante \in SUBSET Lit
  PROVE  ForceLit(s, l, ante) \in State /\ LevelsSame(s, ForceLit(s, l, ante))
<1> DEFINE e == [lit |-> l, level |-> DL(s), ante |-> ante]
           t == [s EXCEPT !.trail = Append(@, e)]
<1>1. e \in Entry
  BY DEF Entry, DL, State
<1>2. Append(s.trail, e) \in Seq(Entry)
  BY <1>1, AppendProperties DEF State
<1>3. t \in State /\ LevelsSame(s, t)
  BY <1>2 DEF State, LevelsSame
<1>4. LevelsSame(s, s)
  BY DEF LevelsSame
<1> QED
  BY <1>3, <1>4, SetConflictType DEF ForceLit

LEMMA SetReasonType ==
  ASSUME NEW s \in State, NEW l, NEW ante \in SUBSET Lit
  PROVE  SetReason(s, l, ante) \in State /\ LevelsSame(s, SetReason(s, l, ante))
<1> DEFINE r == [i \in DOMAIN s.trail |-> IF s.trail[i].lit = l
                    THEN [s.trail[i] EXCEPT !.ante = ante] ELSE s.trail[i]]
<1>1. Len(s.trail) \in Nat /\ DOMAIN s.trail = 1..Len(s.trail)
  BY DEF State
<1>2. \A i \in DOMAIN s.trail : s.trail[i] \in Entry
  BY DEF State
<1>3. \A e \in Entry : [e EXCEPT !.ante = ante] \in Entry
  BY DEF Entry
<1>4. r \in [1..Len(s.trail) -> Entry]
  BY <1>1, <1>2, <1>3
<1>5. r \in Seq(Entry)
  BY <1>1, <1>4, SeqDef
<1>6. SetReason(s, l, ante) = [s EXCEPT !.trail = r]
  BY DEF SetReason
<1> QED
  BY <1>5, <1>6 DEF State, LevelsSame

LEMMA AddImpliedType ==
  ASSUME NEW s \in State, NEW e \in Entry
  PROVE  AddImplied(s, e) \in State /\ LevelsSame(s, AddImplied(s, e))
<1>1. MaxOf(s.implied.level, DL(s)) \in Nat
  BY DEF MaxOf, DL, State
<1>2. Append(s.implied.lits, e) \in Seq(Entry)
  BY AppendProperties DEF State
<1> QED
  BY <1>1, <1>2 DEF AddImplied, State, LevelsSame

(***************************************************************************)
(* ImpliedList::assign: the function that walks over the list exists, and  *)
(* each step leaves a state with the same levels.                          *)
(***************************************************************************)
Walk(s, n, f) ==
  f = [i \in 0..n |-> IF i = 0 THEN [sol |-> s, kept |-> <<>>] ELSE AssignNext(s, i, f[i - 1])]

LEMMA WalkExists ==
  ASSUME NEW s
  PROVE  \A n \in Nat : \E f : Walk(s, n, f)
<1> DEFINE S == {n \in Nat : \E f : Walk(s, n, f)}
<1>1. 0 \in S
  <2>1. Walk(s, 0, [i \in 0..0 |-> [sol |-> s, kept |-> <<>>]])
    BY DEF Walk
  <2> QED
    BY <2>1
<1>2. \A n \in Nat : n \in S => n + 1 \in S
  <2> SUFFICES ASSUME NEW n \in Nat, NEW f, Walk(s, n, f) PROVE \E g : Walk(s, n + 1, g)
    OBVIOUS
  <2> DEFINE g == [i \in 0..(n + 1) |-> IF i <= n THEN f[i] ELSE AssignNext(s, n + 1, f[n])]
  <2>1. \A i \in 0..n : f[i] = IF i = 0 THEN [sol |-> s, kept |-> <<>>]
                                ELSE AssignNext(s, i, f[i - 1])
    BY DEF Walk
  <2>2. \A i \in 0..n : g[i] = f[i]
    OBVIOUS
  <2>3. g[n + 1] = AssignNext(s, n + 1, g[n])
    BY <2>2
  <2>4. ASSUME NEW i \in 0..(n + 1)
        PROVE  g[i] = IF i = 0 THEN [sol |-> s, kept |-> <<>>] ELSE AssignNext(s, i, g[i - 1])
    <3>1. CASE i = n + 1
      BY <3>1, <2>3
    <3>2. CASE i = 0
      BY <3>2, <2>1, <2>2
    <3>3. CASE i \in 1..n
      <4>1. i \in 0..n /\ i - 1 \in 0..n /\ i # 0
        BY <3>3
      <4> HIDE DEF g
      <4> QED
        BY <4>1, <2>1, <2>2
    <3> QED
      BY <3>1, <3>2, <3>3
  <2>5. g = [i \in 0..(n + 1) |-> g[i]]
    OBVIOUS
  <2> HIDE DEF g
  <2>6. Walk(s, n + 1, g)
    BY <2>4, <2>5 DEF Walk
  <2> QED
    BY <2>6
<1> HIDE DEF S
<1>3. Nat \subseteq S
  BY <1>1, <1>2, NatSetInduction
<1> QED
  BY <1>3 DEF S

Walked == [sol : State, kept : Seq(Entry)]

LEMMA AssignNextType ==
  ASSUME NEW s \in State, NEW i \in 1..Len(s.implied.lits),
         NEW acc \in Walked, LevelsSame(s, acc.sol)
  PROVE  AssignNext(s, i, acc) \in Walked /\ LevelsSame(s, AssignNext(s, i, acc).sol)
<1> DEFINE e == s.implied.lits[i]
<1>1. e \in Entry /\ e.lit \in Lit /\ e.ante \in SUBSET Lit
  <2>1. s.implied.lits \in Seq(Entry)
    BY DEF State
  <2>2. e \in Entry
    BY <2>1
  <2> QED
    BY <2>2 DEF Entry
<1>2. ForceLit(acc.sol, e.lit, e.ante) \in State
      /\ LevelsSame(acc.sol, ForceLit(acc.sol, e.lit, e.ante))
  BY <1>1, ForceType DEF Walked
<1>3. Append(acc.kept, e) \in Seq(Entry)
  BY <1>1, AppendProperties DEF Walked
<1>4. acc.sol \in State /\ acc.kept \in Seq(Entry)
  BY DEF Walked
<1>5. LevelsSame(s, ForceLit(acc.sol, e.lit, e.ante))
  BY <1>2 DEF LevelsSame
<1> QED
  BY <1>2, <1>3, <1>4, <1>5 DEF AssignNext, Walked

(* The walk, as an equation for each position of the list.                 *)
LEMMA AssignUpToSteps ==
  ASSUME NEW s \in State
  PROVE  /\ AssignUpTo(s)[0] = [sol |-> s, kept |-> <<>>]
         /\ \A i \in 1..Len(s.implied.lits) : AssignUpTo(s)[i] = AssignNext(s, i, AssignUpTo(s)[i - 1])
<1> DEFINE n == Len(s.implied.lits)
           f == AssignUpTo(s)
<1>1. n \in Nat
  BY DEF State
<1>2. \E g : Walk(s, n, g)
  BY <1>1, WalkExists
<1>3. f = CHOOSE g : Walk(s, n, g)
  BY DEF AssignUpTo, Walk
<1>4. Walk(s, n, f)
  BY <1>2, <1>3
<1> HIDE DEF f, n
<1>5. \A i \in 0..n : f[i] = IF i = 0 THEN [sol |-> s, kept |-> <<>>]
                                ELSE AssignNext(s, i, f[i - 1])
  BY <1>4 DEF Walk
<1>6. \A i \in 1..n : f[i] = AssignNext(s, i, f[i - 1])
  <2> SUFFICES ASSUME NEW i \in 1..n PROVE f[i] = AssignNext(s, i, f[i - 1])
    OBVIOUS
  <2>1. i \in 0..n /\ i # 0
    BY <1>1
  <2> QED
    BY <2>1, <1>5
<1>7. f[0] = [sol |-> s, kept |-> <<>>]
  BY <1>5, <1>1
<1> QED
  BY <1>6, <1>7 DEF f, n

LEMMA AssignUpToType ==
  ASSUME NEW s \in State
  PROVE  LET done == AssignUpTo(s)[Len(s.implied.lits)]
         IN done \in Walked /\ LevelsSame(s, done.sol)
<1> DEFINE n == Len(s.implied.lits)
           f == AssignUpTo(s)
<1>1. n \in Nat
  BY DEF State
<1>6. \A i \in 1..n : f[i] = AssignNext(s, i, f[i - 1])
  BY AssignUpToSteps
<1>f. f[0].sol = s /\ f[0] \in Walked
  <2>1. f[0] = [sol |-> s, kept |-> <<>>]
    BY AssignUpToSteps
  <2>2. <<>> \in Seq(Entry)
    OBVIOUS
  <2> QED
    BY <2>1, <2>2 DEF Walked
<1> HIDE DEF f, n
<1> DEFINE S == {i \in Nat : i <= n => f[i] \in Walked /\ LevelsSame(s, f[i].sol)}
<1>7. 0 \in S
  BY <1>f, <1>1 DEF LevelsSame
<1>8. \A i \in Nat : i \in S => i + 1 \in S
  <2> SUFFICES ASSUME NEW i \in Nat, i \in S, i + 1 <= n
               PROVE  f[i + 1] \in Walked /\ LevelsSame(s, f[i + 1].sol)
    OBVIOUS
  <2>1. f[i] \in Walked /\ LevelsSame(s, f[i].sol)
    BY <1>1
  <2>2. i + 1 \in 1..n /\ (i + 1) - 1 = i
    BY <1>1
  <2>3. f[i + 1] = AssignNext(s, i + 1, f[i])
    BY <1>6, <2>2
  <2> QED
    BY <2>1, <2>2, <2>3, AssignNextType DEF n
<1>9. Nat \subseteq S
  <2> HIDE DEF S
  <2> QED
    BY <1>7, <1>8, NatSetInduction
<1> QED
  BY <1>1, <1>9 DEF f, n

LEMMA ImpliedAssignType ==
  ASSUME NEW s \in State
  PROVE  ImpliedAssign(s) \in State /\ LevelsSame(s, ImpliedAssign(s))
<1> DEFINE done  == AssignUpTo(s)[Len(s.implied.lits)]
           level == IF done.kept = <<>> THEN 0 ELSE DL(s)
           front == IF level > s.root THEN s.implied.front ELSE Len(done.kept)
           new   == [lits |-> done.kept, level |-> level, front |-> front]
<1>1. done \in Walked /\ LevelsSame(s, done.sol)
  BY AssignUpToType
<1>2. ImpliedAssign(s) = [done.sol EXCEPT !.implied = new]
  BY DEF ImpliedAssign
<1> HIDE DEF done
<1>3. done.sol \in State /\ done.kept \in Seq(Entry) /\ Len(done.kept) \in Nat
  BY <1>1 DEF Walked
<1>4. level \in Nat /\ front \in Nat
  <2>1. DL(s) \in Nat /\ s.implied.front \in Nat
    BY DEF DL, State
  <2> QED
    BY <1>3, <2>1
<1>5. new \in [lits : Seq(Entry), level : Nat, front : Nat]
  BY <1>3, <1>4
<1> HIDE DEF new
<1> QED
  BY <1>1, <1>2, <1>3, <1>5 DEF State, LevelsSame

(***************************************************************************)
(* The levels.                                                             *)
(***************************************************************************)
(* LevelInv, for any state.                                                *)
Levels(s) ==
  /\ s.root <= s.bt /\ s.bt <= DL(s)
  /\ s.stop.set => s.stop.root <= s.stop.bt /\ s.stop.bt <= s.root

Good(s) == s \in State /\ Levels(s)

(* t has at least the root path of s.                                      *)
Keeps(s, t) ==
  /\ t.root >= s.root
  /\ \A k \in 1..s.root : k \in DOMAIN t.decisions /\ t.decisions[k] = s.decisions[k]

LEMMA KeepsRefl ==
  ASSUME NEW s, Good(s)
  PROVE  Keeps(s, s)
BY DEF Good, Levels, Keeps, State, DL

LEMMA KeepsTrans ==
  ASSUME NEW s, NEW t, NEW u, Good(s), Good(t), Good(u), Keeps(s, t), Keeps(t, u)
  PROVE  Keeps(s, u)
<1>1. s.root \in Nat /\ t.root \in Nat /\ u.root \in Nat
  BY DEF Good, State
<1> QED
  BY <1>1 DEF Keeps

LEMMA SameIsGood ==
  ASSUME NEW s, Good(s), NEW t \in State, LevelsSame(s, t)
  PROVE  Good(t) /\ Keeps(s, t)
<1>1. Levels(t)
  BY DEF Good, Levels, LevelsSame, DL
<1>2. Keeps(s, t)
  BY KeepsRefl DEF LevelsSame, Keeps
<1> QED
  BY <1>1, <1>2 DEF Good

LEMMA UndoUntilType ==
  ASSUME NEW s \in State, NEW level \in Nat
  PROVE  LET t == UndoUntil(s, level)
             target == MaxOf(level, s.bt)
         IN /\ t \in State /\ t.root = s.root /\ t.bt = s.bt /\ t.stop = s.stop
            /\ t.decisions = IF DL(s) <= target THEN s.decisions
                             ELSE SubSeq(s.decisions, 1, target)
<1> DEFINE target == MaxOf(level, s.bt)
           cut    == [s EXCEPT !.trail = SubSeq(@, 1, UpTo(s, target)),
                               !.decisions = SubSeq(@, 1, target)]
           popped == IF DL(s) <= target THEN s ELSE cut
           reset  == [popped EXCEPT !.front = Len(popped.trail), !.conflict = NoConflict]
<1>1. target \in Nat /\ DL(s) \in Nat
  BY DEF MaxOf, State, DL
<1>2. SubSeq(s.trail, 1, UpTo(s, target)) \in Seq(Entry)
  <2>1. UpTo(s, target) \in 0..Len(s.trail)
    BY UpToType
  <2>2. s.trail \in Seq(Entry) /\ Len(s.trail) \in Nat
    BY DEF State
  <2>3. \A i \in 1..UpTo(s, target) : s.trail[i] \in Entry
    BY <2>1, <2>2
  <2> QED
    BY <2>1, <2>2, <2>3, SubSeqProperties
<1>3. ASSUME DL(s) > target PROVE SubSeq(s.decisions, 1, target) \in Seq(Lit)
  <2>1. s.decisions \in Seq(Lit) /\ Len(s.decisions) \in Nat
    BY DEF State
  <2>2. \A i \in 1..target : s.decisions[i] \in Lit
    BY <2>1, <1>1, <1>3 DEF DL
  <2> QED
    BY <1>1, <2>1, <2>2, SubSeqProperties
<1> HIDE DEF target
<1>4. /\ popped \in State /\ popped.root = s.root /\ popped.bt = s.bt /\ popped.stop = s.stop
      /\ popped.decisions = IF DL(s) <= target THEN s.decisions
                            ELSE SubSeq(s.decisions, 1, target)
  <2>1. CASE DL(s) <= target
    BY <2>1
  <2>2. CASE ~(DL(s) <= target)
    <3>1. SubSeq(s.decisions, 1, target) \in Seq(Lit)
      BY <2>2, <1>1, <1>3
    <3> QED
      BY <2>2, <1>2, <3>1 DEF State
  <2> QED
    BY <2>1, <2>2
<1> HIDE DEF popped
<1>5. reset \in State /\ LevelsSame(popped, reset)
  <2>1. Len(popped.trail) \in Nat
    BY <1>4 DEF State
  <2>2. NoConflict \in [has : BOOLEAN, lits : SUBSET Lit]
    BY DEF NoConflict
  <2> QED
    BY <1>4, <2>1, <2>2 DEF State, LevelsSame
<1>6. ImpliedAssign(reset) \in State /\ LevelsSame(reset, ImpliedAssign(reset))
  BY <1>5, ImpliedAssignType
<1>7. UndoUntil(s, level) = IF ImpliedActive(reset) THEN ImpliedAssign(reset) ELSE reset
  BY DEF UndoUntil, popped, target
<1> HIDE DEF reset
<1> QED
  BY <1>4, <1>5, <1>6, <1>7 DEF LevelsSame, target

(* Undoing stops at the backtrack level.                                   *)
LEMMA UndoUntilGood ==
  ASSUME NEW s, Good(s), NEW level \in Nat
  PROVE  LET t == UndoUntil(s, level)
         IN Good(t) /\ Keeps(s, t) /\ t.root = s.root /\ t.bt = s.bt
<1> DEFINE t == UndoUntil(s, level)
           target == MaxOf(level, s.bt)
<1>1. s \in State /\ s.root \in Nat /\ s.bt \in Nat /\ DL(s) \in Nat
  BY DEF Good, State, DL
<1>2. /\ t \in State /\ t.root = s.root /\ t.bt = s.bt /\ t.stop = s.stop
      /\ t.decisions = IF DL(s) <= target THEN s.decisions ELSE SubSeq(s.decisions, 1, target)
  BY <1>1, UndoUntilType
<1> HIDE DEF t
<1>3. target \in Nat /\ target >= s.bt
  BY <1>1 DEF MaxOf
<1> HIDE DEF target
<1>4. CASE DL(s) <= target
  <2>1. LevelsSame(s, t)
    BY <1>2, <1>4 DEF LevelsSame
  <2> QED
    BY <2>1, <1>2, SameIsGood DEF t
<1>5. CASE target < DL(s)
  <2>1. s.decisions \in Seq(Lit) /\ Len(s.decisions) = DL(s)
    BY <1>1 DEF State, DL
  <2>2. \A i \in 1..target : s.decisions[i] \in Lit
    BY <2>1, <1>1, <1>3, <1>5
  <2>3. t.decisions = SubSeq(s.decisions, 1, target)
    BY <1>2, <1>5, <1>1, <1>3
  <2>4. /\ Len(t.decisions) = target
        /\ \A i \in 1..target : t.decisions[i] = s.decisions[i]
        /\ DOMAIN t.decisions = 1..target
    BY <2>1, <2>2, <2>3, <1>3, <1>1, <1>5
  <2>5. Levels(t)
    BY <1>2, <2>4, <1>3, <1>1 DEF Good, Levels, DL
  <2>6. Keeps(s, t)
    BY <1>1, <1>2, <1>3, <2>4 DEF Keeps, Good, Levels
  <2> QED
    BY <1>2, <2>5, <2>6 DEF Good, t
<1> QED
  BY <1>1, <1>3, <1>4, <1>5

LEMMA ForceGood ==
  ASSUME NEW s, Good(s), NEW l \in Lit, NEW ante \in SUBSET Lit
  PROVE  Good(ForceLit(s, l, ante)) /\ Keeps(s, ForceLit(s, l, ante))
BY ForceType, SameIsGood DEF Good

LEMMA SetReasonGood ==
  ASSUME NEW s, Good(s), NEW l, NEW ante \in SUBSET Lit
  PROVE  Good(SetReason(s, l, ante)) /\ Keeps(s, SetReason(s, l, ante))
BY SetReasonType, SameIsGood DEF Good

LEMMA AddImpliedGood ==
  ASSUME NEW s, Good(s), NEW e \in Entry
  PROVE  Good(AddImplied(s, e)) /\ Keeps(s, AddImplied(s, e))
BY AddImpliedType, SameIsGood DEF Good

LEMMA ForceImpliedGood ==
  ASSUME NEW s, Good(s), NEW l \in Lit, NEW level \in Nat, NEW ante \in SUBSET Lit
  PROVE  Good(ForceImplied(s, l, level, ante)) /\ Keeps(s, ForceImplied(s, l, level, ante))
<1> DEFINE lits   == s.implied.lits
           known  == {i \in DOMAIN lits : lits[i].lit = l}
           first  == CHOOSE i \in known : \A j \in known : i <= j
           entry  == [lit |-> l, level |-> level, ante |-> ante]
           undone == UndoUntil(s, level)
           noted  == IF DL(undone) # level THEN AddImplied(undone, entry) ELSE undone
           moved  == [s EXCEPT !.implied.lits[first] = entry]
           r      == ForceImplied(s, l, level, ante)
<1>1. entry \in Entry
  BY DEF Entry
<1>2. Good(noted) /\ Keeps(s, noted)
  <2>1. Good(undone) /\ Keeps(s, undone)
    BY UndoUntilGood
  <2> HIDE DEF undone, entry
  <2>2. Good(AddImplied(undone, entry)) /\ Keeps(undone, AddImplied(undone, entry))
    BY <2>1, <1>1, AddImpliedGood
  <2> QED
    BY <2>1, <2>2, KeepsTrans
<1>3. moved \in State /\ LevelsSame(s, moved)
  <2>1. lits \in Seq(Entry) /\ DOMAIN lits = 1..Len(lits)
    BY DEF Good, State
  <2> HIDE DEF first, entry
  <2>2. [lits EXCEPT ![first] = entry] \in Seq(Entry)
    <3>1. CASE first \in 1..Len(lits)
      BY <2>1, <1>1, <3>1, ExceptSeq
    <3>2. CASE first \notin 1..Len(lits)
      <4>1. [lits EXCEPT ![first] = entry] = lits
        BY <2>1, <3>2
      <4> QED
        BY <4>1, <2>1
    <3> QED
      BY <3>1, <3>2
  <2>3. moved = [s EXCEPT !.implied = [s.implied EXCEPT !.lits = [lits EXCEPT ![first] = entry]]]
    OBVIOUS
  <2> QED
    BY <2>2, <2>3 DEF Good, State, LevelsSame
<1>4. Good(moved) /\ Keeps(s, moved)
  BY <1>3, SameIsGood
<1>5. /\ Good(SetReason(moved, l, ante)) /\ Keeps(s, SetReason(moved, l, ante))
      /\ Good(SetReason(noted, l, ante)) /\ Keeps(s, SetReason(noted, l, ante))
      /\ Good(ForceLit(noted, l, ante)) /\ Keeps(s, ForceLit(noted, l, ante))
  <2> HIDE DEF moved, noted
  <2>1. /\ Good(SetReason(moved, l, ante)) /\ Keeps(moved, SetReason(moved, l, ante))
        /\ Good(SetReason(noted, l, ante)) /\ Keeps(noted, SetReason(noted, l, ante))
        /\ Good(ForceLit(noted, l, ante)) /\ Keeps(noted, ForceLit(noted, l, ante))
    BY <1>2, <1>4, SetReasonGood, ForceGood
  <2> QED
    BY <1>2, <1>4, <2>1, KeepsTrans
<1>6. r \in {s, SetReason(moved, l, ante), SetReason(noted, l, ante), ForceLit(noted, l, ante)}
  BY DEF ForceImplied
<1> HIDE DEF r, moved, noted
<1> QED
  BY <1>5, <1>6, KeepsRefl DEF r

LEMMA ForceAtLevelGood ==
  ASSUME NEW s, Good(s), NEW l \in Lit, NEW level \in Nat, NEW ante \in SUBSET Lit
  PROVE  Good(ForceAtLevel(s, l, level, ante)) /\ Keeps(s, ForceAtLevel(s, l, level, ante))
BY ForceGood, ForceImpliedGood DEF ForceAtLevel

LEMMA AssumeGood ==
  ASSUME NEW s, Good(s), NEW l \in Lit
  PROVE  Good(Assume(s, l)) /\ Keeps(s, Assume(s, l))
<1> DEFINE t == [s EXCEPT !.decisions = Append(@, l)]
<1>1. NoAnte \in SUBSET Lit
  BY DEF NoAnte
<1>2. s \in State /\ s.decisions \in Seq(Lit) /\ Len(s.decisions) \in Nat
  BY DEF Good, State
<1>3. /\ t.decisions \in Seq(Lit) /\ Len(t.decisions) = Len(s.decisions) + 1
      /\ DOMAIN t.decisions = 1..(Len(s.decisions) + 1)
      /\ \A k \in 1..Len(s.decisions) : t.decisions[k] = s.decisions[k]
  BY <1>2, AppendProperties DEF State
<1>4. t \in State /\ t.root = s.root /\ t.bt = s.bt /\ t.stop = s.stop
  BY <1>2, <1>3 DEF State
<1> HIDE DEF t
<1>5. Good(t)
  BY SMTT(40), <1>2, <1>3, <1>4 DEF Good, Levels, DL, State
<1>6. Keeps(s, t)
  <2>1. s.root \in Nat /\ s.root <= Len(s.decisions)
    BY <1>2 DEF Good, Levels, DL, State
  <2> QED
    BY <1>2, <1>3, <1>4, <2>1 DEF Keeps
<1>7. Good(ForceLit(t, l, NoAnte)) /\ Keeps(s, ForceLit(t, l, NoAnte))
  BY <1>1, <1>5, <1>6, ForceGood, KeepsTrans
<1>8. Good(SetConflict(s, l, NoAnte)) /\ Keeps(s, SetConflict(s, l, NoAnte))
  BY <1>1, <1>2, SetConflictType, SameIsGood
<1> QED
  BY <1>7, <1>8, KeepsRefl DEF Assume, t

LEMMA PushRootLevelGood ==
  ASSUME NEW s, Good(s), NEW n \in Nat
  PROVE  Good(PushRootLevel(s, n)) /\ Keeps(s, PushRootLevel(s, n))
<1> DEFINE t == PushRootLevel(s, n)
<1>1. s \in State /\ s.root \in Nat /\ s.bt \in Nat /\ DL(s) \in Nat
      /\ s.stop.root \in Nat /\ s.stop.bt \in Nat
  BY DEF Good, State, DL
<1>2. /\ t.root = MinOf(DL(s), s.root + n) /\ t.bt = MaxOf(s.bt, t.root)
      /\ t.decisions = s.decisions /\ t.stop = s.stop
  BY <1>1 DEF PushRootLevel, State
<1>3. t.root \in Nat /\ t.bt \in Nat /\ t.root >= s.root /\ t.root <= t.bt /\ t.bt <= DL(s)
  BY <1>1, <1>2 DEF MinOf, MaxOf, Good, Levels
<1>4. t \in State
  BY <1>1, <1>2, <1>3 DEF PushRootLevel, State
<1>5. Levels(t)
  BY <1>1, <1>2, <1>3 DEF Good, Levels, DL
<1>6. Keeps(s, t)
  BY <1>2, <1>3, KeepsRefl DEF Keeps
<1> QED
  BY <1>4, <1>5, <1>6 DEF Good

LEMMA ClearStopConflictGood ==
  ASSUME NEW s, Good(s)
  PROVE  Good(ClearStopConflict(s))
<1> DEFINE t == ClearStopConflict(s)
<1>1. CASE ~s.stop.set
  BY <1>1 DEF ClearStopConflict
<1>2. CASE s.stop.set
  <2>1. s.stop \in [set : BOOLEAN, root : Nat, bt : Nat, front : Nat]
    BY DEF Good, State
  <2>2. t \in State /\ t.root = s.stop.root /\ t.bt = s.stop.bt /\ t.decisions = s.decisions
        /\ t.stop = NoStop
    BY <1>2, <2>1 DEF Good, State, ClearStopConflict, NoStop, NoConflict
  <2> HIDE DEF t
  <2>3. s.root \in Nat /\ s.bt \in Nat /\ DL(s) \in Nat /\ ~NoStop.set
    BY DEF Good, State, DL, NoStop
  <2> QED
    BY <1>2, <2>1, <2>2, <2>3 DEF Good, Levels, DL, t
<1> QED
  BY <1>1, <1>2

LEMMA SetStopConflictGood ==
  ASSUME NEW s, Good(s)
  PROVE  Good(SetStopConflict(s)) /\ Keeps(s, SetStopConflict(s))
<1> DEFINE saved == [set |-> TRUE, root |-> s.root, bt |-> s.bt, front |-> s.front]
           t == IF s.conflict.has THEN s
                ELSE [s EXCEPT !.stop = saved, !.conflict = [has |-> TRUE, lits |-> {}]]
           u == SetStopConflict(s)
<1>1. /\ s \in State /\ s.root \in Nat /\ s.bt \in Nat /\ s.front \in Nat /\ DL(s) \in Nat
      /\ s.stop \in [set : BOOLEAN, root : Nat, bt : Nat, front : Nat]
  BY DEF Good, State, DL
<1>2. /\ t \in State /\ t.decisions = s.decisions /\ t.root = s.root /\ t.bt = s.bt
      /\ t.stop = s.stop \/ t.stop = saved
  BY <1>1 DEF State
<1>3. u = PushRootLevel(t, DL(s))
  BY DEF SetStopConflict
<1> HIDE DEF t
<1>4. /\ u.root = MinOf(DL(s), s.root + DL(s)) /\ u.bt = MaxOf(s.bt, u.root)
      /\ u.decisions = s.decisions /\ u.stop = t.stop
  BY <1>1, <1>2, <1>3 DEF PushRootLevel, State, DL
<1>5. u.root = DL(s) /\ u.bt = DL(s)
  BY <1>1, <1>4 DEF MinOf, MaxOf, Good, Levels
<1>6. u \in State
  BY <1>1, <1>2, <1>3, <1>4, <1>5 DEF PushRootLevel, State
<1> HIDE DEF u
<1>7. Levels(u)
  BY <1>1, <1>2, <1>4, <1>5 DEF Good, Levels, DL
<1>8. Keeps(s, u)
  BY <1>1, <1>4, <1>5, KeepsRefl DEF Keeps, Good, Levels
<1> QED
  BY <1>6, <1>7, <1>8 DEF Good, u

LEMMA PopRootLevelGood ==
  ASSUME NEW s, Good(s), NEW n \in Nat
  PROVE  Good(PopRootLevel(s, n))
<1> DEFINE c    == ClearStopConflict(s)
           root == IF c.root >= n THEN c.root - n ELSE 0
           t    == [c EXCEPT !.root = root, !.bt = root, !.implied.front = 0]
<1>1. Good(c)
  BY ClearStopConflictGood
<1>2. PopRootLevel(s, n) = UndoUntil(t, root)
  BY DEF PopRootLevel
<1>s. ~c.stop.set
  BY DEF ClearStopConflict, Good, State, NoStop
<1> HIDE DEF c
<1>3. /\ c \in State /\ c.root \in Nat /\ c.bt \in Nat /\ DL(c) \in Nat
      /\ c.root <= c.bt /\ c.bt <= DL(c)
      /\ c.implied \in [lits : Seq(Entry), level : Nat, front : Nat]
  <2>1. c \in State /\ c.root <= c.bt /\ c.bt <= DL(c)
    BY <1>1 DEF Good, Levels
  <2> QED
    BY <2>1 DEF State, DL
<1>4. root \in Nat /\ root <= DL(c)
  BY <1>3
<1> HIDE DEF root
<1>5. t \in State /\ t.root = root /\ t.bt = root /\ t.decisions = c.decisions /\ t.stop = c.stop
  <2>1. [c.implied EXCEPT !.front = 0] \in [lits : Seq(Entry), level : Nat, front : Nat]
    BY <1>3
  <2> QED
    BY <1>3, <1>4, <2>1 DEF State
<1> HIDE DEF t
<1>6. Good(t)
  BY <1>3, <1>4, <1>5, <1>s DEF Good, Levels, DL
<1> QED
  BY <1>2, <1>4, <1>6, UndoUntilGood

LEMMA SetBacktrackLevelGood ==
  ASSUME NEW s, Good(s), NEW n \in Nat
  PROVE  Good(SetBacktrackLevel(s, n)) /\ Keeps(s, SetBacktrackLevel(s, n))
<1> DEFINE t == SetBacktrackLevel(s, n)
<1>1. s \in State /\ s.root \in Nat /\ s.bt \in Nat /\ DL(s) \in Nat
      /\ s.stop.root \in Nat /\ s.stop.bt \in Nat
  BY DEF Good, State, DL
<1>2. /\ t.bt = MaxOf(MinOf(n, DL(s)), s.root)
      /\ t.root = s.root /\ t.decisions = s.decisions /\ t.stop = s.stop
  BY <1>1 DEF SetBacktrackLevel, State
<1>3. t.bt \in Nat /\ s.root <= t.bt /\ t.bt <= DL(s)
  BY <1>1, <1>2 DEF MinOf, MaxOf, Good, Levels
<1>4. t \in State
  BY <1>1, <1>2, <1>3 DEF SetBacktrackLevel, State
<1>5. Levels(t)
  BY <1>1, <1>2, <1>3 DEF Good, Levels, DL
<1>6. Keeps(s, t)
  BY <1>2, KeepsRefl DEF Keeps
<1> QED
  BY <1>4, <1>5, <1>6 DEF Good

LEMMA BacktrackGood ==
  ASSUME NEW s, Good(s), NEW level \in Int
  PROVE  Good(Backtrack(s, level)) /\ Keeps(s, Backtrack(s, level))
<1> DEFINE u == UndoUntil(s, MaxOf(level, s.root))
           t == [u EXCEPT !.bt = MinOf(@, DL(u))]
<1>1. s.root \in Nat /\ MaxOf(level, s.root) \in Nat
  BY DEF Good, State, MaxOf
<1>2. Good(u) /\ Keeps(s, u)
  BY <1>1, UndoUntilGood
<1>3. Backtrack(s, level) = t
  BY DEF Backtrack
<1> HIDE DEF u
<1>4. u \in State /\ u.bt \in Nat /\ DL(u) \in Nat /\ u.bt <= DL(u)
  <2>1. u \in State /\ u.bt <= DL(u)
    BY <1>2 DEF Good, Levels
  <2>2. u.bt \in Nat /\ DL(u) \in Nat
    BY <2>1 DEF State, DL
  <2> QED
    BY <2>1, <2>2
<1>5. MinOf(u.bt, DL(u)) = u.bt
  BY <1>4 DEF MinOf
<1>6. t \in State /\ LevelsSame(u, t)
  BY <1>4, <1>5 DEF State, LevelsSame
<1> HIDE DEF t
<1> QED
  BY <1>2, <1>3, <1>6, SameIsGood, KeepsTrans

(***************************************************************************)
(* The operators of SolverKernel.                                          *)
(***************************************************************************)
LEMMA AssertedGood ==
  ASSUME NEW s, NEW t, Good(t), NEW c \in SUBSET Lit, NEW l0 \in Lit, NEW l1
  PROVE  Good(Asserted(s, t, c, l0, l1)) /\ Keeps(t, Asserted(s, t, c, l0, l1))
<1> DEFINE level == IF l1 = 0 THEN 0 ELSE LevelOf(t, l1)
<1>1. level \in Nat
  BY LevelOfNat DEF Good
<1> HIDE DEF level
<1>2. /\ Good(ForceAtLevel(t, l0, level, c))
      /\ Keeps(t, ForceAtLevel(t, l0, level, c))
  BY <1>1, ForceAtLevelGood
<1> QED
  BY <1>2, KeepsRefl DEF Asserted, level

LEMMA AddUnitGood ==
  ASSUME NEW s, Good(s), NEW l \in Lit
  PROVE  Good(AddUnit(s, l)) /\ Keeps(s, AddUnit(s, l))
BY ForceGood DEF AddUnit

LEMMA CreatedGood ==
  ASSUME NEW s, Good(s), NEW c \in SUBSET Lit, NEW l0 \in Lit, NEW l1
  PROVE  Good(Created(s, c, l0, l1)) /\ Keeps(s, Created(s, c, l0, l1))
BY AssertedGood, AddUnitGood, KeepsRefl DEF Created

LEMMA FlippedGood ==
  ASSUME NEW s, Good(s), DL(s) # s.root
  PROVE  /\ Good(Flipped(s)) /\ Keeps(s, Flipped(s))
         /\ -Decision(s, DL(s)) \in Lit
<1> DEFINE target == MaxOf(DL(s) - 1, s.root)
           free   == [s EXCEPT !.bt = target]
           undone == UndoUntil(free, target)
           flip   == -Decision(s, DL(s))
           back   == SetBacktrackLevel(undone, DL(undone))
<1>1. s \in State /\ s.root <= s.bt /\ s.bt <= DL(s)
  BY DEF Good, Levels
<1>2. s.root \in Nat /\ s.bt \in Nat /\ DL(s) \in Nat /\ s.stop.root \in Nat /\ s.stop.bt \in Nat
  BY <1>1 DEF State, DL
<1>3. target \in Nat /\ s.root <= target /\ target <= DL(s)
  BY <1>1, <1>2 DEF MaxOf
<1> HIDE DEF target
<1>4. flip \in Lit
  <2>1. DL(s) \in 1..Len(s.decisions) /\ s.decisions \in Seq(Lit)
    BY <1>1, <1>2 DEF DL, State
  <2>2. Decision(s, DL(s)) \in Lit
    BY <2>1 DEF Decision
  <2> QED
    BY <2>2, LitFacts
<1> HIDE DEF flip
<1>5. /\ free \in State /\ free.root = s.root /\ free.bt = target
      /\ free.decisions = s.decisions /\ free.stop = s.stop
  BY <1>1, <1>3 DEF State
<1> HIDE DEF free
<1>6. Good(free) /\ Keeps(s, free)
  <2>1. Levels(free)
    BY <1>1, <1>2, <1>3, <1>5 DEF Good, Levels, DL
  <2>2. Keeps(s, free)
    BY <1>5, KeepsRefl DEF Keeps
  <2> QED
    BY <1>5, <2>1, <2>2 DEF Good
<1>7. Good(undone) /\ Keeps(s, undone)
  BY <1>3, <1>6, UndoUntilGood, KeepsTrans
<1> HIDE DEF undone
<1>8. Good(back) /\ Keeps(s, back)
  <2>1. DL(undone) \in Nat
    BY <1>7 DEF Good, State, DL
  <2> QED
    BY <1>7, <2>1, SetBacktrackLevelGood, KeepsTrans
<1> HIDE DEF back
<1>9. Good(ForceLit(back, flip, NoAnte)) /\ Keeps(s, ForceLit(back, flip, NoAnte))
  <2>1. NoAnte \in SUBSET Lit
    BY DEF NoAnte
  <2> QED
    BY <1>4, <1>8, <2>1, ForceGood, KeepsTrans
<1>10. Flipped(s) = IF back.conflict.has THEN back ELSE ForceLit(back, flip, NoAnte)
  BY DEF Flipped, back, undone, free, flip, target
<1> QED
  BY <1>4, <1>8, <1>9, <1>10 DEF flip

LEMMA LitFinite == IsFiniteSet(Lit)
<1>1. IsFiniteSet(Vars)
  BY NumVarsAssumption, FS_Interval DEF Vars
<1>2. IsFiniteSet({-v : v \in Vars})
  <2> DEFINE f == [v \in Vars |-> -v]
  <2>1. f \in Surjection(Vars, {-v : v \in Vars})
    BY DEF Surjection
  <2> QED
    BY <1>1, <2>1, FS_Surjection
<1> QED
  BY <1>1, <1>2, FS_Union DEF Lit

LEMMA SimplifiedType ==
  ASSUME NEW clauses \in SUBSET SUBSET Lit, NEW s
  PROVE  Simplified(clauses, s) \in SUBSET SUBSET Lit
<1> SUFFICES ASSUME NEW d \in Simplified(clauses, s) PROVE d \in SUBSET Lit
  OBVIOUS
<1> DEFINE top  == TopLits(s)
           open == {c \in clauses : c \cap top = {}}
<1>1. d \in open \/ \E c \in open : d = c \ Neg(top)
  BY DEF Simplified
<1> HIDE DEF top
<1> QED
  BY <1>1

LEMMA StoreType ==
  ASSUME imps \subseteq SUBSET Lit, Explicit \subseteq SUBSET Lit,
         watches \in [Explicit -> SUBSET Lit], NEW c \in SUBSET Lit,
         NEW w, w \in SUBSET Lit \/ Cardinality(c) <= 1
  PROVE  /\ StoreImp(c) \subseteq SUBSET Lit
         /\ DOMAIN StoreExplicit(c, w) \subseteq SUBSET Lit
         /\ StoreExplicit(c, w) \in [DOMAIN StoreExplicit(c, w) -> SUBSET Lit]
<1>1. StoreImp(c) \subseteq SUBSET Lit
  BY DEF StoreImp
<1>2. CASE Cardinality(c) > 3 /\ c \notin Explicit /\ w \in SUBSET Lit
  <2> DEFINE new == [k \in Explicit \cup {c} |-> IF k = c THEN w ELSE watches[k]]
  <2>1. StoreExplicit(c, w) = new
    BY <1>2 DEF StoreExplicit
  <2>2. new \in [Explicit \cup {c} -> SUBSET Lit]
    BY <1>2
  <2>3. DOMAIN new = Explicit \cup {c}
    OBVIOUS
  <2> HIDE DEF new
  <2> QED
    BY <1>1, <2>1, <2>2, <2>3
<1>3. CASE ~(Cardinality(c) > 3 /\ c \notin Explicit)
  <2>1. StoreExplicit(c, w) = watches
    BY <1>3 DEF StoreExplicit
  <2> QED
    BY <1>1, <2>1 DEF Explicit
<1>4. CASE Cardinality(c) <= 1
  <2>1. ~(Cardinality(c) > 3)
    <3>1. Cardinality(c) \in Nat
      BY LitFinite, FS_Subset, FS_CardinalityType
    <3> QED
      BY <1>4, <3>1
  <2> QED
    BY <1>3, <2>1
<1> QED
  BY <1>1, <1>2, <1>3, <1>4

(***************************************************************************)
(* The inductive invariant is TypeOK and LevelInv together: the decision   *)
(* that backtrack_step flips exists because the root level is below the    *)
(* decision level, and the levels stay ordered because undo_until works on *)
(* a well-formed list of decisions. The same case distinction shows that a *)
(* running call keeps the root path.                                       *)
(***************************************************************************)
Results == {"none", "true", "false", "free"}
Safe == TypeOK' /\ LevelInv' /\ (~Idle => Keeps(sol, sol'))

LEMMA SolOnly ==
  ASSUME TypeOK, Good(sol'), Idle \/ Keeps(sol, sol'),
         formula' = formula, imps' = imps, watches' = watches, an' = an,
         arg' \in Lit \cup {0}, pc' = "learn" => pc = "learn", result' \in Results,
         ret' \in [ok : Returns, fail : Returns]
  PROVE  Safe
BY DEF TypeOK, LevelInv, Good, Levels, Explicit, Safe, Results

LEMMA ImpsOnly ==
  ASSUME TypeOK, Good(sol), imps' \subseteq SUBSET Lit,
         sol' = sol, formula' = formula, watches' = watches, an' = an, arg' = arg,
         pc' = "learn" => pc = "learn", result' = result,
         ret' \in [ok : Returns, fail : Returns]
  PROVE  Safe
BY KeepsRefl DEF TypeOK, LevelInv, Good, Levels, Explicit, Safe, Results

LEMMA GoodSol ==
  ASSUME TypeOK, LevelInv
  PROVE  Good(sol)
BY DEF TypeOK, LevelInv, Good, Levels

LEMMA PropagationSafe ==
  ASSUME TypeOK, LevelInv, Propagation
  PROVE  Safe
<1>1. /\ Good(sol) /\ result \in Results /\ arg \in Lit \cup {0}
      /\ ret \in [ok : Returns, fail : Returns]
  BY GoodSol DEF TypeOK, Results
<1>2. sol \in State
  BY <1>1 DEF Good
<1>3. CASE ForceByShort
  <2>1. PICK c \in ShortPending : \E l \in Forced(c, c \ {-QHead}) : sol' = ForceLit(sol, l, c)
    BY <1>3 DEF ForceByShort
  <2>2. PICK l \in Forced(c, c \ {-QHead}) : sol' = ForceLit(sol, l, c)
    BY <2>1
  <2>3. c \in SUBSET Lit
    BY DEF ShortPending, TypeOK
  <2>4. l \in Lit
    BY <2>2, <2>3 DEF Forced, NotFalse
  <2>5. Good(sol') /\ Keeps(sol, sol')
    BY <1>1, <2>2, <2>3, <2>4, ForceGood
  <2> QED
    BY <1>1, <1>3, <2>5, SolOnly DEF ForceByShort, db, Propagating
<1>4. CASE MoveWatch
  <2>0. PICK c \in WatchPending : \E l \in NotFalse(c) \ watches[c] :
          watches' = [watches EXCEPT ![c] = (@ \ {-QHead}) \cup {l}]
    BY <1>4 DEF MoveWatch
  <2>1. PICK l \in NotFalse(c) \ watches[c] :
          watches' = [watches EXCEPT ![c] = (@ \ {-QHead}) \cup {l}]
    BY <2>0
  <2>2. c \in Explicit /\ c \in SUBSET Lit /\ l \in Lit
    BY <2>1 DEF WatchPending, NotFalse, TypeOK
  <2>3. watches' \in [Explicit -> SUBSET Lit]
    BY <2>1, <2>2 DEF TypeOK
  <2>4. Explicit' = Explicit
    BY <2>3 DEF Explicit
  <2> QED
    BY <1>1, <1>4, <2>3, <2>4, KeepsRefl
    DEF MoveWatch, Propagating, TypeOK, LevelInv, Safe, Good, Levels
<1>5. CASE ForceByWatch
  <2>0. PICK c \in WatchPending : \E l \in watches[c] \ {-QHead} : sol' = ForceLit(sol, l, c)
    BY <1>5 DEF ForceByWatch
  <2>1. PICK l \in watches[c] \ {-QHead} : sol' = ForceLit(sol, l, c)
    BY <2>0
  <2>2. c \in Explicit /\ c \in SUBSET Lit /\ l \in Lit
    BY <2>1 DEF WatchPending, TypeOK
  <2>3. Good(sol') /\ Keeps(sol, sol')
    BY <1>1, <2>1, <2>2, ForceGood
  <2> QED
    BY <1>1, <1>5, <2>3, SolOnly DEF ForceByWatch, db, Propagating
<1>6. CASE Dequeue
  <2>0. sol.front + 1 \in Nat
    BY <1>2 DEF State
  <2>1. sol' \in State /\ LevelsSame(sol, sol')
    BY <1>2, <1>6, <2>0 DEF Dequeue, State, LevelsSame
  <2>2. Good(sol') /\ Keeps(sol, sol')
    BY <1>1, <2>1, SameIsGood
  <2> QED
    BY <1>1, <1>6, <2>2, SolOnly DEF Dequeue, db, Propagating
<1>7. CASE PropagateReturns
  <2>1. Len(sol.trail) \in Nat
    BY <1>2 DEF State
  <2>2. sol' \in State /\ LevelsSame(sol, sol')
    BY <1>2, <1>7, <2>1 DEF PropagateReturns, State, LevelsSame
  <2>3. Good(sol') /\ Keeps(sol, sol')
    BY <1>1, <2>2, SameIsGood
  <2>4. pc' # "learn"
    BY <1>1, <1>7 DEF PropagateReturns, Returns
  <2> QED
    BY <1>1, <1>7, <2>3, <2>4, SolOnly DEF PropagateReturns, db
<1> QED
  BY <1>3, <1>4, <1>5, <1>6, <1>7 DEF Propagation

LEMMA SearchSafe ==
  ASSUME TypeOK, LevelInv, SearchStep
  PROVE  Safe
<1>1. /\ Good(sol) /\ Keeps(sol, sol) /\ result \in Results /\ arg \in Lit \cup {0}
      /\ ret \in [ok : Returns, fail : Returns]
  BY GoodSol, KeepsRefl DEF TypeOK, Results
<1>2. sol \in State /\ an \in Analysis /\ imps \in SUBSET SUBSET Lit
  BY <1>1 DEF Good, TypeOK
<1>3. \A a, b \in Returns : [ok |-> a, fail |-> b] \in [ok : Returns, fail : Returns]
  OBVIOUS
<1>4. Simplified(imps, sol) \in SUBSET SUBSET Lit
  BY <1>2, SimplifiedType
<1>5. CASE SearchTop
  <2>1. ret' \in [ok : Returns, fail : Returns] /\ pc' # "learn"
    BY <1>1, <1>3, <1>5 DEF SearchTop, Call, Returns
  <2> QED
    BY <1>1, <1>5, <2>1, SolOnly DEF SearchTop, db
<1>6. CASE SearchSimplify
  BY <1>1, <1>4, <1>6, ImpsOnly DEF SearchSimplify
<1>7. CASE Decide
  <2>1. PICK l \in FreeLits(sol) : sol' = Assume(sol, l)
    BY <1>7 DEF Decide
  <2>2. l \in Lit
    BY DEF FreeLits
  <2>3. Good(sol') /\ Keeps(sol, sol')
    BY <1>1, <2>1, <2>2, AssumeGood
  <2>4. ret' \in [ok : Returns, fail : Returns] /\ pc' # "learn"
    BY <1>3, <1>7 DEF Decide, Call, Returns
  <2> QED
    BY <1>1, <1>7, <2>3, <2>4, SolOnly DEF Decide, db
<1>8. CASE ModelFound
  BY <1>1, <1>8, SolOnly DEF ModelFound, Return, Results, db
<1>9. CASE GiveUp
  BY <1>1, <1>9, SolOnly DEF GiveUp, db
<1>10. CASE StartAnalysis
  <2>1. an' \in Analysis
    <3>1. sol.conflict.lits \in SUBSET Lit
      BY <1>2 DEF State
    <3>2. an' = [lits |-> {}, seen |-> {}, on |-> 0, cur |-> sol.conflict.lits, uip |-> 0]
      BY <1>10 DEF StartAnalysis, NoAnalysis
    <3> QED
      BY <3>1, <3>2 DEF Analysis
  <2> QED
    BY <1>1, <1>10, <2>1 DEF StartAnalysis, db, TypeOK, LevelInv, Safe, Explicit
<1>11. CASE BacktrackOnly
  <2>1. DL(sol) - 1 \in Int
    BY <1>2 DEF State, DL
  <2>2. Good(sol') /\ Keeps(sol, sol')
    BY <1>1, <1>11, <2>1, BacktrackGood DEF BacktrackOnly
  <2>3. ret' \in [ok : Returns, fail : Returns] /\ pc' # "learn"
    BY <1>3, <1>11 DEF BacktrackOnly, Call, Returns
  <2> QED
    BY <1>1, <1>11, <2>2, <2>3, SolOnly DEF BacktrackOnly, db
<1>12. CASE AnalysisPanics
  BY <1>1, <1>12, SolOnly DEF AnalysisPanics, db
<1>13. CASE Analyze
  <2> DEFINE seen  == an.seen \cup SeenVars(NewReasons)
             on    == an.on + Cardinality(OnLevel(NewReasons))
             lits  == an.lits \cup Neg(NewReasons \ OnLevel(NewReasons))
  <2>1. PICK last \in DOMAIN sol.trail :
          LET pivot == sol.trail[last]
          IN /\ sol' = [sol EXCEPT !.trail = SubSeq(@, 1, last)]
             /\ an' = [lits |-> lits, seen |-> seen \ {Var(pivot.lit)},
                       on   |-> IF on = 1 THEN 1 ELSE on - 1,
                       cur  |-> IF on = 1 THEN {} ELSE Neg(pivot.ante \ {pivot.lit}),
                       uip  |-> IF on = 1 THEN pivot.lit ELSE 0]
             /\ pc' = IF on = 1 THEN "learn" ELSE "analyze"
    BY <1>13 DEF Analyze
  <2>2. NewReasons \in SUBSET Lit
    BY <1>2 DEF NewReasons, Analysis
  <2>3. seen \subseteq Vars /\ lits \subseteq Lit
    BY <1>2, <2>2, LitFacts DEF SeenVars, Analysis
  <2>4. on \in Int
    <3>1. OnLevel(NewReasons) \subseteq Lit
      BY <2>2 DEF OnLevel
    <3>2. Cardinality(OnLevel(NewReasons)) \in Nat
      BY <3>1, LitFinite, FS_Subset, FS_CardinalityType
    <3> QED
      BY <1>2, <3>2 DEF Analysis
  <2> HIDE DEF seen, on, lits
  <2>5. sol.trail \in Seq(Entry) /\ Len(sol.trail) \in Nat /\ DOMAIN sol.trail = 1..Len(sol.trail)
    BY <1>2 DEF State
  <2>6. sol.trail[last] \in Entry
    BY <2>5
  <2>7. SubSeq(sol.trail, 1, last) \in Seq(Entry)
    <3>1. last \in Int /\ \A i \in 1..last : sol.trail[i] \in Entry
      BY <2>5
    <3> QED
      BY <3>1, SubSeqProperties
  <2>8. sol' \in State /\ LevelsSame(sol, sol')
    BY <1>2, <2>1, <2>7 DEF State, LevelsSame
  <2>9. Good(sol') /\ Keeps(sol, sol')
    BY <1>1, <2>8, SameIsGood
  <2>10. an' \in Analysis /\ (pc' = "learn" => an'.uip \in Lit)
    <3>1. /\ sol.trail[last].lit \in Lit
          /\ Neg(sol.trail[last].ante \ {sol.trail[last].lit}) \in SUBSET Lit
      BY <2>6, LitFacts DEF Entry
    <3>2. CASE on = 1
      <4>1. an' = [lits |-> lits, seen |-> seen \ {Var(sol.trail[last].lit)}, on |-> 1,
                   cur |-> {}, uip |-> sol.trail[last].lit]
        BY <2>1, <3>2
      <4> QED
        BY <2>3, <3>1, <4>1 DEF Analysis
    <3>3. CASE on # 1
      <4>1. an' = [lits |-> lits, seen |-> seen \ {Var(sol.trail[last].lit)}, on |-> on - 1,
                   cur |-> Neg(sol.trail[last].ante \ {sol.trail[last].lit}), uip |-> 0]
        BY <2>1, <3>3
      <4>2. pc' = "analyze"
        BY <2>1, <3>3
      <4>3. /\ lits \in SUBSET Lit /\ seen \ {Var(sol.trail[last].lit)} \in SUBSET Vars
            /\ on - 1 \in Int /\ 0 \in Lit \cup {0}
        BY <2>3, <2>4
      <4>4. an' \in Analysis
        BY <3>1, <4>1, <4>3 DEF Analysis
      <4> QED
        BY <4>2, <4>4
    <3> QED
      BY <3>2, <3>3
  <2> QED
    BY <1>1, <1>13, <2>9, <2>10
    DEF Analyze, db, TypeOK, LevelInv, Safe, Explicit, Good, Levels
<1>14. CASE Learn
  <2>1. PICK removed \in {{}, Removable} :
       LET l0   == -an.uip
           tail == an.lits \ removed
           c    == {l0} \cup tail
       IN \E l1 \in Second(sol, tail) :
            LET back == UndoUntil(sol, IF l1 = 0 THEN 0 ELSE LevelOf(sol, l1))
            IN /\ sol' = Created(back, c, l0, l1)
               /\ imps' = IF Subsumed(back, l0) THEN imps ELSE StoreImp(c)
               /\ watches' = IF Subsumed(back, l0) THEN watches ELSE StoreExplicit(c, {l0, l1})
               /\ IF sol'.conflict.has \/ (IsEmpty(back, l0) /\ Cardinality(c) > 1)
                  THEN pc' = "after" /\ UNCHANGED ret
                  ELSE Call("after", "resolve")
    BY <1>14 DEF Learn
  <2> DEFINE l0   == -an.uip
             tail == an.lits \ removed
             c    == {l0} \cup tail
  <2>2. PICK l1 \in Second(sol, tail) :
            LET back == UndoUntil(sol, IF l1 = 0 THEN 0 ELSE LevelOf(sol, l1))
            IN /\ sol' = Created(back, c, l0, l1)
               /\ imps' = IF Subsumed(back, l0) THEN imps ELSE StoreImp(c)
               /\ watches' = IF Subsumed(back, l0) THEN watches ELSE StoreExplicit(c, {l0, l1})
               /\ IF sol'.conflict.has \/ (IsEmpty(back, l0) /\ Cardinality(c) > 1)
                  THEN pc' = "after" /\ UNCHANGED ret
                  ELSE Call("after", "resolve")
    BY <2>1
  <2> DEFINE back == UndoUntil(sol, IF l1 = 0 THEN 0 ELSE LevelOf(sol, l1))
  <2>3. l0 \in Lit /\ tail \in SUBSET Lit
    BY <1>2, <1>14, LitFacts DEF Learn, TypeOK, Analysis
  <2> HIDE DEF l0, tail
  <2>4. c \in SUBSET Lit /\ ({l0, l1} \in SUBSET Lit \/ Cardinality(c) <= 1)
    <3>1. CASE tail = {}
      <4>1. c = {l0}
        BY <3>1
      <4>2. Cardinality({l0}) = 1
        BY FS_Singleton
      <4> QED
        BY <2>3, <4>1, <4>2
    <3>2. CASE tail # {}
      BY <2>3, <3>2 DEF Second
    <3> QED
      BY <3>1, <3>2
  <2> HIDE DEF c
  <2>5. Good(back) /\ Keeps(sol, back)
    <3>1. (IF l1 = 0 THEN 0 ELSE LevelOf(sol, l1)) \in Nat
      BY <1>2, LevelOfNat
    <3> QED
      BY <1>1, <3>1, UndoUntilGood
  <2> HIDE DEF back
  <2>6. Good(sol') /\ Keeps(sol, sol')
    <3>1. sol' = Created(back, c, l0, l1)
      BY <2>2 DEF back
    <3>2. Good(sol') /\ Keeps(back, sol')
      BY <2>3, <2>4, <2>5, <3>1, CreatedGood
    <3> QED
      BY <1>1, <2>5, <3>2, KeepsTrans
  <2>7. imps' \subseteq SUBSET Lit /\ DOMAIN watches' \subseteq SUBSET Lit
        /\ watches' \in [DOMAIN watches' -> SUBSET Lit]
    <3>1. /\ StoreImp(c) \subseteq SUBSET Lit
          /\ DOMAIN StoreExplicit(c, {l0, l1}) \subseteq SUBSET Lit
          /\ StoreExplicit(c, {l0, l1}) \in [DOMAIN StoreExplicit(c, {l0, l1}) -> SUBSET Lit]
      BY <2>4, StoreType DEF TypeOK
    <3>2. imps' \in {imps, StoreImp(c)} /\ watches' \in {watches, StoreExplicit(c, {l0, l1})}
      BY <2>2
    <3> QED
      BY <3>1, <3>2 DEF TypeOK, Explicit
  <2>8. pc' # "learn" /\ ret' \in [ok : Returns, fail : Returns]
    <3>1. (pc' = "after" /\ ret' = ret) \/ Call("after", "resolve")
      BY <2>2
    <3> QED
      BY <1>1, <1>3, <3>1 DEF Call, Returns
  <2>9. an' \in Analysis
    BY <1>14 DEF Learn, NoAnalysis, Analysis
  <2> QED
    BY <1>1, <1>14, <2>6, <2>7, <2>8, <2>9
    DEF Learn, TypeOK, LevelInv, Safe, Explicit, Good, Levels
<1>15. CASE Refute
  BY <1>1, <1>15, SolOnly DEF Refute, Return, Results, db
<1>16. CASE SimplifyTop
  <2>1. ret' \in [ok : Returns, fail : Returns] /\ pc' # "learn"
    BY <1>1, <1>3, <1>16 DEF SimplifyTop, Call, Returns
  <2>2. imps' \subseteq SUBSET Lit
    BY <1>2, <1>4, <1>16 DEF SimplifyTop
  <2> QED
    BY <1>1, <1>16, <2>1, <2>2, ImpsOnly DEF SimplifyTop
<1>17. CASE LimitReached
  BY <1>1, <1>17, SolOnly DEF LimitReached, Return, Results, db
<1>18. CASE Continue
  BY <1>1, <1>18, SolOnly DEF Continue, db
<1> QED
  BY <1>5, <1>6, <1>7, <1>8, <1>9, <1>10, <1>11, <1>12, <1>13, <1>14, <1>15, <1>16, <1>17, <1>18
  DEF SearchStep

LEMMA RunningSafe ==
  ASSUME TypeOK, LevelInv, Running
  PROVE  Safe
<1>1. /\ Good(sol) /\ Keeps(sol, sol) /\ result \in Results /\ arg \in Lit \cup {0}
      /\ ret \in [ok : Returns, fail : Returns]
  BY GoodSol, KeepsRefl DEF TypeOK, Results
<1>2. sol \in State /\ imps \in SUBSET SUBSET Lit /\ NoAnte \in SUBSET Lit
  BY <1>1 DEF Good, TypeOK, NoAnte
<1>3. \A a, b \in Returns : [ok |-> a, fail |-> b] \in [ok : Returns, fail : Returns]
  OBVIOUS
<1>4. CASE AddFact
  <2>1. PICK l \in UnitLits(formula) \ TrueLits(sol) : sol' = ForceLit(sol, l, NoAnte)
    BY <1>4 DEF AddFact
  <2>2. Good(sol') /\ Keeps(sol, sol')
    BY <1>1, <1>2, <2>1, ForceGood DEF UnitLits
  <2> QED
    BY <1>1, <1>4, <2>2, SolOnly DEF AddFact, db
<1>5. CASE EndInit
  <2>1. ret' \in [ok : Returns, fail : Returns] /\ pc' # "learn"
    BY <1>1, <1>3, <1>5 DEF EndInit, Call, Returns
  <2> QED
    BY <1>1, <1>5, <2>1, SolOnly DEF EndInit, db
<1>6. CASE Ready
  <2>1. Simplified(imps, sol) \in SUBSET SUBSET Lit
    BY <1>2, SimplifiedType
  <2> QED
    BY <1>1, <1>6, <2>1, ImpsOnly DEF Ready
<1>7. CASE PushRootAssume
  <2>1. Good(sol') /\ Keeps(sol, sol')
    <3>1. CASE arg \in FreeLits(sol)
      <4>1. arg \in Lit
        BY <3>1 DEF FreeLits
      <4>2. Good(Assume(sol, arg)) /\ Keeps(sol, Assume(sol, arg))
        BY <1>1, <4>1, AssumeGood
      <4>3. sol' = PushRootLevel(Assume(sol, arg), 1)
        BY <1>7, <3>1 DEF PushRootAssume
      <4>4. Good(sol') /\ Keeps(Assume(sol, arg), sol')
        BY <4>2, <4>3, PushRootLevelGood, 1 \in Nat
      <4> QED
        BY <1>1, <4>2, <4>4, KeepsTrans
    <3>2. CASE arg \notin FreeLits(sol)
      BY <1>1, <1>7, <3>2 DEF PushRootAssume
    <3> QED
      BY <3>1, <3>2
  <2>2. ret' \in [ok : Returns, fail : Returns] /\ pc' # "learn" /\ arg' \in Lit \cup {0}
    BY <1>1, <1>3, <1>7 DEF PushRootAssume, Call, Returns
  <2> QED
    BY <1>1, <1>7, <2>1, <2>2, SolOnly DEF PushRootAssume, db
<1>8. CASE Flip
  <2>1. Good(sol') /\ Keeps(sol, sol')
    <3>1. CASE DL(sol) = sol.root
      BY <1>1, <1>8, <3>1, SetStopConflictGood DEF Flip
    <3>2. CASE DL(sol) # sol.root
      <4> DEFINE next == Flipped(sol)
                 flip == [lit |-> -Decision(sol, DL(sol)), level |-> DL(next), ante |-> NoAnte]
      <4>1. Good(next) /\ Keeps(sol, next) /\ -Decision(sol, DL(sol)) \in Lit
        BY <1>1, <3>2, FlippedGood
      <4>2. sol' = next \/ sol' = AddImplied(next, flip)
        BY <1>8, <3>2 DEF Flip
      <4> HIDE DEF next
      <4>3. DL(next) \in Nat
        BY <4>1 DEF Good, State, DL
      <4>4. flip \in Entry
        BY <1>2, <4>1, <4>3 DEF Entry
      <4> HIDE DEF flip
      <4>5. Good(AddImplied(next, flip)) /\ Keeps(next, AddImplied(next, flip))
        BY <4>1, <4>4, AddImpliedGood
      <4>6. Keeps(sol, AddImplied(next, flip))
        BY <1>1, <4>1, <4>5, KeepsTrans
      <4> QED
        BY <4>1, <4>2, <4>5, <4>6
    <3> QED
      BY <3>1, <3>2
  <2>2. pc' # "learn"
    BY <1>8 DEF Flip
  <2> QED
    BY <1>1, <1>8, <2>1, <2>2, SolOnly DEF Flip, db
<1>9. CASE Integrated
  <2>1. ret' \in [ok : Returns, fail : Returns] /\ pc' # "learn"
    BY <1>1, <1>3, <1>9 DEF Integrated, Call, Returns
  <2> QED
    BY <1>1, <1>9, <2>1, SolOnly DEF Integrated, db
<1> QED
  BY <1>4, <1>5, <1>6, <1>7, <1>8, <1>9, PropagationSafe, SearchSafe DEF Running

LEMMA ApiSafe ==
  ASSUME TypeOK, LevelInv, ApiCall
  PROVE  Safe
<1>1. /\ Good(sol) /\ Keeps(sol, sol) /\ result \in Results /\ arg \in Lit \cup {0}
      /\ ret \in [ok : Returns, fail : Returns]
  BY GoodSol, KeepsRefl DEF TypeOK, Results
<1>2. sol \in State /\ DL(sol) \in Nat /\ sol.root \in Nat
  BY <1>1 DEF Good, State, DL
<1>3. \A a, b \in Returns : [ok |-> a, fail |-> b] \in [ok : Returns, fail : Returns]
  OBVIOUS
<1>4. "none" \in Results
  BY DEF Results
<1>5. CASE Search
  BY <1>1, <1>4, <1>5, SolOnly DEF Search, Begin, Counted, db
<1>6. CASE Propagate
  <2>1. ret' \in [ok : Returns, fail : Returns] /\ pc' # "learn"
    BY <1>3, <1>6 DEF Propagate, Call, Returns
  <2> QED
    BY <1>1, <1>4, <1>6, <2>1, SolOnly DEF Propagate, Begin, Counted, db
<1>7. CASE Choose
  <2>1. PICK l \in FreeLits(sol) : sol' = Assume(sol, l)
    BY <1>7 DEF Choose
  <2>2. Good(sol') /\ Keeps(sol, sol')
    BY <1>1, <2>1, AssumeGood DEF FreeLits
  <2>3. ret' \in [ok : Returns, fail : Returns] /\ pc' # "learn"
    BY <1>3, <1>7 DEF Choose, Call, Returns
  <2> QED
    BY <1>1, <1>4, <1>7, <2>2, <2>3, SolOnly DEF Choose, Begin, Counted, db
<1>8. CASE Restart
  <2>1. Good(sol') /\ Keeps(sol, sol')
    BY <1>1, <1>8, UndoUntilGood, 0 \in Nat DEF Restart
  <2> QED
    BY <1>1, <1>4, <1>8, <2>1, SolOnly DEF Restart, Begin, Counted, db
<1>9. CASE PushRoot
  <2>1. Good(PopRootLevel(sol, 0))
    BY <1>1, PopRootLevelGood, 0 \in Nat
  <2>2. PICK l \in Lit :
       LET back == IF DL(sol) # sol.root THEN PopRootLevel(sol, 0) ELSE sol
       IN IF sol.conflict.has THEN UNCHANGED <<sol, pc, ret, arg>>
          ELSE /\ sol' = back /\ arg' = l
               /\ IF back.conflict.has THEN UNCHANGED <<pc, ret>>
                  ELSE IF back.front # Len(back.trail) THEN Call("push", "idle")
                  ELSE pc' = "push" /\ UNCHANGED ret
    BY <1>9 DEF PushRoot
  <2>3. sol' \in {sol, PopRootLevel(sol, 0)} /\ arg' \in {arg, l}
    BY <2>2
  <2>4. UNCHANGED <<pc, ret>> \/ Call("push", "idle") \/ (pc' = "push" /\ UNCHANGED ret)
    BY <2>2
  <2>5. ret' \in [ok : Returns, fail : Returns] /\ (pc' = "learn" => pc = "learn")
    BY <1>1, <1>3, <2>4 DEF Call, Returns
  <2>6. Good(sol') /\ arg' \in Lit \cup {0}
    BY <1>1, <2>1, <2>3
  <2> QED
    BY <1>4, <1>9, <2>5, <2>6, SolOnly DEF PushRoot, Begin, Counted, db
<1>10. CASE PopRoot
  <2>1. PICK n \in 0..sol.root : sol' = PopRootLevel(sol, n)
    BY <1>10 DEF PopRoot
  <2>2. Good(sol')
    BY <1>1, <1>2, <2>1, PopRootLevelGood
  <2> QED
    BY <1>1, <1>4, <1>10, <2>2, SolOnly DEF PopRoot, Begin, Counted, db
<1>11. CASE SetStop
  BY <1>1, <1>4, <1>11, SetStopConflictGood, SolOnly DEF SetStop, Begin, Counted, db
<1>12. CASE ClearStop
  BY <1>1, <1>4, <1>12, ClearStopConflictGood, SolOnly DEF ClearStop, Begin, Counted, db
<1>13. CASE SetBacktrack
  <2>1. PICK n \in 0..DL(sol) : sol' = SetBacktrackLevel(sol, n)
    BY <1>13 DEF SetBacktrack
  <2>2. Good(sol')
    BY <1>1, <1>2, <2>1, SetBacktrackLevelGood
  <2> QED
    BY <1>1, <1>4, <1>13, <2>2, SolOnly DEF SetBacktrack, Begin, Counted, db
<1>14. CASE BacktrackStep
  BY <1>1, <1>4, <1>14, SolOnly DEF BacktrackStep, Begin, Counted, db
<1>15. CASE Split
  <2>1. Good(sol')
    BY <1>1, <1>15, PushRootLevelGood, 1 \in Nat DEF Split
  <2> QED
    BY <1>1, <1>4, <1>15, <2>1, SolOnly DEF Split, Begin, Counted, db
<1>16. CASE Integrate
  <2>1. PICK c \in Consequences : \E l0 \in Highest(sol, c) :
          \E l1 \in IF c = {l0} THEN {0} ELSE Highest(sol, c \ {l0}) :
            LET added == IF Cardinality(c) = 1 THEN AddUnit(sol, l0) ELSE sol
            IN /\ sol' = Asserted(sol, added, c, l0, l1)
               /\ imps' = StoreImp(c)
               /\ watches' = StoreExplicit(c, {l0, l1})
    BY <1>16 DEF Integrate
  <2>2. PICK l0 \in Highest(sol, c) :
          \E l1 \in IF c = {l0} THEN {0} ELSE Highest(sol, c \ {l0}) :
            LET added == IF Cardinality(c) = 1 THEN AddUnit(sol, l0) ELSE sol
            IN /\ sol' = Asserted(sol, added, c, l0, l1)
               /\ imps' = StoreImp(c)
               /\ watches' = StoreExplicit(c, {l0, l1})
    BY <2>1
  <2> DEFINE added == IF Cardinality(c) = 1 THEN AddUnit(sol, l0) ELSE sol
  <2>3. PICK l1 \in IF c = {l0} THEN {0} ELSE Highest(sol, c \ {l0}) :
            /\ sol' = Asserted(sol, added, c, l0, l1)
            /\ imps' = StoreImp(c)
            /\ watches' = StoreExplicit(c, {l0, l1})
    BY <2>2
  <2>4. c \in SUBSET Lit /\ l0 \in Lit
    BY <2>2 DEF Consequences, Highest
  <2>5. {l0, l1} \in SUBSET Lit \/ Cardinality(c) <= 1
    <3>1. CASE c = {l0}
      <4>1. Cardinality({l0}) = 1
        BY FS_Singleton
      <4>2. Cardinality(c) = 1
        BY <3>1, <4>1
      <4> QED
        BY <4>2
    <3>2. CASE c # {l0}
      BY <2>3, <2>4, <3>2 DEF Highest
    <3> QED
      BY <3>1, <3>2
  <2>6. Good(added) /\ Keeps(sol, added)
    BY <1>1, <2>4, AddUnitGood
  <2> HIDE DEF added
  <2>7. Good(sol') /\ Keeps(sol, sol')
    <3>1. Good(sol') /\ Keeps(added, sol')
      BY <2>3, <2>4, <2>6, AssertedGood
    <3> QED
      BY <1>1, <2>6, <3>1, KeepsTrans
  <2>8. imps' \subseteq SUBSET Lit /\ DOMAIN watches' \subseteq SUBSET Lit
        /\ watches' \in [DOMAIN watches' -> SUBSET Lit]
    BY <2>3, <2>4, <2>5, StoreType DEF TypeOK
  <2> QED
    BY <1>1, <1>4, <1>16, <2>7, <2>8
    DEF Integrate, Counted, TypeOK, LevelInv, Safe, Explicit, Good, Levels, Results
<1> QED
  BY <1>5, <1>6, <1>7, <1>8, <1>9, <1>10, <1>11, <1>12, <1>13, <1>14, <1>15, <1>16 DEF ApiCall

LEMMA NextSafe ==
  ASSUME TypeOK, LevelInv, [Next]_vars
  PROVE  Safe
<1>1. CASE UNCHANGED vars
  <2>1. Good(sol) /\ Keeps(sol, sol)
    BY GoodSol, KeepsRefl
  <2> QED
    BY <1>1, <2>1 DEF vars, TypeOK, LevelInv, Safe, Explicit, DL
<1> QED
  BY <1>1, RunningSafe, ApiSafe DEF Next

LEMMA InitSafe ==
  ASSUME Init
  PROVE  TypeOK /\ LevelInv
<1>1. NewSolver \in State /\ Levels(NewSolver)
  BY DEF NewSolver, State, Levels, NoStop, NoConflict, DL
<1>2. formula \subseteq SUBSET Lit
  BY KernelAssumption DEF Init
<1>3. \A c \in SUBSET Lit : Cardinality(c) > 3 => FirstTwo(c) \in SUBSET Lit
  <2> SUFFICES ASSUME NEW c \in SUBSET Lit, Cardinality(c) > 3 PROVE FirstTwo(c) \in SUBSET Lit
    OBVIOUS
  <2> DEFINE first == CHOOSE l \in c : TRUE
             second == CHOOSE l \in c \ {first} : TRUE
  <2>1. c # {}
    BY FS_EmptySet
  <2>2. first \in c
    BY <2>1
  <2> HIDE DEF first
  <2>3. c # {first}
    BY FS_Singleton
  <2>4. second \in c
    BY <2>2, <2>3
  <2>5. FirstTwo(c) = {first, second}
    BY DEF FirstTwo, first
  <2> HIDE DEF second
  <2> QED
    BY <2>2, <2>4, <2>5
<1>4. /\ imps \subseteq SUBSET Lit /\ DOMAIN watches \subseteq SUBSET Lit
      /\ watches \in [DOMAIN watches -> SUBSET Lit]
  BY <1>2, <1>3 DEF Init
<1>5. an \in Analysis /\ ret \in [ok : Returns, fail : Returns]
  BY DEF Init, NoAnalysis, Analysis, Returns
<1> QED
  BY <1>1, <1>2, <1>4, <1>5 DEF Init, TypeOK, LevelInv, Explicit, Levels

(***************************************************************************)
(* The theorems.                                                           *)
(***************************************************************************)
(* For every problem, every number of variables and every set of calls the *)
(* parts of the state keep their types: literals stay literals of the      *)
(* problem, levels and positions never become negative.                    *)
THEOREM TypeCorrect == Spec => []TypeOK
<1>1. Init => TypeOK /\ LevelInv
  BY InitSafe
<1>2. (TypeOK /\ LevelInv) /\ [Next]_vars => (TypeOK /\ LevelInv)'
  BY NextSafe DEF Safe
<1> QED
  BY <1>1, <1>2, PTL DEF Spec

(* The root level never exceeds the backtrack level, nor that the decision *)
(* level, whatever calls push, pop, split, stop or flip in whatever order. *)
THEOREM LevelsOrdered == Spec => []LevelInv
<1>1. Init => TypeOK /\ LevelInv
  BY InitSafe
<1>2. (TypeOK /\ LevelInv) /\ [Next]_vars => (TypeOK /\ LevelInv)'
  BY NextSafe DEF Safe
<1> QED
  BY <1>1, <1>2, PTL DEF Spec

(* No step of a running search, root push, flip or integration takes a     *)
(* decision off the root path: undo_until stops at the backtrack level,    *)
(* which the ordering of the levels keeps at or above the root.            *)
THEOREM RootPathIsKept == Spec => RootPathKept
<1> DEFINE PathStays == ~Idle => /\ sol'.root >= sol.root
                            /\ \A k \in 1..sol.root : /\ k \in DOMAIN sol'.decisions
                                                      /\ sol'.decisions[k] = sol.decisions[k]
<1>1. TypeOK /\ LevelInv /\ [Next]_vars => [PathStays]_vars
  BY NextSafe DEF Safe, Keeps
<1>2. Spec => [](TypeOK /\ LevelInv)
  BY TypeCorrect, LevelsOrdered, PTL
<1> QED
  BY <1>1, <1>2, PTL DEF Spec, RootPathKept
=============================================================================

---------------------------- MODULE SolverState ----------------------------
(***************************************************************************)
(* The assignment kernel of clasp::Solver: the trail, the decision levels, *)
(* the root and backtrack levels, the list of logically earlier implied    *)
(* literals, the conflict and the saved stop conflict, with the methods    *)
(* that read and change them.                                              *)
(*                                                                         *)
(* The Rust methods are sequential and call each other, so each one is an  *)
(* operator from a solver state (a record) to a solver state; the module   *)
(* SolverKernel turns them into actions.                                   *)
(*                                                                         *)
(* A literal is a non-zero integer: v is the positive literal of variable  *)
(* v and -v its complement. A clause is a set of literals. An antecedent   *)
(* is the clause that forced the literal (the code stores the other        *)
(* literals, or a pointer to the clause); NoAnte is the null antecedent.   *)
(***************************************************************************)
EXTENDS Integers, Sequences, FiniteSets

CONSTANT NumVars   (* number of problem variables *)

ASSUME NumVarsAssumption == NumVars \in Nat

Vars == 1..NumVars
Lit  == Vars \cup {-v : v \in Vars}
Var(l) == IF l < 0 THEN -l ELSE l
Neg(c) == {-l : l \in c}

NoAnte == {}
Entry      == [lit : Lit, level : Nat, ante : SUBSET Lit]
NoConflict == [has |-> FALSE, lits |-> {}]
NoStop     == [set |-> FALSE, root |-> 0, bt |-> 0, front |-> 0]

(* The states a solver can have, by the types of its fields.               *)
State ==
  [ trail     : Seq(Entry),    \* assigned literals, oldest first
    front     : Nat,           \* literals of the trail already propagated
    decisions : Seq(Lit),      \* the decision literal of each level above 0
    root      : Nat,           \* root_level
    bt        : Nat,           \* backtrack_level
    implied   : [lits : Seq(Entry), level : Nat, front : Nat],
    conflict  : [has : BOOLEAN, lits : SUBSET Lit],
    stop      : [set : BOOLEAN, root : Nat, bt : Nat, front : Nat] ]

(* The larger and the smaller of two numbers. *)
MaxOf(a, b) == IF a >= b THEN a ELSE b
MinOf(a, b) == IF a <= b THEN a ELSE b

(* A solver without variables assigned: Solver::new. *)
NewSolver ==
  [ trail |-> <<>>, front |-> 0, decisions |-> <<>>, root |-> 0, bt |-> 0,
    implied |-> [lits |-> <<>>, level |-> 0, front |-> 0],
    conflict |-> NoConflict, stop |-> NoStop ]

(***************************************************************************)
(* Reading a state.                                                        *)
(***************************************************************************)
DL(s) == Len(s.decisions)
TrueLits(s) == {s.trail[i].lit : i \in DOMAIN s.trail}
IsTrue(s, l)  == l \in TrueLits(s)
IsFalse(s, l) == -l \in TrueLits(s)
IsFree(s, l)  == ~IsTrue(s, l) /\ ~IsFalse(s, l)
FreeLits(s) == {l \in Lit : IsFree(s, l)}
PositionsOf(s, l) == {i \in DOMAIN s.trail : Var(s.trail[i].lit) = Var(l)}

(* The level of a free variable reads as 0 in Assignment::level. *)
LevelOf(s, l) ==
  IF PositionsOf(s, l) = {} THEN 0
  ELSE s.trail[CHOOSE i \in PositionsOf(s, l) : TRUE].level
AnteOf(s, l) == s.trail[CHOOSE i \in PositionsOf(s, l) : TRUE].ante
Decision(s, k) == s.decisions[k]

(* How many literals were assigned up to a level: the code keeps the       *)
(* position at which each level starts.                                    *)
UpTo(s, level) == Cardinality({i \in DOMAIN s.trail : s.trail[i].level <= level})

(***************************************************************************)
(* Assigning literals.                                                     *)
(***************************************************************************)
\* Slip: the literal that could not be forced is recorded instead of its complement.
SetConflictUnflipped(s, l, ante) ==
  [s EXCEPT !.conflict = [has |-> TRUE, lits |-> {l} \cup Neg(ante \ {l})]]

SetConflict(s, l, ante) ==
  [s EXCEPT !.conflict = [has |-> TRUE, lits |-> {-l} \cup Neg(ante \ {l})]]

(* force: a true literal stays, a false one is a conflict, a free one is   *)
(* appended to the trail at the current decision level.                    *)
ForceLit(s, l, ante) ==
  IF IsTrue(s, l) THEN s
  ELSE IF IsFalse(s, l) THEN SetConflict(s, l, ante)
  ELSE [s EXCEPT !.trail = Append(@, [lit |-> l, level |-> DL(s), ante |-> ante])]

SetReason(s, l, ante) ==
  [s EXCEPT !.trail = [i \in DOMAIN @ |->
      IF @[i].lit = l THEN [@[i] EXCEPT !.ante = ante] ELSE @[i]]]

(* assume: a free literal opens a decision level of its own.               *)
Assume(s, l) ==
  IF IsFalse(s, l) THEN SetConflict(s, l, NoAnte)
  ELSE IF IsTrue(s, l) THEN s
  ELSE ForceLit([s EXCEPT !.decisions = Append(@, l)], l, NoAnte)

(***************************************************************************)
(* Undoing levels and re-assigning implied literals.                       *)
(***************************************************************************)
\* Slip: the list wakes up one level late.
ImpliedActiveLate(s) ==
  DL(s) < s.implied.level - 1 /\ s.implied.front # Len(s.implied.lits)

ImpliedActive(s) ==
  DL(s) < s.implied.level /\ s.implied.front # Len(s.implied.lits)

(* ImpliedList::assign, its i-th entry: from the list's front on, a literal*)
(* implied at or below the current level is forced again unless another is *)
(* in conflict; one above the level is dropped, and so is one of exactly   *)
(* this level whose antecedent now sits on the trail.                      *)
Visited(s, i) == i > s.implied.front /\ s.implied.lits[i].level <= DL(s)
Kept(s, i) == \/ i <= s.implied.front
              \/ Visited(s, i) /\ (\/ s.implied.lits[i].level < DL(s)
                                  \/ s.implied.lits[i].ante = NoAnte)
AssignNext(s, i, acc) ==
  LET e == s.implied.lits[i]
  IN [ sol  |-> IF Visited(s, i) /\ ~acc.sol.conflict.has
                THEN ForceLit(acc.sol, e.lit, e.ante) ELSE acc.sol,
       kept |-> IF Kept(s, i) THEN Append(acc.kept, e) ELSE acc.kept ]

AssignUpTo(s) ==
  LET upTo[i \in 0..Len(s.implied.lits)] ==
        IF i = 0 THEN [sol |-> s, kept |-> <<>>] ELSE AssignNext(s, i, upTo[i - 1])
  IN upTo

ImpliedAssign(s) ==
  LET done  == AssignUpTo(s)[Len(s.implied.lits)]
      level == IF done.kept = <<>> THEN 0 ELSE DL(s)
  IN [done.sol EXCEPT !.implied =
        [lits  |-> done.kept, level |-> level,
         front |-> IF level > s.root THEN s.implied.front ELSE Len(done.kept)]]

\* Slip: the propagation queue keeps its position when the trail shrinks.
UndoUntilKeepQueue(s, level) ==
  LET target == MaxOf(level, s.bt)
      popped == IF DL(s) <= target THEN s
                ELSE [s EXCEPT !.trail = SubSeq(@, 1, UpTo(s, target)),
                               !.decisions = SubSeq(@, 1, target)]
      reset  == [popped EXCEPT !.conflict = NoConflict]
  IN IF ImpliedActive(reset) THEN ImpliedAssign(reset) ELSE reset

\* Slip: the backtrack level does not hold the solver back.
UndoUntilUnbounded(s, level) ==
  LET popped == IF DL(s) <= level THEN s
                ELSE [s EXCEPT !.trail = SubSeq(@, 1, UpTo(s, level)),
                               !.decisions = SubSeq(@, 1, level)]
      reset  == [popped EXCEPT !.front = Len(popped.trail), !.conflict = NoConflict]
  IN IF ImpliedActive(reset) THEN ImpliedAssign(reset) ELSE reset

(* undo_until: levels above max(level, backtrack_level) are popped. Even   *)
(* when no level is popped the propagation queue and the conflict are      *)
(* reset.                                                                  *)
UndoUntil(s, level) ==
  LET target == MaxOf(level, s.bt)
      popped == IF DL(s) <= target THEN s
                ELSE [s EXCEPT !.trail = SubSeq(@, 1, UpTo(s, target)),
                               !.decisions = SubSeq(@, 1, target)]
      reset  == [popped EXCEPT !.front = Len(popped.trail), !.conflict = NoConflict]
  IN IF ImpliedActive(reset) THEN ImpliedAssign(reset) ELSE reset

AddImplied(s, e) ==
  [s EXCEPT !.implied.level = MaxOf(@, DL(s)), !.implied.lits = Append(@, e)]

(* force_implied: l is implied at a level other than the current one. The  *)
(* solver goes back to that level if the backtrack level allows it and     *)
(* otherwise remembers that l holds from there on.                         *)
ForceImplied(s, l, level, ante) ==
  LET lits  == s.implied.lits
      known == {i \in DOMAIN lits : lits[i].lit = l}
      first == CHOOSE i \in known : \A j \in known : i <= j
      entry == [lit |-> l, level |-> level, ante |-> ante]
      undone == UndoUntil(s, level)
      noted == IF DL(undone) # level THEN AddImplied(undone, entry) ELSE undone
  IN IF IsTrue(s, l) /\ LevelOf(s, l) <= level THEN s
     ELSE IF IsTrue(s, l) /\ known # {}
     THEN IF lits[first].level <= level THEN s
          ELSE SetReason([s EXCEPT !.implied.lits[first] = entry], l, ante)
     ELSE IF IsTrue(noted, l) THEN SetReason(noted, l, ante)
     ELSE ForceLit(noted, l, ante)

ForceAtLevel(s, l, level, ante) ==
  IF level = DL(s) THEN ForceLit(s, l, ante) ELSE ForceImplied(s, l, level, ante)

(***************************************************************************)
(* Root level, backtrack level and stop conflict.                          *)
(***************************************************************************)
\* Slip: the backtrack level is left below the new root.
PushRootLevelOnly(s, n) == [s EXCEPT !.root = MinOf(DL(s), s.root + n)]

PushRootLevel(s, n) ==
  LET root == MinOf(DL(s), s.root + n)
  IN [s EXCEPT !.root = root, !.bt = MaxOf(s.bt, root)]

\* Slip: the raised root level is kept.
ClearStopConflictAtRoot(s) ==
  IF ~s.stop.set THEN s
  ELSE [s EXCEPT !.bt = s.stop.bt, !.front = s.stop.front,
                 !.stop = NoStop, !.conflict = NoConflict]

ClearStopConflict(s) ==
  IF ~s.stop.set THEN s
  ELSE [s EXCEPT !.root = s.stop.root, !.bt = s.stop.bt, !.front = s.stop.front,
                 !.stop = NoStop, !.conflict = NoConflict]

SetStopConflict(s) ==
  LET saved == [set |-> TRUE, root |-> s.root, bt |-> s.bt, front |-> s.front]
  IN PushRootLevel(IF s.conflict.has THEN s
                   ELSE [s EXCEPT !.stop = saved,
                                  !.conflict = [has |-> TRUE, lits |-> {}]],
                   DL(s))

\* Slip: the subtraction does not saturate (a cleared stop lowers the root).
PopRootLevelWrap(s, n) ==
  LET c    == ClearStopConflict(s)
      root == c.root - n
  IN UndoUntil([c EXCEPT !.root = root, !.bt = root, !.implied.front = 0], root)

PopRootLevel(s, n) ==
  LET c    == ClearStopConflict(s)
      root == IF c.root >= n THEN c.root - n ELSE 0
  IN UndoUntil([c EXCEPT !.root = root, !.bt = root, !.implied.front = 0], root)

SetBacktrackLevel(s, n) == [s EXCEPT !.bt = MaxOf(MinOf(n, DL(s)), s.root)]

(* backtrack: the fallback of resolve_conflict.                            *)
Backtrack(s, level) ==
  LET u == UndoUntil(s, MaxOf(level, s.root)) IN [u EXCEPT !.bt = MinOf(@, DL(u))]
=============================================================================

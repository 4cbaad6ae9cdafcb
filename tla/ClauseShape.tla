----------------------------- MODULE ClauseShape -----------------------------
(***************************************************************************)
(* One learnt clause as the search reshapes it (clasp/clause.rs):          *)
(* ExplicitClauseState with its contracted tail, which is left out of the  *)
(* propagation while it is false and comes back through undo watches;      *)
(* SharedClauseState, whose literals lie outside; strengthening by the     *)
(* conflict analysis, top-level simplification, and deletion.              *)
(*                                                                         *)
(* A literal is the number of its variable, all occur positively. The      *)
(* solver around the clause decides, propagates, backtracks and learns     *)
(* facts.                                                                  *)
(***************************************************************************)
EXTENDS Integers, Sequences, FiniteSets, SequencesExt, FiniteSetsExt

CONSTANTS ShapeVars,  \* literals of the clause
          ShapeSteps  \* bound on decisions and facts

VARIABLES cls,    \* the clause
          strail, \* the solver's trail: literal, value, level, reason
          sfront, \* first position not propagated
          sconfl, \* conflict
          sundo,  \* undo watches of the clause: how many on each level
          ssteps

shapeVars == <<cls, strail, sfront, sconfl, sundo, ssteps>>
State == [cls |-> cls, trail |-> strail, front |-> sfront, confl |-> sconfl, undo |-> sundo]
Become(s) ==
  /\ cls' = s.cls /\ strail' = s.trail /\ sfront' = s.front
  /\ sconfl' = s.confl /\ sundo' = s.undo

ShapeLits == 1..ShapeVars
At(s, p) == CHOOSE i \in DOMAIN s.trail : s.trail[i].lit = p
Has(s, p) == \E i \in DOMAIN s.trail : s.trail[i].lit = p
IsTrue(s, p) == Has(s, p) /\ s.trail[At(s, p)].val
IsFalse(s, p) == Has(s, p) /\ ~s.trail[At(s, p)].val
LevelOf(s, p) == IF Has(s, p) THEN s.trail[At(s, p)].level ELSE 0
DL(s) == IF s.trail = <<>> THEN 0 ELSE s.trail[Len(s.trail)].level
Sat(s) == \E p \in ToSet(s.cls.lits) : IsTrue(s, p)

\* cut: strengthened since its watches were chosen
NoClause == [kind |-> "none", lits |-> <<>>, active |-> 0, contracted |-> FALSE,
             head |-> <<>>, unique |-> TRUE, cut |-> FALSE]
ShapeInit ==
  /\ cls = NoClause /\ strail = <<>> /\ sfront = 1 /\ sconfl = FALSE
  /\ sundo = [l \in 0..ShapeVars |-> 0] /\ ssteps = 0

\* Solver::force with the clause as reason
ForceLit(s, p) ==
  IF IsTrue(s, p) THEN s
  ELSE IF IsFalse(s, p) THEN [s EXCEPT !.confl = TRUE]
  ELSE [s EXCEPT !.trail = Append(@, [lit |-> p, val |-> TRUE, level |-> DL(s), why |-> "clause"])]

\* the undo watch of a contracted clause is on the level of the first literal
\* of its tail
TailHead(c) == c.lits[c.active + 1]
AddUndo(s) ==
  IF s.cls.contracted /\ LevelOf(s, TailHead(s.cls)) # 0
  THEN [s EXCEPT !.undo[LevelOf(s, TailHead(s.cls))] = @ + 1] ELSE s
RemoveUndo(s) ==
  LET level == LevelOf(s, TailHead(s.cls))
  IN IF s.cls.contracted /\ IsFalse(s, TailHead(s.cls)) /\ level # 0 /\ s.undo[level] > 0
     THEN [s EXCEPT !.undo[level] = @ - 1] ELSE s

\* sync_head: the first three active literals
Synced(s) == [s EXCEPT !.cls.head = SubSeq(s.cls.lits, 1, IF s.cls.active < 3 THEN s.cls.active
                                                          ELSE 3)]
Watched(c) == IF Len(c.head) < 2 THEN {} ELSE {c.head[1], c.head[2]}

-----------------------------------------------------------------------------
(* creation *)

\* prepare_span puts the two literals to watch first: free ones before false
\* ones, and of these the higher level first (the order of the others is that
\* in which they were given, one is enough)
Order(s, p) == IF Has(s, p) THEN LevelOf(s, p) ELSE DL(s) + 1
Ordered(s, lits) ==
  /\ \A i \in 2..Len(lits) : Order(s, lits[1]) >= Order(s, lits[i])
  /\ \A i \in 3..Len(lits) : Order(s, lits[2]) >= Order(s, lits[i])
  /\ \A i \in 4..Len(lits) : lits[i - 1] < lits[i]
ByLevel(s, tail) == SortSeq(tail, LAMBDA p, q : LevelOf(s, p) > LevelOf(s, q))

\* a tail that starts on the top level is not hidden
Contracted(s) ==
  LET c == s.cls
      lits == SubSeq(c.lits, 1, 2) \o ByLevel(s, SubSeq(c.lits, 3, Len(c.lits)))
      hide == Len(lits) > 2 /\ LevelOf(s, lits[3]) > 0
  IN AddUndo([s EXCEPT !.cls.lits = lits, !.cls.contracted = hide,
                       !.cls.active = IF hide THEN 2 ELSE Len(lits)])

\* a clause is learnt at its assertion level, or taken from another solver
Learn ==
  /\ cls.kind = "none" /\ ~sconfl /\ sfront > Len(strail)
  /\ \E lits \in SetToSeqs(ShapeLits), kind \in {"explicit", "shared"}, compress, unique \in BOOLEAN :
       LET made == [State EXCEPT !.cls = [kind |-> kind, lits |-> lits, active |-> Len(lits),
                                          contracted |-> FALSE, head |-> SubSeq(lits, 1, 3),
                                          unique |-> unique, cut |-> FALSE]]
           hidden == kind = "explicit" /\ compress /\ IsFalse(State, lits[2])
           built == Synced(IF hidden THEN Contracted(made) ELSE made)
       IN /\ Ordered(State, lits) /\ ~Sat(made) /\ ~IsFalse(State, lits[1])
          /\ IsFalse(State, lits[2]) => LevelOf(State, lits[2]) = DL(State)
          /\ kind = "explicit" => unique
          /\ Become(IF IsFalse(State, lits[2]) THEN ForceLit(built, lits[1]) ELSE built)
  /\ UNCHANGED ssteps

-----------------------------------------------------------------------------
(* propagation *)

\* update_explicit_watch: only the active literals are looked at
ExplicitWatch(s, pos) ==
  LET c == s.cls
      found == {i \in 3..c.active : ~IsFalse(s, c.lits[i])}
      i == Min(found)
  IN IF found = {} THEN s
     ELSE Synced([s EXCEPT !.cls.lits = [@ EXCEPT ![pos] = c.lits[i], ![i] = c.lits[pos]]])

\* update_shared_watch: the second literal found is kept in the head's cache
SharedWatchAny(s, pos) ==
  LET found == SelectSeq(s.cls.lits, LAMBDA p : ~IsFalse(s, p))
  IN IF found = <<>> THEN s ELSE [s EXCEPT !.cls.head = [@ EXCEPT ![pos] = found[1]]]
SharedWatch(s, pos) ==
  LET found == SelectSeq(s.cls.lits, LAMBDA p : ~IsFalse(s, p) /\ p # s.cls.head[3 - pos])
      head == [s.cls.head EXCEPT ![pos] = found[1]]
  IN IF found = <<>> THEN s
     ELSE [s EXCEPT !.cls.head = IF Len(found) > 1 /\ Len(head) = 3
                                 THEN [head EXCEPT ![3] = found[2]] ELSE head]

Propagated(s, p) ==
  LET pos == IF s.cls.head[1] = p THEN 1 ELSE 2
      next == IF s.cls.kind = "explicit" THEN ExplicitWatch(s, pos) ELSE SharedWatch(s, pos)
  IN IF Sat(s) THEN s
     ELSE IF next # s THEN next ELSE ForceLit(s, s.cls.head[3 - pos])

PropagateOne ==
  /\ ~sconfl /\ sfront <= Len(strail)
  /\ LET e == strail[sfront]
         s == [State EXCEPT !.front = @ + 1]
     IN Become(IF ~e.val /\ e.lit \in Watched(cls) THEN Propagated(s, e.lit) ELSE s)
  /\ UNCHANGED ssteps

-----------------------------------------------------------------------------
(* the solver *)

Decide ==
  /\ ~sconfl /\ sfront > Len(strail) /\ ssteps < ShapeSteps
  /\ \E p \in ShapeLits, val \in BOOLEAN, level \in {DL(State) + 1} \union ({0} \cap {DL(State)}) :
       /\ ~Has(State, p)
       /\ strail' = Append(strail, [lit |-> p, val |-> val, level |-> level, why |-> "solver"])
  /\ ssteps' = ssteps + 1
  /\ UNCHANGED <<cls, sfront, sconfl, sundo>>

\* undo_level calls restore_explicit_clause before the level is taken back: the
\* literals that are free after the whole backjump become active again
RestoredByValue(s, target) ==
  LET c == s.cls
      stay == {i \in c.active + 1..Len(c.lits) : Has(s, c.lits[i])}
  IN IF ~c.contracted THEN s
     ELSE IF stay = {} THEN Synced([s EXCEPT !.cls.active = Len(c.lits), !.cls.contracted = FALSE])
     ELSE Synced([s EXCEPT !.undo[LevelOf(s, c.lits[Min(stay)])] = @ + 1])
Restored(s, target) ==
  LET c == s.cls
      stay == {i \in c.active + 1..Len(c.lits) :
                 Has(s, c.lits[i]) /\ LevelOf(s, c.lits[i]) <= target}
      n == IF stay = {} THEN Len(c.lits) ELSE Min(stay) - 1
  IN IF ~c.contracted THEN s
     ELSE IF stay = {} \/ LevelOf(s, c.lits[n + 1]) = 0
     THEN Synced([s EXCEPT !.cls.active = Len(c.lits), !.cls.contracted = FALSE])
     ELSE Synced([s EXCEPT !.cls.active = n, !.undo[LevelOf(s, c.lits[n + 1])] = @ + 1])

RECURSIVE CallUndo(_, _, _)
CallUndo(s, target, n) == IF n = 0 THEN s ELSE CallUndo(Restored(s, target), target, n - 1)
RECURSIVE UndoUntil(_, _)
UndoUntil(s, target) ==
  LET level == DL(s)
      called == CallUndo([s EXCEPT !.undo[level] = 0], target, s.undo[level])
      kept == SelectSeq(s.trail, LAMBDA e : e.level < level)
  IN IF level <= target THEN [s EXCEPT !.front = Len(s.trail) + 1, !.confl = FALSE]
     ELSE UndoUntil([called EXCEPT !.trail = kept], target)

Backjump ==
  /\ sconfl \/ sfront > Len(strail)
  /\ \E target \in 0..DL(State) - 1 : Become(UndoUntil(State, target))
  /\ UNCHANGED ssteps

-----------------------------------------------------------------------------
(* reshaping *)

\* clause_head_strengthen without allow_to_short: a literal is erased where it
\* stands, the others move up
Strengthen(s, p) ==
  LET c == s.cls
      left == SelectSeq(c.lits, LAMBDA q : q # p)
      i == CHOOSE k \in DOMAIN c.lits : c.lits[k] = p
      active == IF i > c.active \/ c.active < Len(c.lits) THEN Min({c.active, Len(left)})
                ELSE c.active - 1
      least == IF active < 2 /\ Len(left) >= 2 THEN 2 ELSE active
      shrunk == [RemoveUndo(s) EXCEPT !.cls.lits = left, !.cls.active = least,
                                      !.cls.contracted = least < Len(left), !.cls.cut = TRUE]
  IN IF c.kind # "explicit" \/ ~Contains(c.lits, p) THEN s
     ELSE IF Len(left) <= 1 THEN [shrunk EXCEPT !.cls.head = <<>>, !.confl = TRUE]
     ELSE AddUndo(Synced(shrunk))
RECURSIVE StrengthenAll(_, _)
StrengthenAll(s, lits) ==
  IF lits = <<>> THEN s ELSE StrengthenAll(Strengthen(s, Head(lits)), Tail(lits))

\* a conflict in which the clause was the last reason, and the learnt clause is
\* a part of it (its literals have a level, and one, the asserting, is on the
\* conflict level): of the literals before the last of these, those that the
\* learnt clause lacks are removed, and the solver backjumps
OfReason == {i \in DOMAIN strail : strail[i].why = "clause" /\ strail[i].level = DL(State)}
StrengthenReason ==
  /\ sfront > Len(strail) /\ ~sconfl /\ OfReason # {} /\ DL(State) > 0
  /\ LET p == strail[CHOOSE i \in OfReason : TRUE].lit
         side == {q \in ToSet(cls.lits) \ {p} : LevelOf(State, q) > 0}
         here == {q \in side : LevelOf(State, q) = DL(State)}
     IN /\ Cardinality(here) = 1
        /\ \E kept \in SUBSET (side \ here) :
             LET last == Max({i \in DOMAIN cls.lits : cls.lits[i] \in here \union kept})
                 missing == SelectSeq(SubSeq(cls.lits, 1, last),
                                      LAMBDA q : q \notin here \union kept)
             IN Become(UndoUntil(StrengthenAll(State, missing),
                         Max({0} \union {LevelOf(State, q) : q \in kept})))
  /\ UNCHANGED ssteps

\* clause_head_simplify at the top level; true is that it can be destroyed
SimplifiedExplicit(s) ==
  LET free == SelectSeq(s.cls.lits, LAMBDA p : ~IsFalse(s, p))
      base == RemoveUndo(s)
  IN IF Sat(s) \/ Len(free) < 2 THEN [base EXCEPT !.cls = [NoClause EXCEPT !.kind = "gone"]]
     ELSE Synced([base EXCEPT !.cls.lits = free, !.cls.active = Len(free),
                              !.cls.contracted = FALSE, !.cls.cut = FALSE])
SimplifiedShared(s) ==
  LET free == SelectSeq(s.cls.lits, LAMBDA p : ~IsFalse(s, p))
      lits == IF s.cls.unique THEN free ELSE s.cls.lits
      cache == SelectSeq(lits, LAMBDA p : ~IsFalse(s, p) /\ p \notin {s.cls.head[1], s.cls.head[2]})
  IN IF Sat(s) THEN [s EXCEPT !.cls = [NoClause EXCEPT !.kind = "gone"]]
     ELSE [s EXCEPT !.cls.lits = lits,
                    !.cls.head = IF Len(@) = 3 /\ IsFalse(s, @[3]) /\ cache # <<>>
                                 THEN [@ EXCEPT ![3] = cache[1]] ELSE @]
SimplifyTop ==
  /\ cls.kind \in {"explicit", "shared"} /\ ~sconfl /\ sfront > Len(strail) /\ DL(State) = 0
  /\ Become(IF cls.kind = "explicit" THEN SimplifiedExplicit(State) ELSE SimplifiedShared(State))
  /\ UNCHANGED ssteps

\* clause_head_destroy: reduction deletes what is no reason
LockedNow == \E p \in ToSet(cls.lits) : IsTrue(State, p) /\ strail[At(State, p)].why = "clause"
Destroy ==
  /\ cls.kind \in {"explicit", "shared"} /\ ~sconfl /\ sfront > Len(strail) /\ ~LockedNow
  /\ LET base == IF cls.kind = "explicit" THEN RemoveUndo(State) ELSE State
     IN Become([base EXCEPT !.cls = [NoClause EXCEPT !.kind = "gone"]])
  /\ UNCHANGED ssteps

ShapeNext ==
  \/ Learn \/ PropagateOne \/ Decide \/ Backjump \/ StrengthenReason \/ SimplifyTop \/ Destroy

-----------------------------------------------------------------------------
\* the clause as learnt, without what was removed from it
ForcedHere == {i \in DOMAIN strail : strail[i].why = "clause" /\ strail[i].lit \in ToSet(cls.lits)}

(* A contracted clause hides only false literals, and is called back when  *)
(* the first of them is freed: there is exactly one undo watch, on its     *)
(* level, and none is left when the clause is whole or deleted. Whatever   *)
(* the clause forces, all its other literals, hidden ones too, are false   *)
(* before.                                                                 *)
TailHidden ==
  /\ LET level == IF cls.contracted THEN LevelOf(State, TailHead(cls)) ELSE 0
     IN sundo = [l \in 0..ShapeVars |-> IF l > 0 /\ l = level THEN 1 ELSE 0]
  /\ \A i \in cls.active + 1..Len(cls.lits) : IsFalse(State, cls.lits[i])
  /\ \A i \in ForcedHere : \A q \in ToSet(cls.lits) \ {strail[i].lit} :
       IsFalse(State, q) /\ At(State, q) < i

(* At the fixpoint the clause is not false and no literal of it is still   *)
(* to be forced, unless conflict analysis has cut it.                      *)
NothingMissed ==
  (sfront > Len(strail) /\ ~sconfl /\ ~cls.cut /\ cls.kind \in {"explicit", "shared"}) =>
    Sat(State) \/ Cardinality({p \in ToSet(cls.lits) : ~IsFalse(State, p)}) > 1
=============================================================================

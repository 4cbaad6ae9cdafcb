------------------------------ MODULE SatElite ------------------------------
(***************************************************************************)
(* Subsumption and strengthening with one watch per clause: SatPreClause,  *)
(* the watches and marks of OccurList, and subsumes and subsumed of        *)
(* SatElite (clasp/satelite.rs). Variable elimination is not ported, and   *)
(* the counts of occurrences that serve it are left out.                   *)
(*                                                                         *)
(* A literal is v or -v, a clause a sequence of literals of different      *)
(* variables. Clauses that were checked are kept under the watch of their  *)
(* first literal, and new ones are checked against them.                   *)
(***************************************************************************)
EXTENDS Integers, Sequences, FiniteSets, SequencesExt

CONSTANTS SatVars,     \* variables
          AbsBits,     \* bits of an abstraction, 64 in the code
          WatchBound   \* bound on the watched clauses

VARIABLES watched,  \* the clauses
          watches,  \* the clauses watched by each variable
          checked   \* the last clause checked: what it was and is, subsumed or not, stuck

seVars == <<watched, watches, checked>>

Abs(n) == IF n < 0 THEN -n ELSE n
Lits == (1..SatVars) \cup {-v : v \in 1..SatVars}
Clauses(n) == {c \in UNION {[1..k -> Lits] : k \in 1..n} :
                 \A i, j \in DOMAIN c : i < j => Abs(c[i]) # Abs(c[j])}
\* the first clause may be renamed to be sorted
Sorted(c) == \A i, j \in DOMAIN c : i < j => Abs(c[i]) < Abs(c[j])

SatInit ==
  /\ watched = <<>> /\ watches = [v \in 1..SatVars |-> <<>>]
  /\ checked = [was |-> <<>>, is |-> <<>>, subsumed |-> FALSE, stuck |-> FALSE]

-----------------------------------------------------------------------------
(* SatPreClause and marks: a variable is marked with a literal or with 0   *)

Unmarked == [v \in 1..SatVars |-> 0]
MarkAll(lits) ==
  [v \in 1..SatVars |-> IF \E i \in DOMAIN lits : Abs(lits[i]) = v
                        THEN lits[CHOOSE i \in DOMAIN lits : Abs(lits[i]) = v] ELSE 0]
Mark(marks, l) == marks[Abs(l)]
Marked(marks, l) == Mark(marks, l) = l

\* Len(c) + 1 if all are marked
FindUnmarked(marks, c, from) ==
  LET open == {i \in from..Len(c) : ~Marked(marks, c[i])}
  IN IF open = {} THEN Len(c) + 1 ELSE CHOOSE i \in open : \A j \in open : i <= j
AllMarked(marks, c, from) == FindUnmarked(marks, c, from) > Len(c)

SwapLits(c, i, j) == [c EXCEPT ![i] = c[j], ![j] = c[i]]
Abstraction(c) == {(Abs(c[i]) - 1) % AbsBits : i \in DOMAIN c}

-----------------------------------------------------------------------------
(* subsumes: the false literal if c does not subsume other, the true one   *)
(* if it does, else the literal of c whose complement other may lose;      *)
(* `only' is that literal, or the true one for any.                        *)

LitTrue == 0
LitFalse == SatVars + 1

MatchAnyLit(res, l, mark) ==
  IF res = LitFalse \/ mark = 0 THEN LitFalse ELSE IF mark = l THEN res ELSE l
MatchLit(res, l, mark) ==
  IF res = LitFalse \/ mark = 0 THEN LitFalse
  ELSE IF mark = l THEN res
  ELSE IF res \in {LitTrue, l} THEN l ELSE LitFalse

\* the search in the literals of a short clause finds what the marks of a long
\* one say
Subsumes(c, other, only) ==
  IF Len(other) < Len(c) \/ ~(Abstraction(c) \subseteq Abstraction(other)) THEN LitFalse
  ELSE FoldLeft(LAMBDA res, l : MatchLit(res, l, Mark(MarkAll(other), l)), only, c)

-----------------------------------------------------------------------------
(* subsumed: the clause, all of whose literals are marked, against the     *)
(* watched ones                                                            *)

\* one watcher of the literal that is read; the rest of the list is kept once
\* the clause is found subsumed or loses the literal
VisitWatch(st, l, id) ==
  LET c == st.store[id]
      n == FindUnmarked(st.marks, c, 2)
      moved == SwapLits(c, 1, n)
      w == moved[1]
      strengthens == Mark(st.marks, w) # 0 /\ AllMarked(st.marks, moved, n + 1)
      kept == [st EXCEPT !.kept = Append(@, id)]
  IN CASE st.found \/ st.drop -> kept
       [] c[1] = l /\ n > Len(c) -> [kept EXCEPT !.found = TRUE]
       [] c[1] = l /\ n <= Len(c) ->
            [st EXCEPT !.store[id] = moved,
                       !.watch[Abs(w)] = Append(@, id),
                       !.marks[Abs(w)] = IF strengthens THEN 0 ELSE @,
                       !.lost = IF strengthens THEN @ + 1 ELSE @]
       [] c[1] # l /\ n > Len(c) -> [kept EXCEPT !.drop = TRUE, !.marks[Abs(l)] = 0]
       [] OTHER -> kept

ReadLit(st, l) ==
  IF st.found THEN st
  ELSE IF Mark(st.marks, l) = 0 THEN [st EXCEPT !.lost = @ - 1]
  ELSE LET end == FoldLeft(LAMBDA s, id : VisitWatch(s, l, id),
                           [st EXCEPT !.kept = <<>>, !.drop = FALSE], st.watch[Abs(l)])
       IN [end EXCEPT !.watch[Abs(l)] = end.kept,
                      !.out = IF end.found \/ end.drop THEN @ ELSE Append(@, l)]

\* literals that were marked no more only after they had been read
DropLast(lits, marks) ==
  LET gone == {i \in DOMAIN lits : Mark(marks, lits[i]) = 0}
      first == CHOOSE i \in gone : \A j \in gone : i <= j
      short == SubSeq(lits, 1, Len(lits) - 1)
  IN IF gone = {} THEN lits
     ELSE IF first = Len(lits) THEN short ELSE [short EXCEPT ![first] = lits[Len(lits)]]
Stripped(st) == FoldLeft(LAMBDA lits, i : DropLast(lits, st.marks), st.out, [i \in 1..st.lost |-> i])

Subsumed(lits) ==
  LET st == FoldLeft(ReadLit,
                     [store |-> watched, watch |-> watches, marks |-> MarkAll(lits),
                      out |-> <<>>, kept |-> <<>>, lost |-> 0, found |-> FALSE, drop |-> FALSE],
                     lits)
      unmarked == Cardinality({i \in DOMAIN st.out : Mark(st.marks, st.out[i]) = 0})
  IN [lits |-> IF st.found THEN lits ELSE Stripped(st), stuck |-> ~st.found /\ st.lost > unmarked,
      found |-> st.found, store |-> st.store, watch |-> st.watch]

\* the caller marks the clause, checks it and takes the marks away
Check(lits) ==
  LET st == Subsumed(lits)
  IN /\ watched' = st.store /\ watches' = st.watch
     /\ checked' = [was |-> lits, is |-> st.lits, subsumed |-> st.found, stuck |-> st.stuck]

\* add_watch: a clause that was kept is watched by its first literal
Attach ==
  /\ ~checked.subsumed /\ checked.is # <<>> /\ Len(watched) < WatchBound
  /\ watched' = Append(watched, checked.is)
  /\ watches' = [watches EXCEPT ![Abs(checked.is[1])] = Append(@, Len(watched) + 1)]
  /\ checked' = [was |-> <<>>, is |-> <<>>, subsumed |-> FALSE, stuck |-> FALSE]

SatNext ==
  \/ Attach
  \/ /\ checked.was = <<>>
     /\ \E lits \in {c \in Clauses(SatVars) : Len(c) > 1} :
          (watched = <<>> => Sorted(lits)) /\ Check(lits)

-----------------------------------------------------------------------------
AsSet(c) == {c[i] : i \in DOMAIN c}
Models(cs) == {m \in [1..SatVars -> {-1, 1}] : \A c \in cs : \E l \in c : m[Abs(l)] * l > 0}
Without(s, l) == s \ {l}

(* A clause that is found subsumed has one of the watched clauses in it.   *)
(* One that is not has only lost literals that watched clauses resolve     *)
(* away, has no watched clause in it, and none that would take another     *)
(* literal from it; and each watched clause is in one list, that of its    *)
(* first literal.                                                          *)
SubsumptionExact ==
  LET Store == {AsSet(watched[i]) : i \in DOMAIN watched}
      is == AsSet(checked.is)
      Takes(s, lits, l) == -l \in s /\ Without(s, -l) \subseteq Without(lits, l)
  IN /\ checked.subsumed = (\E s \in Store : s \subseteq is) \/ checked.was = <<>>
     /\ Models(Store \cup {AsSet(checked.was)}) = Models(Store \cup {is}) \/ checked.was = <<>>
     /\ ~checked.stuck
     /\ ~checked.subsumed => \A l \in is, s \in Store : ~Takes(s, is, l)
     /\ \A v \in 1..SatVars :
          \A i \in DOMAIN watched :
            Cardinality({k \in DOMAIN watches[v] : watches[v][k] = i}) =
              (IF Abs(watched[i][1]) = v THEN 1 ELSE 0)
     /\ \A i, j \in DOMAIN watched :
          Subsumes(watched[i], watched[j], LitTrue) =
            LET a == AsSet(watched[i]) b == AsSet(watched[j])
                flipped == {l \in a : -l \in b /\ Without(a, l) \subseteq b}
            IN IF a \subseteq b THEN LitTrue
               ELSE IF flipped # {} THEN CHOOSE l \in flipped : TRUE ELSE LitFalse
=============================================================================

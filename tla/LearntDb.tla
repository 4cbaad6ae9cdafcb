------------------------------ MODULE LearntDb ------------------------------
(***************************************************************************)
(* The learnt constraints of a solver: their scores, the reductions of the *)
(* database, and the clauses that only hold under the tag literal or speak *)
(* about auxiliary variables (reduce_learnts, reduce_linear,               *)
(* reduce_sort_in_place, remove_conditional, strengthen_conditional,       *)
(* push_aux_var, push_tag_var, pop_vars and end_step of                    *)
(* clasp/constraint.rs; ReduceStrategy of clasp/solver_strategies.rs).     *)
(*                                                                         *)
(* What the search does in between is abstracted: literals are decided,    *)
(* learnt clauses propagate and are the reasons of what they imply, and    *)
(* levels are taken back. Variables 1..DbVars are those of the problem,    *)
(* the later ones are auxiliary. A literal is v or -v.                     *)
(***************************************************************************)
EXTENDS Integers, Sequences, FiniteSetsExt, SequencesExt

CONSTANTS DbVars,     \* problem variables
          DbAux,      \* bound on the auxiliary variables
          DbLearnts,  \* bound on the clauses learnt
          ActMax,     \* act_max, 2^20 - 1 in the code
          LbdMax      \* lbd_max, 127 in the code

VARIABLES learnts,  \* sequence of learnt clauses, in the order of the database
          dbTrail,  \* sequence of [lit, level, reason]: the id of a clause or 0
          levels,   \* [dl, root]
          auxs,     \* number of auxiliary variables
          tag,      \* variable of the tag literal or 0
          loose,    \* clauses that left the database for the short graph
          lasting,  \* units implied at level 0 while a level was open
          learned   \* number of clauses learnt so far

dbVarsAll == <<learnts, dbTrail, levels, auxs, tag, loose, lasting, learned>>

-----------------------------------------------------------------------------
VarOf(l) == IF l < 0 THEN -l ELSE l
AllVars == 1..DbVars + auxs
True(l) == \E i \in DOMAIN dbTrail : dbTrail[i].lit = l
False(l) == True(-l)
Free(l) == ~True(l) /\ ~False(l)
Open == {l \in {-v : v \in AllVars} \union (DbVars + 1..DbVars + auxs) : Free(l)}
Forced(l, why) == [lit |-> l, level |-> levels.dl, reason |-> why]

Tagged(C) == tag # 0 /\ -tag \in C
Aux(C) == \E l \in C : VarOf(l) > DbVars

\* the clause or short clause C implies its only literal that is not false
ImpliedBy(C) == {l \in C : Free(l) /\ \A k \in C \ {l} : False(k)}
Stored == {learnts[i].lits : i \in DOMAIN learnts} \union loose
Quiescent == \A C \in Stored : ImpliedBy(C) = {} /\ \E l \in C : ~False(l)

-----------------------------------------------------------------------------
(* ConstraintScore: activity and LBD saturate; lbd 0 stands for none *)

Score(act, lbd) ==
  [act |-> IF act < ActMax THEN act ELSE ActMax, lbd |-> IF lbd < LbdMax THEN lbd ELSE LbdMax]
Lbd(s) == IF s.lbd # 0 THEN s.lbd ELSE LbdMax
Decreased(s) == [s EXCEPT !.act = @ \div 2]

ScoreAct(s) == s.act
ScoreLbd(s) == LbdMax + 1 - Lbd(s)
ScoreBoth(s) == (s.act + 1) * ScoreLbd(s)

AsScore(mode, s) ==
  CASE mode = "act" -> ScoreAct(s) [] mode = "lbd" -> ScoreLbd(s) [] mode = "both" -> ScoreBoth(s)

\* ReduceStrategy::compare: the mode first, ties by both
Below(mode, s, t) ==
  \/ mode # "both" /\ AsScore(mode, s) < AsScore(mode, t)
  \/ (mode = "both" \/ AsScore(mode, s) = AsScore(mode, t)) /\ ScoreBoth(s) < ScoreBoth(t)

ComesLast(mode, s, t) == Below(mode, t, s)
ComesFirst(mode, s, t) == Below(mode, s, t)

\* the clause is the reason of one of its true literals
LockedOnTop(c) ==
  \E i \in DOMAIN dbTrail : dbTrail[i].level = levels.dl /\ dbTrail[i].reason = c.id
Locked(c) == \E i \in DOMAIN dbTrail : dbTrail[i].lit \in c.lits /\ dbTrail[i].reason = c.id

\* reduce_linear and reduce_sort_in_place go over the database in order and
\* delete up to `budget' clauses that are not to be kept
Protected(c, glue) == Locked(c) \/ Lbd(c.score) <= glue
Sweep(db, budget, keep) ==
  LET Go(acc, c) ==
        IF acc.budget = 0 \/ c \in keep
        THEN [acc EXCEPT !.db = Append(@, [c EXCEPT !.score = Decreased(@)])]
        ELSE [acc EXCEPT !.budget = @ - 1]
  IN FoldLeft(Go, [db |-> <<>>, budget |-> budget], db).db

\* scores above 1.5 times the average (or half way to the best one) stay
Above(mode, db, c) ==
  LET sum == FoldLeft(LAMBDA n, d : n + AsScore(mode, d.score), 0, db)
      best == AsScore(mode, Score(ActMax, 1))
      n == Len(db)
  IN IF 3 * sum > 2 * n * best THEN 2 * n * AsScore(mode, c.score) > n * best + sum
     ELSE 2 * n * AsScore(mode, c.score) > 3 * sum

ReduceLinear(db, budget, mode, glue) ==
  Sweep(db, budget, {c \in Range(db) : Above(mode, db, c) \/ Protected(c, glue)})

\* a stable sort, worst score first
InOrder(db, mode) ==
  LET before(i, j) == \/ ComesFirst(mode, db[i].score, db[j].score)
                      \/ ~ComesFirst(mode, db[j].score, db[i].score) /\ i < j
      rank == [i \in DOMAIN db |-> Cardinality({j \in DOMAIN db : before(j, i)}) + 1]
  IN [k \in DOMAIN db |-> db[CHOOSE i \in DOMAIN db : rank[i] = k]]

ReduceSorted(db, budget, mode, glue) ==
  Sweep(InOrder(db, mode), budget, {c \in Range(db) : Protected(c, glue)})

-----------------------------------------------------------------------------
(* The assignment. Units of `lasting' are assigned again after each undo   *)
(* until level 0 holds them.                                               *)

Kept(l) == SelectSeq(dbTrail, LAMBDA e : e.level <= l)
Renewed(tr, l) ==
  LET gone == {u \in lasting : \A i \in DOMAIN tr : tr[i].lit # u}
  IN tr \o [k \in 1..Cardinality(gone) |->
              [lit |-> SetToSeq(gone)[k], level |-> l, reason |-> 0]]

UndoUntil(l, root) ==
  /\ levels' = [dl |-> l, root |-> root]
  /\ dbTrail' = Renewed(Kept(l), l)
  /\ lasting' = IF l = 0 THEN {} ELSE lasting

Decide(l, root) ==
  /\ levels' = [dl |-> levels.dl + 1, root |-> root]
  /\ dbTrail' = Append(dbTrail, [lit |-> l, level |-> levels.dl + 1, reason |-> 0])

DbInit ==
  /\ learnts = <<>> /\ dbTrail = <<>> /\ loose = {} /\ lasting = {}
  /\ levels = [dl |-> 0, root |-> 0]
  /\ auxs = 0 /\ tag = 0 /\ learned = 0

Assume ==
  /\ Quiescent
  /\ \E l \in Open : Decide(l, levels.root)
  /\ UNCHANGED <<learnts, auxs, tag, loose, lasting, learned>>

PushRoot ==
  /\ Quiescent /\ levels.dl = levels.root
  /\ \E l \in Open : Decide(l, levels.root + 1)
  /\ UNCHANGED <<learnts, auxs, tag, loose, lasting, learned>>

\* a clause propagates on the current level; short clauses leave no id
Imply ==
  /\ \/ \E i \in DOMAIN learnts : \E l \in ImpliedBy(learnts[i].lits) :
          dbTrail' = Append(dbTrail, Forced(l, learnts[i].id))
     \/ \E C \in loose : \E l \in ImpliedBy(C) : dbTrail' = Append(dbTrail, Forced(l, 0))
  /\ UNCHANGED <<learnts, levels, auxs, tag, loose, lasting, learned>>

\* a learnt clause: a long one over problem variables, or a conditional or
\* auxiliary one; if it is asserting, it is so on the current level
Learnable ==
  LET extra == {a : a \in DbVars + 1..DbVars + auxs} \union (IF tag = 0 THEN {} ELSE {-tag})
  IN {{p, q} : p \in {1, -1}, q \in 2..DbVars} \union {{p, e} : p \in {1, -1}, e \in extra}

Learn ==
  /\ learned < DbLearnts
  /\ \E C \in Learnable, s \in {Score(0, 1), Score(1, 3)} :
       /\ \E l \in C : ~False(l)
       /\ ImpliedBy(C) # {} => \E i \in DOMAIN dbTrail :
                                 -dbTrail[i].lit \in C /\ dbTrail[i].level = levels.dl
       /\ learnts' = Append(learnts, [id |-> learned + 1, lits |-> C, score |-> s,
                                      tagged |-> Tagged(C), aux |-> Aux(C)])
  /\ learned' = learned + 1
  /\ UNCHANGED <<dbTrail, levels, auxs, tag, loose, lasting>>

BackJump ==
  /\ \E l \in levels.root..levels.dl - 1 : UndoUntil(l, levels.root)
  /\ UNCHANGED <<learnts, auxs, tag, loose, learned>>

\* pop_root_level; `was' tells whether the tag literal was true before
Unconditional(db) == SelectSeq(db, LAMBDA c : ~c.tagged)
TagHolds(tr) == tag # 0 /\ \E i \in DOMAIN tr : tr[i].lit = tag

PopTo(root, db) ==
  /\ UndoUntil(root, root)
  /\ learnts' = IF TagHolds(dbTrail) /\ ~TagHolds(dbTrail') THEN Unconditional(db) ELSE db

PopRoot ==
  /\ \E n \in 1..levels.root : PopTo(levels.root - n, learnts)
  /\ UNCHANGED <<auxs, tag, loose, learned>>

-----------------------------------------------------------------------------
(* Reduction *)

Reduced(db, algo, mode, frac, glue) ==
  LET budget == (Len(db) * frac) \div 100
  IN IF algo = "linear" THEN ReduceLinear(db, budget, mode, glue)
     ELSE ReduceSorted(db, budget, mode, glue)

ReduceLearnts(algo, mode, frac, glue) ==
  /\ UNCHANGED <<dbTrail, levels, auxs, tag, loose, lasting, learned>>
  /\ learnts' = Reduced(learnts, algo, mode, frac, glue)

Modes == {"act", "lbd", "both"}
Fractions == {50, 100}
Glue == 1                  \* clauses of this LBD are never deleted

Reduce ==
  /\ learnts # <<>>
  /\ \E a \in {"linear", "sort"}, m \in Modes, f \in Fractions :
       ReduceLearnts(a, m, f, Glue)

-----------------------------------------------------------------------------
(* The tag literal and auxiliary variables *)

PushAux ==
  /\ auxs < DbAux /\ auxs' = auxs + 1
  /\ UNCHANGED <<learnts, dbTrail, levels, tag, loose, lasting, learned>>

PushTag ==
  /\ IF tag = 0 THEN auxs < DbAux /\ auxs' = auxs + 1 /\ tag' = DbVars + auxs + 1
     ELSE UNCHANGED <<auxs, tag>>
  /\ \/ UNCHANGED <<dbTrail, levels>>
     \/ Quiescent /\ levels.dl = levels.root /\ Free(tag') /\ Decide(tag', levels.root + 1)
  /\ UNCHANGED <<learnts, loose, lasting, learned>>

\* a caller may drop conditional knowledge while the tag literal is free
RemoveConditional ==
  /\ tag # 0 /\ Free(tag)
  /\ learnts' = Unconditional(learnts)
  /\ UNCHANGED <<dbTrail, levels, auxs, tag, loose, lasting, learned>>

\* Without the tag a clause of one literal becomes a unit of level 0, and one
\* of two or three moves to the short graph; at the root only, where the
\* assertion in the loop lets locked clauses go
Strengthened(c) == c.lits \ {-tag}
NewUnits == UNION {Strengthened(c) : c \in {d \in Range(learnts) : d.tagged
                                                     /\ Cardinality(Strengthened(d)) = 1}}

StrengthenConditional ==
  /\ tag # 0 /\ levels.dl = levels.root
  /\ \A u \in NewUnits : ~False(u)
  /\ learnts' = Unconditional(learnts)
  /\ loose' = loose \union {Strengthened(c) : c \in {d \in Range(learnts) : d.tagged
                                                     /\ Cardinality(Strengthened(d)) > 1}}
  /\ lasting' = IF levels.dl = 0 THEN {} ELSE lasting \union NewUnits
  /\ LET new == SetToSeq({u \in NewUnits : Free(u)})
     IN dbTrail' = dbTrail \o [k \in DOMAIN new |-> Forced(new[k], 0)]
  /\ UNCHANGED <<levels, auxs, tag, learned>>

\* level 0 is filtered, not taken back
FilteredNever(tr, last, min) == tr
Filtered(tr, last, min) ==
  IF min = 0 THEN SelectSeq(tr, LAMBDA e : VarOf(e.lit) <= last) ELSE tr

\* pop_vars: take back the levels on which the popped variables are assigned
PopVars(num) ==
  LET last == DbVars + auxs - num
      gone == {i \in DOMAIN dbTrail : VarOf(dbTrail[i].lit) > last}
      min == Min({dbTrail[i].level : i \in gone} \union {levels.dl + 1}
                 \union {0 : u \in {k \in lasting : VarOf(k) > last}})
      db(d) == SelectSeq(d, LAMBDA c : ~(c.aux /\ \E l \in c.lits : VarOf(l) > last))
      to == IF min = 0 THEN 0 ELSE min - 1
      root == IF min > levels.root THEN levels.root ELSE to
      left == Filtered(Renewed(Kept(to), to), last, min)
  IN /\ levels' = [dl |-> IF to > levels.dl THEN levels.dl ELSE to, root |-> root]
     /\ dbTrail' = left
     /\ lasting' = IF to = 0 THEN {} ELSE lasting
     /\ learnts' = db(IF root < levels.root /\ TagHolds(dbTrail) /\ ~TagHolds(left)
                      THEN Unconditional(learnts) ELSE learnts)
     /\ auxs' = auxs - num
     /\ tag' = IF tag > last THEN 0 ELSE tag

PopAux ==
  /\ \E n \in 1..auxs : PopVars(n)
  /\ UNCHANGED <<loose, learned>>

\* end_step: back to level 0, auxiliary variables and satisfied clauses go,
\* and, if learnts are forgotten, all that reduction may delete
TopTrue(C) == \E i \in DOMAIN dbTrail' : dbTrail'[i].lit \in C
ClearedTrail == SelectSeq(Renewed(Kept(0), 0), LAMBDA e : VarOf(e.lit) <= DbVars)

EndStep ==
  /\ levels' = [dl |-> 0, root |-> 0]
  /\ dbTrail' = ClearedTrail
  /\ lasting' = {} /\ auxs' = 0 /\ tag' = 0
  /\ LET base == IF TagHolds(dbTrail) /\ ~TagHolds(Renewed(Kept(0), 0))
                 THEN Unconditional(learnts) ELSE learnts
         db == SelectSeq(base, LAMBDA c : ~TopTrue(c.lits) /\ (c.aux => ~Aux(c.lits)))
     IN learnts' \in {db, Sweep(db, Len(db), {c \in Range(db) : Lbd(c.score) <= 1})}
  /\ UNCHANGED <<loose, learned>>

DbNext ==
  \/ Assume \/ PushRoot \/ Imply \/ Learn \/ BackJump \/ PopRoot \/ Reduce
  \/ PushAux \/ PushTag \/ RemoveConditional \/ StrengthenConditional \/ PopAux \/ EndStep

-----------------------------------------------------------------------------
(* Conflict analysis never meets a deleted clause: what is true above the  *)
(* root level by a learnt clause still finds it in the database, whatever  *)
(* was reduced, popped or dropped with the tag literal in between.         *)
ReasonsLive ==
  \A i \in DOMAIN dbTrail :
    dbTrail[i].level > levels.root /\ dbTrail[i].reason # 0
      => \E k \in DOMAIN learnts : learnts[k].id = dbTrail[i].reason

(* Popped variables are gone: none is assigned, the tag literal is not one *)
(* of them, and no learnt clause that could still propagate mentions one.  *)
VarsLive ==
  /\ \A i \in DOMAIN dbTrail : VarOf(dbTrail[i].lit) \in AllVars
  /\ tag # 0 => tag \in AllVars
  /\ \A i \in DOMAIN learnts : \A l \in learnts[i].lits : VarOf(l) \in AllVars

(* The sorting reduction deletes the worst clauses: none it deletes beats  *)
(* one it keeps, unless that one is protected, and it deletes as many as   *)
(* the fraction asks for or all that nothing protects.                     *)
WorstGoFirst ==
  \A m \in Modes, f \in Fractions :
    LET left == Range(Reduced(learnts, "sort", m, f, Glue))
        free == {c \in Range(learnts) : ~Protected(c, Glue)}
        out == {c \in free : \A d \in left : d.id # c.id}
    IN /\ Cardinality(out) = Min({Cardinality(free), (Len(learnts) * f) \div 100})
       /\ \A c \in out, d \in free \ out : ~Below(m, d.score, c.score)
=============================================================================

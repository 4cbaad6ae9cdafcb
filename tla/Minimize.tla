------------------------------- MODULE Minimize -------------------------------
(***************************************************************************)
(* MinimizeBuilder and SharedMinimizeData: minimize statements of several  *)
(* priorities are normalised into one list of literals with a weight per   *)
(* level, and the bounds found by the solvers are kept beside it. Solvers  *)
(* raise the lower bound concurrently, with compare-and-swap; everything   *)
(* else needs exclusive access.                                            *)
(***************************************************************************)
EXTENDS Integers, Sequences, FiniteSets, SequencesExt, FiniteSetsExt

CONSTANTS
  MinVars,      \* problem variables
  MinAdds,      \* literals added to the builder
  MinRunAdds,   \* the bounds are used after up to so many literals of variable 1
  MinOps        \* calls on the bounds

VARIABLES
  minb,     \* the builder: its literals, and the literals true in the solver
  mind,     \* the shared data, or NoData
  minth,    \* per thread, where it is in inc_lower
  mincalls, \* calls on the bounds so far
  minhist   \* the last optimum stored, and the lower bounds asked for (history)

minVars == <<minb, mind, minth, mincalls, minhist>>

NoData == [built |-> FALSE]
TrueVar == MinVars + 1                   \* the variable of lit_true
MinLit == 1..MinVars \cup {-v : v \in 1..MinVars} \cup {TrueVar}
MaxBound == 1000                         \* stands for weight_sum_max
MinThreads == 1..2
IdleThread == [pc |-> "idle", level |-> 1, value |-> 0, stored |-> 0]

MinInit ==
  /\ \E facts \in {{}, {1}, {-1}} : minb = [lits |-> <<>>, facts |-> facts \cup {TrueVar}]
  /\ mind = NoData /\ minth = [t \in MinThreads |-> IdleThread]
  /\ mincalls = 0 /\ minhist = [opt |-> <<>>, base |-> <<>>, asked |-> {}]

(***************************************************************************)
(* The builder. prepare_levels sorts by priority, literal and weight, so   *)
(* the list is kept sorted here.                                           *)
(***************************************************************************)
Before(a, b) ==
  \/ a.prio > b.prio
  \/ a.prio = b.prio /\ a.lit < b.lit
  \/ a.prio = b.prio /\ a.lit = b.lit /\ a.weight > b.weight

AddLiteral ==
  /\ ~mind.built /\ Len(minb.lits) < MinAdds
  /\ \E prio \in {0, 1}, l \in MinLit, w \in {2, -1} :
       minb' = [minb EXCEPT !.lits = SortSeq(Append(@, [prio |-> prio, lit |-> l, weight |-> w]), Before)]
  /\ UNCHANGED <<mind, minth, mincalls, minhist>>

SumAt(lits, p, l) ==
  FoldSet(LAMBDA i, n : n + lits[i].weight, 0, {i \in DOMAIN lits : lits[i].prio = p /\ lits[i].lit = l})
Least(a, b) == IF a < b THEN a ELSE b

(* prepare_levels: what both literals of a variable cost is paid whatever  *)
(* the variable is, and so is the weight of a true literal. The table has  *)
(* what is left for each level and variable.                               *)
Net(lits, p, v) ==
  LET pos == SumAt(lits, p, v)
      neg == SumAt(lits, p, -v)
  IN  [lit |-> IF pos > neg THEN v ELSE -v, weight |-> IF pos > neg THEN pos - neg ELSE neg - pos,
       paid |-> Least(pos, neg)]
PriosOf(lits) == SetToSortSeq({lits[i].prio : i \in DOMAIN lits}, LAMBDA a, b : a > b)
Nets(lits) == LET prios == PriosOf(lits) IN [i \in DOMAIN prios |-> [v \in 1..TrueVar |-> Net(lits, prios[i], v)]]

\* Slip: the weight of a true literal is lost.
PaidNotByFacts(level, facts) == FoldSet(LAMBDA v, n : n + level[v].paid, 0, DOMAIN level)

Paid(level, facts) ==
  FoldSet(LAMBDA v, n : n + level[v].paid + IF level[v].lit \in facts THEN level[v].weight ELSE 0, 0, DOMAIN level)

FreeVar(facts, v) == v \notin facts /\ -v \notin facts
Levels(nets, facts, v) == IF FreeVar(facts, v) THEN {i \in DOMAIN nets : nets[i][v].weight # 0} ELSE {}

(* merge_levels: one literal per variable, that of its first level, with   *)
(* the chain of its weights; where the other literal costs, that is paid   *)
(* and the weight is negative.                                             *)
Leader(nets, levels, v) == nets[Min(levels)][v].lit
Chain(nets, levels, v) ==
  LET order == SetToSortSeq(levels, LAMBDA a, b : a < b)
      entry(k) == nets[order[k]][v]
  IN  [k \in DOMAIN order |->
         [level |-> order[k],
          weight |-> IF entry(k).lit = Leader(nets, levels, v) THEN entry(k).weight ELSE -entry(k).weight]]
WeightIn(chain, i) == FoldLeft(LAMBDA n, e : n + IF e.level = i THEN e.weight ELSE 0, 0, chain)
MergePaid(chains, i) == FoldSet(LAMBDA v, n : n - Least(WeightIn(chains[v], i), 0), 0, DOMAIN chains)

(* comes_before: heavier at the first level where the two differ.          *)
ComesBefore(c, d, n) ==
  \E i \in 1..n : /\ WeightIn(c, i) > WeightIn(d, i)
                  /\ \A j \in 1..i - 1 : WeightIn(c, j) = WeightIn(d, j)

(* create_shared: literals sorted by weight; equal chains are stored once. *)
SortedVars(chains, n) ==
  SetToSortSeq({v \in DOMAIN chains : chains[v] # <<>>},
    LAMBDA v, w : ComesBefore(chains[v], chains[w], n) \/ (~ComesBefore(chains[w], chains[v], n) /\ v < w))

(* reset_bounds: the least a level can cost. Chains are visited in order,  *)
(* and the literals before them are skipped.                               *)
LitsWith(d, i) == {j \in DOMAIN d.lits : d.lits[j].weight = i /\ \A k \in 1..j : d.lits[k].weight <= i}
LowerOf(d, level) ==
  IF Len(d.adjust) = 1 THEN 0
  ELSE FoldSet(LAMBDA i, n : n + Least(WeightIn(d.chains[i], level), 0) * Cardinality(LitsWith(d, i)),
               0, DOMAIN d.chains)

ResetBounds(d) ==
  [d EXCEPT !.g = 0, !.opt = 0, !.low_pos = Len(d.adjust) + 1,
            !.lower = [i \in DOMAIN d.adjust |-> LowerOf(d, i)],
            !.up = [k \in {0, 1} |-> [i \in DOMAIN d.adjust |-> MaxBound]]]

NewData(prios, adjust, chains, lits) ==
  ResetBounds([built |-> TRUE, prios |-> prios, adjust |-> adjust, chains |-> chains, lits |-> lits,
               mode |-> "optimize", g |-> 0, opt |-> 0, low_pos |-> 0, lower |-> <<>>, up |-> <<>>])

CreateShared(lits, facts) ==
  LET nets == Nets(lits)
      single == Len(nets) = 1
      levels == [v \in 1..TrueVar |-> Levels(nets, facts, v)]
      chainOf == [v \in 1..TrueVar |-> Chain(nets, levels[v], v)]
      vs == SortedVars(chainOf, Len(nets))
      chains == FoldLeft(LAMBDA s, v : IF Contains(s, chainOf[v]) THEN s ELSE Append(s, chainOf[v]), <<>>, vs)
      weight(v) == IF single THEN chainOf[v][1].weight ELSE SelectInSeq(chains, LAMBDA c : c = chainOf[v])
  IN  NewData(PriosOf(lits),
              [i \in DOMAIN nets |-> Paid(nets[i], facts) + MergePaid(chainOf, i)],
              IF single THEN <<>> ELSE chains,
              [k \in DOMAIN vs |-> [lit |-> Leader(nets, levels[vs[k]], vs[k]), weight |-> weight(vs[k])]])

Build ==
  /\ ~mind.built /\ minb.lits # <<>>
  /\ mind' = CreateShared(minb.lits, minb.facts)
  /\ minhist' = [minhist EXCEPT !.opt = mind'.up[0], !.base = mind'.lower]
  /\ UNCHANGED <<minb, minth, mincalls>>

(***************************************************************************)
(* Bounds.                                                                 *)
(***************************************************************************)
NumRules(d) == Len(d.adjust)
WeightAt(d, k, i) == IF NumRules(d) = 1 THEN d.lits[k].weight ELSE WeightIn(d.chains[d.lits[k].weight], i)
Upper(d) == d.up[d.g % 2]
SumSlice(d) == IF d.mode # "enumerate" THEN Upper(d) ELSE d.up[1]

Used ==
  /\ mind.built /\ Len(minb.lits) <= MinRunAdds /\ minb.facts = {TrueVar}
  /\ \A i \in DOMAIN minb.lits : minb.lits[i].lit \in {1, -1}
Owned == Used /\ \A t \in MinThreads : minth[t].pc = "idle"
Call == Owned /\ mincalls < MinOps /\ mincalls' = mincalls + 1 /\ UNCHANGED minb
Vectors == [DOMAIN mind.adjust -> {0, 2}]

(* set_optimum writes the half that is not in use and then turns to it; in *)
(* enumerate mode it does not turn.                                        *)
SetOptimum ==
  /\ Call
  /\ \E v \in Vectors :
       LET next == 1 - (mind.g % 2)
       IN  IF mind.opt # 0 THEN UNCHANGED <<mind, minhist>>
           ELSE /\ mind' = [mind EXCEPT !.up[next] = v, !.g = IF mind.mode = "enumerate" THEN @ ELSE @ + 1]
                /\ minhist' = [minhist EXCEPT !.opt = v]
  /\ UNCHANGED minth

MarkOptimal ==
  /\ Call
  /\ mind' = [mind EXCEPT !.opt = mind.g]
  /\ UNCHANGED <<minth, minhist>>

(* set_mode with a bound starts the search over; a bound below the lower   *)
(* bound ends it at that level with the levels before it set. Enumeration  *)
(* is always given a bound.                                                *)
SetMode ==
  /\ Call
  /\ \E mode \in {"optimize", "enumerate"}, bound \in Vectors \cup {<<>>} :
       LET value == [i \in DOMAIN bound |-> IF mind.adjust[i] >= 0 \/ MaxBound + mind.adjust[i] >= bound[i]
                                            THEN bound[i] - mind.adjust[i] ELSE MaxBound]
           bad == {i \in DOMAIN bound : value[i] < mind.lower[i]}
           d == [mind EXCEPT !.mode = mode, !.g = 0, !.opt = 0,
                   !.up[0] = [i \in DOMAIN @ |-> IF bad # {} /\ i >= Min(bad) THEN @[i]
                                                 ELSE IF i \in DOMAIN bound THEN value[i] ELSE MaxBound]]
       IN  /\ mode = "enumerate" => bound # <<>>
           /\ mind' = IF bound = <<>> THEN [mind EXCEPT !.mode = mode] ELSE d
           /\ minhist' = [minhist EXCEPT !.opt = SumSlice(mind')]
  /\ UNCHANGED minth

(* inc_lower, for the greatest of the values given by all threads.         *)
IncLower(t) ==
  /\ minth[t].pc = "idle" /\ Used
  /\ mincalls < MinOps /\ mincalls' = mincalls + 1
  /\ \E i \in DOMAIN mind.adjust, v \in {1, 2} :
       /\ minth' = [minth EXCEPT ![t] = [pc |-> "check", level |-> i, value |-> v, stored |-> mind.lower[i]]]
       /\ minhist' = [minhist EXCEPT !.asked = @ \cup {<<i, v>>}]
  /\ UNCHANGED <<minb, mind>>

\* Slip: a value stored meanwhile is overwritten.
SwapsAlways(th) == TRUE

Swaps(th) == mind.lower[th.level] = th.stored
IncCheck(t) ==
  /\ minth[t].pc = "check"
  /\ minth' = [minth EXCEPT ![t].pc = IF minth[t].stored >= minth[t].value THEN "idle" ELSE "swap"]
  /\ UNCHANGED <<minb, mind, mincalls, minhist>>
IncSwap(t) ==
  LET th == minth[t]
  IN  /\ th.pc = "swap"
      /\ IF Swaps(th)
         THEN /\ mind' = [mind EXCEPT !.lower[th.level] = th.value]
              /\ minth' = [minth EXCEPT ![t].pc = "level"]
         ELSE /\ minth' = [minth EXCEPT ![t].pc = "check", ![t].stored = mind.lower[th.level]]
              /\ UNCHANGED mind
      /\ UNCHANGED <<minb, mincalls, minhist>>
IncLevel(t) ==
  /\ minth[t].pc = "level"
  /\ minth' = [minth EXCEPT ![t].pc = "swaplevel", ![t].stored = mind.low_pos]
  /\ UNCHANGED <<minb, mind, mincalls, minhist>>
IncSwapLevel(t) ==
  LET th == minth[t]
      higher == th.stored = NumRules(mind) + 1 \/ th.level > th.stored
  IN  /\ th.pc = "swaplevel"
      /\ IF higher /\ mind.low_pos # th.stored
         THEN minth' = [minth EXCEPT ![t].stored = mind.low_pos] /\ UNCHANGED mind
         ELSE /\ minth' = [minth EXCEPT ![t] = IdleThread]
              /\ mind' = [mind EXCEPT !.low_pos = IF higher THEN th.level ELSE @]
      /\ UNCHANGED <<minb, mincalls, minhist>>

ThreadInc(t) == IncLower(t) \/ IncCheck(t) \/ IncSwap(t) \/ IncLevel(t) \/ IncSwapLevel(t)

MinNext ==
  \/ AddLiteral \/ Build
  \/ SetOptimum \/ MarkOptimal \/ SetMode
  \/ \E t \in MinThreads : ThreadInc(t)

(* implies_weight: whether taking literal k exceeds the bound, for sums    *)
(* that equal the bound above the given level.                             *)
FirstLevel(d, k) == IF NumRules(d) = 1 THEN 1 ELSE d.chains[d.lits[k].weight][1].level

\* Slip: a level above that is not exhausted is passed over.
StartAtFirst(d, lhs, k, rhs, level) == FirstLevel(d, k)

StartLevel(d, lhs, k, rhs, level) ==
  Min({i \in level..FirstLevel(d, k) : i = FirstLevel(d, k) \/ lhs[i] # rhs[i]})

Implies(d, lhs, k, rhs, level) ==
  IF NumRules(d) = 1 THEN lhs[1] + d.lits[k].weight > rhs[1]
  ELSE LET sum(i) == lhs[i] + WeightAt(d, k, i)
           apart == {i \in StartLevel(d, lhs, k, rhs, level)..NumRules(d) : sum(i) # rhs[i]}
       IN  apart # {} /\ sum(Min(apart)) > rhs[Min(apart)]

(***************************************************************************)
(* Properties.                                                             *)
(***************************************************************************)
TrueUnder(A, l) == IF l > 0 THEN l \in A ELSE -l \notin A
MinWorlds == {A \in SUBSET (1..TrueVar) : \A f \in minb.facts : TrueUnder(A, f)}
SumOfLits(d, A, i) == FoldSet(LAMBDA k, n : n + WeightAt(d, k, i), 0, {k \in DOMAIN d.lits : TrueUnder(A, d.lits[k].lit)})
CostGiven(A, p) ==
  FoldSet(LAMBDA k, n : n + minb.lits[k].weight, 0,
          {k \in DOMAIN minb.lits : minb.lits[k].prio = p /\ TrueUnder(A, minb.lits[k].lit)})

(* Normalising loses nothing: at every level the literals kept and the     *)
(* adjustment cost what the statements of that priority cost, under every  *)
(* assignment; no literal is kept twice, and the lower bound of a level is *)
(* one that some assignment reaches or none goes below.                    *)
CostsKept ==
  mind.built =>
    /\ \A A \in MinWorlds : \A i \in DOMAIN mind.adjust :
         /\ SumOfLits(mind, A, i) + mind.adjust[i] = CostGiven(A, mind.prios[i])
         /\ SumOfLits(mind, A, i) >= minhist.base[i]
    /\ \A i \in DOMAIN mind.adjust :
         NumRules(mind) > 1 => \E A \in MinWorlds : SumOfLits(mind, A, i) = minhist.base[i]
    /\ \A j, k \in DOMAIN mind.lits : j # k => mind.lits[j].lit \notin {mind.lits[k].lit, -mind.lits[k].lit}

(* The bound test of propagation is the lexicographic comparison of the    *)
(* levels, for every literal and every sum that agrees with the bound      *)
(* above the level the test starts at.                                     *)
LexGreater(u, v) == \E i \in DOMAIN u : u[i] > v[i] /\ \A j \in 1..i - 1 : u[j] = v[j]
ImpliesLex ==
  mind.built /\ mincalls = 0 =>
    \A k \in DOMAIN mind.lits : \A lhs, rhs \in [DOMAIN mind.adjust -> {0, 1, 2}] :
      LET added == [i \in DOMAIN lhs |-> lhs[i] + WeightAt(mind, k, i)]
      IN  \A level \in 1..FirstLevel(mind, k) : (\A j \in 1..level - 1 : lhs[j] = rhs[j]) =>
            (Implies(mind, lhs, k, rhs, level) <=> LexGreater(added, rhs))

(* The sum that is reported is the optimum stored last or the bound it was *)
(* replaced by; and once every call of inc_lower has returned, each level  *)
(* has the greatest lower bound any thread gave, and the level announced   *)
(* with a lower bound is the greatest one that was raised.                 *)
BoundsExact ==
  mind.built =>
    /\ SumSlice(mind) = minhist.opt
    /\ (\A t \in MinThreads : minth[t].pc = "idle") =>
         /\ \A i \in DOMAIN mind.adjust :
              mind.lower[i] = Max({minhist.base[i]} \cup {a[2] : a \in {x \in minhist.asked : x[1] = i}})
         /\ LET raised == {i \in DOMAIN mind.adjust : mind.lower[i] # minhist.base[i]}
            IN  mind.low_pos = IF raised = {} THEN NumRules(mind) + 1 ELSE Max(raised)
===============================================================================

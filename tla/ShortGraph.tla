------------------------------ MODULE ShortGraph ------------------------------
(***************************************************************************)
(* ShortImplicationsGraph, the store of binary and ternary clauses shared  *)
(* by all solvers, and the three things that rewrite it: adding a clause,  *)
(* Solver::simplify, which drops the clauses of top-level literals, and    *)
(* SharedContext::preprocess_short, which probes every literal.            *)
(*                                                                         *)
(* A clause is kept as one arc at each of its literals: arc [at, to] of a  *)
(* binary clause {-at, to}, arc [at, pair] of a ternary one. The clause    *)
(* counts are separate fields that every operation adjusts by hand.        *)
(***************************************************************************)
EXTENDS Integers, FiniteSets, Sequences, SequencesExt

CONSTANTS
  GraphVars,     \* number of problem variables
  GraphAdds,     \* how many clauses and facts a behaviour gives
  SimpAll,       \* ShortSimpMode: TRUE is SimpAll, FALSE is SimpNo
  Probing        \* whether preprocess_short is called

VARIABLES
  graph,      \* the arcs and the counts
  facts,      \* the top-level literals of the solver, oldest first
  given,      \* every problem clause and fact the graph was told (history)
  probe,      \* preprocess_short: the literal probed and what it implied
  gadds,      \* clauses and facts given so far
  dropped     \* a clause was dropped for a literal its premise made false (history)

graphVars == <<graph, facts, given, probe, gadds, dropped>>

GLit == 1..GraphVars \cup {-v : v \in 1..GraphVars}
Known == {facts[i] : i \in DOMAIN facts}
Unassigned(S, l) == l \notin S /\ -l \notin S

NoArcs == [b |-> {}, t |-> {}, nb |-> [k \in BOOLEAN |-> 0], nt |-> [k \in BOOLEAN |-> 0]]
NoProbe == [on |-> FALSE, left |-> <<>>, trail |-> <<>>, front |-> 0, todo |-> {},
            by |-> <<>>, rewrites |-> <<>>, marks |-> {}, ok |-> TRUE]

GraphInit ==
  /\ graph = NoArcs
  /\ facts = <<>> /\ given = {} /\ probe = NoProbe /\ gadds = 0 /\ dropped = FALSE

(***************************************************************************)
(* Arcs.                                                                   *)
(***************************************************************************)
HasBin(g, at, to) == \E a \in g.b : a.at = at /\ a.to = to
HasTer(g, at, pair) == \E a \in g.t : a.at = at /\ a.pair = pair
Less(n) == IF n = 0 THEN 0 ELSE n - 1     \* saturating_sub(1)

AddBin(g, x, y, k) ==
  IF HasBin(g, -x, y) THEN g
  ELSE [g EXCEPT !.b = @ \cup {[at |-> -x, to |-> y, learnt |-> k], [at |-> -y, to |-> x, learnt |-> k]},
                 !.nb[k] = @ + 1]
TerArcs(c, k) == {[at |-> -l, pair |-> c \ {l}, learnt |-> k] : l \in c}
AddTer(g, x, y, z, k) ==
  IF HasTer(g, -x, {y, z}) THEN g
  ELSE [g EXCEPT !.t = @ \cup TerArcs({x, y, z}, k), !.nt[k] = @ + 1]

(* add: with simplification on, a clause whose first two literals are a    *)
(* stored clause is dropped.                                               *)
GraphAdd(g, c, k) ==
  IF SimpAll /\ HasBin(g, -c[1], c[2]) THEN g
  ELSE IF Len(c) = 2 THEN AddBin(g, c[1], c[2], k)
  ELSE AddTer(g, c[1], c[2], c[3], k)

(* remove: all arcs of the clause, whatever their flag; the count of the   *)
(* given kind.                                                             *)
GraphRemove(g, c, k) ==
  LET bs == {a \in g.b : {-a.at, a.to} = c}
      ts == {a \in g.t : {-a.at} \cup a.pair = c}
  IN  IF Cardinality(c) = 2
      THEN IF bs = {} THEN g ELSE [g EXCEPT !.b = @ \ bs, !.nb[k] = Less(@)]
      ELSE IF ts = {} THEN g ELSE [g EXCEPT !.t = @ \ ts, !.nt[k] = Less(@)]

\* Slip: the reverse arc of a satisfied binary clause stays behind.
DropBinaryOneSided(g, l, a) == [g EXCEPT !.nb[a.learnt] = Less(@)]

DropBinary(g, l, a) ==
  [g EXCEPT !.b = {x \in @ : ~(x.at = -a.to /\ x.to = l)}, !.nb[a.learnt] = Less(@)]

(* remove_ternary_arc: the first arc naming l at each of the other two     *)
(* literals; a clause shortened by a false l comes back as a binary one.   *)
WithoutTernary(g, l, a) ==
  LET naming(p) == {x \in g.t : x.at = -p /\ l \in x.pair}
      gone == {CHOOSE x \in naming(p) : TRUE : p \in {q \in a.pair : naming(q) # {}}}
  IN  [g EXCEPT !.t = @ \ gone, !.nt[a.learnt] = Less(@)]

\* Slip: the rest of a shortened clause is lost.
DropTernaryLost(g, l, a, S) == WithoutTernary(g, l, a)

DropTernary(g, l, a, S) ==
  LET rest == WithoutTernary(g, l, a)
  IN  IF -l \in S /\ \A p \in a.pair : Unassigned(S, p)
      THEN GraphAdd(rest, SetToSeq(a.pair), a.learnt) ELSE rest

(* remove_true: the clauses with l are satisfied, those with -l shorter.   *)
RemoveTrue(g, l, S) ==
  LET bins == {a \in g.b : a.at = -l}
      sats == {a \in g.t : a.at = -l}
      conds == {a \in g.t : a.at = l}
      g1 == FoldSet(LAMBDA a, h : DropBinary(h, l, a), g, bins)
      g2 == FoldSet(LAMBDA a, h : DropTernary(h, l, a, S), g1, sats)
      g3 == FoldSet(LAMBDA a, h : DropTernary(h, -l, a, S), g2, conds)
  IN  [g3 EXCEPT !.b = {x \in @ : x.at \notin {l, -l}}, !.t = {x \in @ : x.at \notin {l, -l}}]

(* Unit propagation over the graph, for a queue starting with S.           *)
Consequences(g, S) ==
  LET Forces(U) == {a.to : a \in {x \in g.b : x.at \in U}}
                   \cup {l \in GLit : \E a \in g.t : a.at \in U /\ l \in a.pair
                                        /\ \A m \in a.pair \ {l} : -m \in U}
      C[n \in 0..2 * GraphVars] == IF n = 0 THEN S ELSE C[n - 1] \cup Forces(C[n - 1])
  IN  C[2 * GraphVars]
Consistent(S) == \A l \in S : -l \notin S

(***************************************************************************)
(* The calls.                                                              *)
(***************************************************************************)
Worlds == {A \in SUBSET GLit : \A v \in 1..GraphVars : (v \in A) # (-v \in A)}
Satisfies(A, clauses) == \A c \in clauses : c \cap A # {}
Quiet == ~probe.on /\ probe.ok
More == gadds < GraphAdds

Shorts == {c \in [1..2 -> GLit] \cup [1..3 -> GLit] :
             /\ \A i, j \in DOMAIN c : i # j => c[i] \notin {c[j], -c[j]}
             /\ \A i, j \in 2..Len(c) : i < j => c[i] < c[j]}
LitsOf(c) == {c[i] : i \in DOMAIN c}

(* A clause reaches the graph without the top-level literals; a learnt one *)
(* follows from the problem.                                               *)
AddShort ==
  /\ Quiet /\ More
  /\ \E c \in Shorts, learnt \in BOOLEAN :
       /\ \A i \in DOMAIN c : Unassigned(Known, c[i])
       /\ learnt => \A A \in Worlds : Satisfies(A, given) => LitsOf(c) \cap A # {}
       /\ graph' = GraphAdd(graph, c, learnt)
       /\ given' = IF learnt THEN given ELSE given \cup {LitsOf(c)}
  /\ gadds' = gadds + 1
  /\ UNCHANGED <<facts, probe, dropped>>

(* A fact arrives, is propagated, and Solver::simplify drops the clauses   *)
(* of every top-level literal, old and new.                                *)
FactAndSimplify ==
  /\ Quiet /\ More
  /\ \E l \in GLit :
       /\ Unassigned(Known, l)
       /\ LET all == Consequences(graph, Known \cup {l}) IN
          /\ Consistent(all)
          /\ facts' = facts \o <<l>> \o SetToSeq(all \ (Known \cup {l}))
          /\ graph' = FoldLeft(LAMBDA g, x : RemoveTrue(g, x, all), graph, facts')
       /\ given' = given \cup {{l}}
  /\ gadds' = gadds + 1
  /\ UNCHANGED <<probe, dropped>>

(***************************************************************************)
(* preprocess_short: each unmarked literal is assumed, the short clauses   *)
(* propagated, ternary clauses that turn out subsumed or strengthened are  *)
(* noted and rewritten if no conflict came up; the implied literals are    *)
(* marked and not probed themselves. A failed literal becomes a fact.      *)
(***************************************************************************)
(* The last variable is not probed: the loop ends before num_vars.         *)
Order == [i \in 1..2 * (GraphVars - 1) |-> IF i % 2 = 1 THEN (i + 1) \div 2 ELSE -(i \div 2)]

PreprocessShort ==
  /\ Probing /\ Quiet
  /\ probe' = [NoProbe EXCEPT !.on = TRUE, !.left = Order]
  /\ UNCHANGED <<graph, facts, given, gadds, dropped>>

Trail(p) == {p.trail[i] : i \in DOMAIN p.trail} \cup Known
Probed(p) == p.trail = <<>>
ArcsAt(l) == {a \in graph.b \cup graph.t : a.at = l}

(* The next literal to assume; the second one of a failed variable and     *)
(* assigned or marked literals are passed over.                            *)
AssumeProbe ==
  /\ probe.on /\ Probed(probe) /\ probe.left # <<>>
  /\ LET l == Head(probe.left) IN
     probe' = IF l \in probe.marks \/ ~Unassigned(Known, l) THEN [probe EXCEPT !.left = Tail(@)]
              ELSE [probe EXCEPT !.left = Tail(@), !.trail = <<l>>, !.front = 1,
                                 !.todo = ArcsAt(l), !.by = <<{}>>, !.rewrites = <<>>]
  /\ UNCHANGED <<graph, facts, given, gadds, dropped>>

(* Antecedent of l: the literals it was propagated from.                   *)
By(p, l) ==
  LET at == {i \in DOMAIN p.trail : p.trail[i] \in {l, -l}} IN
  IF at = {} THEN {} ELSE p.by[CHOOSE i \in at : TRUE]
Imply(p, l, from) ==
  IF l \in Trail(p) THEN p
  ELSE IF -l \in Trail(p) THEN [p EXCEPT !.ok = FALSE]
  ELSE [p EXCEPT !.trail = Append(@, l), !.by = Append(@, from)]
Rewrite(p, kind, a, l) ==
  [p EXCEPT !.rewrites = Append(@,
     [kind |-> kind, clause |-> {-a.at} \cup a.pair, lit |-> l, learnt |-> a.learnt,
      unsound |-> kind = "drop" /\ \A m \in a.pair : By(p, m) = {a.at} => -m \in Trail(p)])]

Strengthens(p, f, a) == By(p, f) = {a.at}

(* One arc of the literal at the front: binary ones first.                 *)
VisitBinary(a) == Imply(probe, a.to, {a.at})
VisitTernary(a) ==
  LET S == Trail(probe)
      subsumed == \E l \in a.pair : By(probe, l) = {a.at}
      false == {l \in a.pair : -l \in S}
  IN  IF a.pair \cap S # {}
      THEN IF subsumed THEN Rewrite(probe, "drop", a, 0) ELSE probe
      ELSE IF false = {} THEN probe
      ELSE IF false = a.pair THEN [probe EXCEPT !.ok = FALSE]
      ELSE LET f == CHOOSE l \in false : TRUE
               o == CHOOSE l \in a.pair : l # f
               p == IF Strengthens(probe, f, a) THEN Rewrite(probe, "shorten", a, f) ELSE probe
           IN  Imply(p, o, {a.at, -f})
VisitArc ==
  /\ probe.on /\ probe.ok /\ probe.todo # {}
  /\ \E a \in probe.todo :
       /\ a \in graph.t => probe.todo \cap graph.b = {}
       /\ LET p == IF a \in graph.b THEN VisitBinary(a) ELSE VisitTernary(a)
          IN  probe' = [p EXCEPT !.todo = @ \ {a}]
  /\ UNCHANGED <<graph, facts, given, gadds, dropped>>

NextProbed ==
  /\ probe.on /\ probe.ok /\ probe.todo = {} /\ probe.front < Len(probe.trail)
  /\ probe' = [probe EXCEPT !.front = @ + 1, !.todo = ArcsAt(probe.trail[probe.front + 1])]
  /\ UNCHANGED <<graph, facts, given, gadds, dropped>>

Rewritten(g, r) ==
  LET g1 == GraphRemove(g, r.clause, r.learnt)
  IN  IF r.kind = "drop" THEN g1 ELSE GraphAdd(g1, SetToSeq(r.clause \ {r.lit}), r.learnt)

EndProbe ==
  /\ probe.on /\ probe.ok /\ ~Probed(probe) /\ probe.todo = {} /\ probe.front = Len(probe.trail)
  /\ graph' = FoldLeft(Rewritten, graph, probe.rewrites)
  /\ dropped' = (dropped \/ \E i \in DOMAIN probe.rewrites : probe.rewrites[i].unsound)
  /\ probe' = [probe EXCEPT !.trail = <<>>, !.by = <<>>, !.rewrites = <<>>,
                            !.marks = @ \cup {probe.trail[i] : i \in 2..Len(probe.trail)}]
  /\ UNCHANGED <<facts, given, gadds>>

(* A failed literal: its complement is forced and propagated, the other    *)
(* literal of the variable is not probed.                                  *)
FailProbe ==
  /\ probe.on /\ ~probe.ok
  /\ LET l == -probe.trail[1]
         all == Consequences(graph, Known \cup {l})
     IN  /\ facts' = facts \o <<l>> \o SetToSeq(all \ (Known \cup {l}))
         /\ probe' = [probe EXCEPT !.trail = <<>>, !.by = <<>>, !.rewrites = <<>>, !.todo = {},
                                   !.marks = @ \cup {probe.trail[i] : i \in 2..Len(probe.trail)},
                                   !.left = SelectSeq(@, LAMBDA x : x # l),
                                   !.ok = Consistent(all), !.on = Consistent(all)]
  /\ UNCHANGED <<graph, given, gadds, dropped>>

(* The marks are cleared and the master simplified.                        *)
EndPreprocess ==
  /\ probe.on /\ probe.ok /\ Probed(probe) /\ probe.left = <<>>
  /\ graph' = FoldLeft(LAMBDA g, x : RemoveTrue(g, x, Known), graph, facts)
  /\ probe' = NoProbe
  /\ UNCHANGED <<facts, given, gadds, dropped>>

GraphNext ==
  \/ AddShort \/ FactAndSimplify
  \/ PreprocessShort \/ AssumeProbe \/ VisitArc \/ NextProbed \/ EndProbe \/ FailProbe
  \/ EndPreprocess

(***************************************************************************)
(* Properties.                                                             *)
(***************************************************************************)
BinStored(k) == {{-a.at, a.to} : a \in {x \in graph.b : x.learnt = k /\ HasBin(graph, -x.to, -x.at)}}
TerStored(k) == {{-a.at} \cup a.pair : a \in {x \in graph.t : x.learnt = k}}
Holds(A) == /\ Known \subseteq A
            /\ \A a \in graph.b : a.at \in A => a.to \in A
            /\ \A a \in graph.t : a.at \in A => a.pair \cap A # {}

(* The arcs of ShortImplicationsGraph are symmetric wherever propagation   *)
(* can still read them, an arc left alone sits at a false literal only, a  *)
(* ternary clause has all three arcs or none, and the counts kept by hand  *)
(* by add, remove, remove_true and the rewriting are those of the clauses. *)
GraphExact ==
  /\ \A a \in graph.b : HasBin(graph, -a.to, -a.at) \/ -a.at \in Known
  /\ \A a \in graph.t : TerArcs({-a.at} \cup a.pair, a.learnt) \subseteq graph.t
  /\ \A k \in BOOLEAN : /\ graph.nb[k] = Cardinality(BinStored(k))
                        /\ graph.nt[k] = Cardinality(TerStored(k))

ModelsKept == {A \in Worlds : Satisfies(A, given)} = {A \in Worlds : Holds(A)}

(* Dropping satisfied clauses, shortening and subsuming never changes what *)
(* the short clauses say: with the facts they have the models of all the   *)
(* clauses given. preprocess_short breaks it in one way, remembered in     *)
(* dropped, that TernaryStrengthened is about.                             *)
MeaningKept == probe.ok /\ ~dropped => ModelsKept

(* A ternary clause of which the premise refutes one literal is replaced   *)
(* by the binary rest, never lost: preprocess_short strengthens ternary    *)
(* implications.                                                           *)
TernaryStrengthened == probe.ok => ModelsKept
==============================================================================

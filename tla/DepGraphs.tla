----------------------------- MODULE DepGraphs -----------------------------
(***************************************************************************)
(* The graphs behind dependency checks: the search for strongly connected  *)
(* components (potassco/graph.rs), and the external graph with its sorted  *)
(* arc lists that is updated between steps (clasp/dependency_graph.rs).    *)
(***************************************************************************)
EXTENDS Integers, Sequences, FiniteSets, FiniteSetsExt, SequencesExt

CONSTANTS GrNodes,  \* nodes of the graphs, numbered from 0
          GrEdges,  \* bound on the edges
          GrCalls   \* bound on the calls of compute_sccs and of finalize

VARIABLES tarjan,  \* Graph: edges, the marks of its nodes, the stacks and the result
          ext,     \* ExtDepGraph: arcs, inverse arcs, node offsets, counters
          extHist  \* the edges added, what each node listed when a check relied on it
 
GrNodeSet == 0..(GrNodes - 1)

-----------------------------------------------------------------------------
(* Graph::compute_sccs: one search over all nodes, its two stacks kept in  *)
(* the open. A node's mark is `open` before it is visited, then the lowest *)
(* index it reaches, and `closed` when its component is found; the next    *)
(* call uses the two marks the other way round.                            *)

SccInit ==
  tarjan = [edges |-> [n \in GrNodeSet |-> <<>>], min |-> [n \in GrNodeSet |-> 0],
            off |-> [n \in GrNodeSet |-> 0], open |-> 0, stack |-> <<>>, trail |-> <<>>,
            index |-> 1, at |-> 0, sccs |-> <<>>, running |-> FALSE, calls |-> 0]

EdgeSet == {<<n, m>> \in GrNodeSet \X GrNodeSet : m \in ToSet(tarjan.edges[n])}
Closed == IF tarjan.open = 0 THEN 1 ELSE 0

AddGraphEdge ==
  /\ ~tarjan.running /\ Cardinality(EdgeSet) < GrEdges
  /\ \E n, m \in GrNodeSet :
       /\ <<n, m>> \notin EdgeSet
       /\ tarjan' = [tarjan EXCEPT !.edges[n] = Append(@, m), !.sccs = <<>>]

ComputeSccs ==
  /\ ~tarjan.running /\ tarjan.calls < GrCalls
  /\ tarjan' = [tarjan EXCEPT !.running = TRUE, !.at = 0, !.sccs = <<>>, !.calls = @ + 1]

\* push_node
PushNode(g, n) ==
  [g EXCEPT !.index = @ + 1, !.min[n] = g.index + 1, !.off[n] = 0,
            !.stack = Append(@, n), !.trail = Append(@, n)]

NextRoot ==
  /\ tarjan.running /\ tarjan.stack = <<>>
  /\ tarjan' = IF tarjan.at >= GrNodes THEN [tarjan EXCEPT !.running = FALSE, !.open = Closed]
               ELSE IF tarjan.min[tarjan.at] # tarjan.open THEN [tarjan EXCEPT !.at = @ + 1]
               ELSE PushNode([tarjan EXCEPT !.index = 1, !.at = @ + 1], tarjan.at)

Top == Last(tarjan.stack)
Edge == tarjan.edges[Top][tarjan.off[Top] + 1]

FollowEdge ==
  /\ tarjan.running /\ tarjan.stack # <<>>
  /\ tarjan.off[Top] < Len(tarjan.edges[Top])
  /\ LET seen == [tarjan EXCEPT !.off[Top] = @ + 1]
     IN tarjan' = IF tarjan.min[Edge] = tarjan.open THEN PushNode(seen, Edge) ELSE seen

\* a node is done: it is the root of a component unless an edge reaches below
LowestAnyMark(n) ==
  Min({tarjan.min[n]} \union {tarjan.min[m] : m \in ToSet(tarjan.edges[n])})
Lowest(n) ==
  Min({tarjan.min[n]} \union ({tarjan.min[m] : m \in ToSet(tarjan.edges[n])} \ {Closed}))
Component(n) ==
  SubSeq(tarjan.trail, CHOOSE i \in DOMAIN tarjan.trail : tarjan.trail[i] = n, Len(tarjan.trail))

FinishNode ==
  /\ tarjan.running /\ tarjan.stack # <<>>
  /\ tarjan.off[Top] >= Len(tarjan.edges[Top])
  /\ LET low == Lowest(Top)
         scc == Component(Top)
         popped == [tarjan EXCEPT !.stack = SubSeq(@, 1, Len(@) - 1)]
     IN tarjan' = IF low # tarjan.min[Top] THEN [popped EXCEPT !.min[Top] = low]
                  ELSE [popped EXCEPT
                         !.min = [n \in GrNodeSet |-> IF n \in ToSet(scc) THEN Closed ELSE @[n]],
                         !.trail = SubSeq(@, 1, Len(@) - Len(scc)),
                         !.sccs = Append(@, ToSet(scc))]

SccNext == AddGraphEdge \/ ComputeSccs \/ NextRoot \/ FollowEdge \/ FinishNode

-----------------------------------------------------------------------------
(* ExtDepGraph. An arc is <<literal, tail, head>>; after finalize a        *)
(* sentinel at the end marks the graph as frozen.                          *)

Sentinel == <<0, -1, -1>>
NoOffset == -1
ExtInit ==
  /\ ext = [fwd |-> <<>>, inv |-> <<>>, nodes |-> <<>>, maxNode |-> 0, committed |-> 0, gen |-> 0]
  /\ extHist = [edges |-> {}, listed |-> <<>>, gen |-> 0, calls |-> 0]

Frozen == ext.fwd # <<>> /\ Last(ext.fwd) = Sentinel
LargerNode(a, b) == IF a > b THEN a ELSE b
LesserNode(a, b) == IF a < b THEN a ELSE b

\* an arc at a node of the last finalized graph starts a new generation
TouchedByBoth(n, m) == ext.committed # 0 /\ LargerNode(n, m) < Len(ext.nodes)
Touched(n, m) == ext.committed # 0 /\ LesserNode(n, m) < Len(ext.nodes)

AddExtEdge ==
  /\ ~Frozen /\ Cardinality(extHist.edges) < GrEdges
  /\ \E n, m \in GrNodeSet :
       LET lit == Cardinality(extHist.edges) + 1
       IN /\ ext' = [ext EXCEPT
                       !.fwd = Append(@, <<lit, n, m>>),
                       !.maxNode = LargerNode(@, LargerNode(n, m) + 1),
                       !.inv = IF Touched(n, m) THEN <<>> ELSE @,
                       !.committed = IF Touched(n, m) THEN 0 ELSE @,
                       !.gen = IF Touched(n, m) THEN @ + 1 ELSE @]
          /\ extHist' = [extHist EXCEPT !.edges = @ \union {<<lit, n, m>>}]

\* update: only a frozen graph takes back its sentinel
UpdateExt ==
  /\ Frozen
  /\ ext' = [ext EXCEPT !.fwd = SubSeq(@, 1, Len(@) - 1)]
  /\ UNCHANGED extHist

\* finalize: the arcs sorted by head give the inverse arcs, each marked while
\* more of the same head follow; sorted by tail they are the forward arcs.
\* Arcs with the same ends stay in any order.
FirstWith(arcs, x, n) ==
  LET at == {i \in DOMAIN arcs : arcs[i][x] = n} IN IF at = {} THEN NoOffset ELSE Min(at)
Before(x, a, b) == a[x] < b[x] \/ (a[x] = b[x] /\ a[5 - x] < b[5 - x])
SortedBy(x, arcs) == SortSeq(arcs, LAMBDA a, b : Before(x, a, b))

FinalizeExt ==
  /\ ~Frozen /\ extHist.calls < GrCalls
  /\ LET byHead == SortedBy(3, ext.fwd)
         byTail == SortedBy(2, ext.fwd)
         more(i) == i < Len(byHead) /\ byHead[i + 1][3] = byHead[i][3]
     IN ext' = [ext EXCEPT
                  !.inv = [i \in DOMAIN byHead |-> <<byHead[i][1], byHead[i][2], more(i)>>],
                  !.nodes = [k \in 1..ext.maxNode |-> [fwd |-> FirstWith(byTail, 2, k - 1),
                                                      inv |-> FirstWith(byHead, 3, k - 1)]],
                  !.committed = Len(ext.fwd),
                  !.fwd = Append(byTail, Sentinel)]
  /\ extHist' = [extHist EXCEPT !.calls = @ + 1]

\* fwd_arcs_from and inv_arcs_to
RECURSIVE FwdFrom(_, _), InvFrom(_)
FwdFrom(i, n) == IF i <= ext.committed /\ ext.fwd[i][2] = n THEN {ext.fwd[i]} \union FwdFrom(i + 1, n)
                 ELSE {}
InvFrom(i) == {ext.inv[i]} \union (IF ext.inv[i][3] THEN InvFrom(i + 1) ELSE {})
FwdArcs(n) == IF n >= Len(ext.nodes) \/ ext.nodes[n + 1].fwd = NoOffset THEN {}
              ELSE FwdFrom(ext.nodes[n + 1].fwd, n)
InvArcs(n) == IF n >= Len(ext.nodes) \/ ext.nodes[n + 1].inv = NoOffset THEN {}
              ELSE InvFrom(ext.nodes[n + 1].inv)

\* a check that was built on the finalized graph and goes on from its arcs
Rely ==
  /\ Frozen
  /\ extHist' = [extHist EXCEPT !.listed = [k \in DOMAIN ext.nodes |-> FwdArcs(k - 1)], !.gen = ext.gen]
  /\ UNCHANGED ext

ExtNext == AddExtEdge \/ UpdateExt \/ FinalizeExt \/ Rely

-----------------------------------------------------------------------------
(* When the search ends it has found each strongly connected component     *)
(* once, and each after those it has edges into: also when the graph grew  *)
(* since the last call and the meaning of the marks was swapped.           *)
RECURSIVE ReachIn(_, _)
ReachIn(from, k) ==
  IF k = 0 THEN from
  ELSE ReachIn(from \union {e[2] : e \in {d \in EdgeSet : d[1] \in from}}, k - 1)
ReachFrom(n) == ReachIn({n}, GrNodes)

SccsExact ==
  LET sccs == tarjan.sccs
  IN (~tarjan.running /\ sccs # <<>>) =>
       /\ ToSet(sccs) = {{m \in GrNodeSet : m \in ReachFrom(n) /\ n \in ReachFrom(m)} : n \in GrNodeSet}
       /\ \A i, j \in DOMAIN sccs : i < j => sccs[i] \cap sccs[j] = {} /\ (sccs[i] \X sccs[j]) \cap EdgeSet = {}

(* Frozen, the graph lists at every node exactly the arcs that start and   *)
(* end there; and a check that relied on the arcs of a node finds them     *)
(* unchanged unless the generation has moved on.                           *)
ArcsExact ==
  Frozen =>
    \A n \in GrNodeSet :
      /\ FwdArcs(n) = {e \in extHist.edges : e[2] = n}
      /\ {<<a[1], a[2]>> : a \in InvArcs(n)} = {<<e[1], e[2]>> : e \in {d \in extHist.edges : d[3] = n}}
      /\ (ext.gen = extHist.gen /\ n < Len(extHist.listed)) => FwdArcs(n) = extHist.listed[n + 1]
=============================================================================

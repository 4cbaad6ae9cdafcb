------------------------------- MODULE PeerSets -------------------------------
(***************************************************************************)
(* Which solvers a solver takes clauses from when several search together: *)
(* ParallelSolveOptions::init_peer_set and set_solvers                     *)
(* (clasp/mt/parallel_solve.rs). Solvers are numbered from 0, a set of     *)
(* them is a word of 64 bits in the code and a set here.                   *)
(***************************************************************************)
EXTENDS Integers, FiniteSets, Bitwise

CONSTANT MaxThreads   \* supported_solvers, 64 in the code

VARIABLE par   \* the options: threads, topology, and the peers of every solver

Topologies == {"all", "ring", "cube", "cubex"}

FullPeers(id, n) == 0..n - 1 \ {id}

RingPeers(id, n) == {(IF id > 0 THEN id ELSE n) - 1, (id + 1) % n}

BitFloor(n) == CHOOSE k \in {2^i : i \in 0..6} : k <= n /\ n < 2 * k

\* A cube has a power of two for its number of corners. In the extended one a
\* solver also stands in for a corner above it that nobody has: it is the peer
\* of that corner's neighbours and of those that stand in for them.
CubeExtends(topology, n) == topology = "cubex" /\ BitFloor(n) # n
StandsFor(id, n) ==
  LET k == BitFloor(n) IN IF k ^^ id >= n THEN k ^^ id ELSE 2 * k

\* the stand-ins of the neighbours that nobody is
StandInsBeside(id, n, ext) == {m ^^ id : m \in {x \in ext : x ^^ id >= n}}
StandIns(id, n, ext) == {(m ^^ id) ^^ BitFloor(n) : m \in {x \in ext : x ^^ id >= n}}

CubePeers(id, topology, n) ==
  LET k == BitFloor(n)
      masks == {m \in {2^i : i \in 0..6} : m <= k}
      ext == IF CubeExtends(topology, n) THEN {m \in masks : m < k} ELSE {}
  IN {p \in {m ^^ id : m \in masks} : p < n}
     \cup {p \in {m ^^ StandsFor(id, n) : m \in ext} : p < n}
     \cup StandIns(id, n, ext)

Peers(id, topology, n) ==
  CASE topology = "all" -> FullPeers(id, n)
    [] topology = "ring" -> RingPeers(id, n)
    [] OTHER -> CubePeers(id, topology, n)

PeersOf(topology, n) == [id \in 0..n - 1 |-> Peers(id, topology, n)]

ParInit == par = [threads |-> 1, topology |-> "all", peers |-> PeersOf("all", 1)]

SetSolvers(n) ==
  LET threads == IF n > 0 THEN n ELSE 1
  IN par' = [par EXCEPT !.threads = threads, !.peers = PeersOf(par.topology, threads)]
SetTopology(t) == par' = [par EXCEPT !.topology = t, !.peers = PeersOf(t, par.threads)]

ParNext ==
  \/ \E n \in 0..MaxThreads : SetSolvers(n)
  \/ \E t \in Topologies : SetTopology(t)

-----------------------------------------------------------------------------
RECURSIVE Reached(_)
Reached(s) ==
  LET more == s \cup UNION {par.peers[id] : id \in s}
  IN IF more = s THEN s ELSE Reached(more)

(* A solver has only solvers that exist for peers, never itself (but for a *)
(* ring of one), and takes clauses from whom takes its clauses; whichever  *)
(* topology and number of solvers, no two of them are without a way over   *)
(* peers from one to the other.                                            *)
PeersConnected ==
  /\ \A id \in DOMAIN par.peers :
       /\ par.peers[id] \subseteq DOMAIN par.peers
       /\ id \in par.peers[id] => par.topology = "ring" /\ par.threads = 1
       /\ \A p \in par.peers[id] : id \in par.peers[p]
  /\ Reached({0}) = DOMAIN par.peers
=============================================================================

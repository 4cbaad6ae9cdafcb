------------------------------ MODULE MpScQueue ------------------------------
(***************************************************************************)
(* MpScPtrQueue of clasp/util/multi_queue.rs: any number of producers push *)
(* nodes with a payload, one consumer pops them. A step is one access to   *)
(* the memory that threads share; the payload of a node is written by its  *)
(* producer before the push and by the consumer after it has moved the     *)
(* tail, so these writes are part of the step beside them.                 *)
(*                                                                         *)
(* The list always holds one node more than messages: pop hands out the    *)
(* old tail with the payload of its successor, which stays as the new tail.*)
(* A node that was popped belongs to the consumer's side, which may use it *)
(* for another push, through whichever producer.                           *)
(***************************************************************************)
EXTENDS Integers, Sequences, FiniteSets

CONSTANTS Producers,  \* number of producers
          SpareNodes, \* nodes besides the sentinel, which is node 0
          PushBound   \* bound on the pushes

VARIABLES mpHead, mpTail,  \* the two ends
          mpNodes,         \* [next, data] of each node
          mpThr,           \* each producer: where it is, its node, what it swapped out, its pushes
          mpPop,           \* the consumer: where it is, the tail and the successor it has read
          mpFree,          \* nodes nobody uses
          mpOrder,         \* payloads in the order of the swaps
          mpGot            \* payloads in the order of the pops

mpVars == <<mpHead, mpTail, mpNodes, mpThr, mpPop, mpFree, mpOrder, mpGot>>

NoNode == -1
NoData == <<0, 0>>
Idle(sent) == [at |-> "idle", node |-> NoNode, prev |-> NoNode, sent |-> sent]

\* MpScPtrQueue::new
MpInit ==
  /\ mpHead = 0 /\ mpTail = 0
  /\ mpNodes = [n \in 0..SpareNodes |-> [next |-> NoNode, data |-> NoData]]
  /\ mpThr = [p \in 1..Producers |-> Idle(0)]
  /\ mpPop = [at |-> "idle", tail |-> NoNode, next |-> NoNode]
  /\ mpFree = 1..SpareNodes
  /\ mpOrder = <<>> /\ mpGot = <<>>

-----------------------------------------------------------------------------
(* push *)

Pushes == Len(mpOrder) + Cardinality({p \in DOMAIN mpThr : mpThr[p].at = "swap"})

\* a payload is told apart by its producer and the number of its push
Payload(p) == <<p, mpThr[p].sent>>
MpPush(p) ==
  /\ mpThr[p].at = "idle" /\ Pushes < PushBound
  /\ \E n \in mpFree :
       /\ mpThr' = [mpThr EXCEPT ![p] = [at |-> "swap", node |-> n, prev |-> NoNode,
                                         sent |-> mpThr[p].sent + 1]]
       /\ mpNodes' = [mpNodes EXCEPT ![n] = [next |-> NoNode, data |-> <<p, mpThr[p].sent + 1>>]]
       /\ mpFree' = mpFree \ {n}
  /\ UNCHANGED <<mpHead, mpTail, mpPop, mpOrder, mpGot>>

SwapHead(p) ==
  /\ mpThr[p].at = "swap"
  /\ mpThr' = [mpThr EXCEPT ![p] = [@ EXCEPT !.at = "link", !.prev = mpHead]]
  /\ mpHead' = mpThr[p].node
  /\ mpOrder' = Append(mpOrder, Payload(p))
  /\ UNCHANGED <<mpTail, mpNodes, mpPop, mpFree, mpGot>>

LinkPrevious(p) ==
  /\ mpThr[p].at = "link"
  /\ mpNodes' = [mpNodes EXCEPT ![mpThr[p].prev].next = mpThr[p].node]
  /\ mpThr' = [mpThr EXCEPT ![p] = Idle(mpThr[p].sent)]
  /\ UNCHANGED <<mpHead, mpTail, mpPop, mpFree, mpOrder, mpGot>>

-----------------------------------------------------------------------------
(* pop; empty() is its first two loads *)

LoadTail ==
  /\ mpPop.at = "idle"
  /\ mpPop' = [at |-> "next", tail |-> mpTail, next |-> NoNode]
  /\ UNCHANGED <<mpHead, mpTail, mpNodes, mpThr, mpFree, mpOrder, mpGot>>

LoadNext ==
  /\ mpPop.at = "next"
  /\ LET n == mpNodes[mpPop.tail].next
     IN mpPop' = IF n = NoNode THEN [at |-> "idle", tail |-> NoNode, next |-> NoNode]
                 ELSE [mpPop EXCEPT !.at = "store", !.next = n]
  /\ UNCHANGED <<mpHead, mpTail, mpNodes, mpThr, mpFree, mpOrder, mpGot>>

\* which node pop hands out
PoppedNext(tail, next) == next
Popped(tail, next) == tail

StoreTail ==
  /\ mpPop.at = "store"
  /\ mpTail' = mpPop.next
  /\ mpPop' = [mpPop EXCEPT !.at = "data"]
  /\ UNCHANGED <<mpHead, mpNodes, mpThr, mpFree, mpOrder, mpGot>>

TakeData ==
  /\ mpPop.at = "data"
  /\ mpNodes' = [mpNodes EXCEPT ![mpPop.tail].data = mpNodes[mpPop.next].data,
                                ![mpPop.next].data = NoData]
  /\ mpGot' = Append(mpGot, mpNodes'[mpPop.tail].data)
  /\ mpFree' = mpFree \cup {Popped(mpPop.tail, mpPop.next)}
  /\ mpPop' = [at |-> "idle", tail |-> NoNode, next |-> NoNode]
  /\ UNCHANGED <<mpHead, mpTail, mpThr, mpOrder>>

MpNext ==
  \/ \E p \in DOMAIN mpThr : MpPush(p) \/ SwapHead(p) \/ LinkPrevious(p)
  \/ LoadTail \/ LoadNext \/ StoreTail \/ TakeData

MpSpec == MpInit /\ [][MpNext]_mpVars

-----------------------------------------------------------------------------
(* Properties *)

\* the nodes that hang behind the tail: what every set has that holds the tail
\* and with a node its successor
ClosedUnderNext(S) == mpTail \in S /\ \A n \in S : mpNodes[n].next \in S \union {NoNode}
Chain == {n \in 0..SpareNodes : \A S \in SUBSET (0..SpareNodes) : ClosedUnderNext(S) => n \in S}
Pending == {p \in DOMAIN mpThr : mpThr[p].at = "link"}

\* Messages are popped once each, in the order in which their pushes swapped the
\* head; what is not popped hangs behind the tail. The consumer finds nothing
\* while messages are left only if the very push it waits for has swapped but
\* not linked its node yet - then also the pushes that completed behind it wait.
MpOrdered ==
  /\ mpGot = SubSeq(mpOrder, 1, Len(mpGot))
  /\ mpNodes[mpTail].next = NoNode /\ mpPop.at # "data" =>
       \/ mpGot = mpOrder
       \/ \E p \in Pending : mpThr[p].prev = mpTail /\ mpOrder[Len(mpGot) + 1] = Payload(p)

\* A node is never in two hands: it is free, in a push that has not published
\* it, with the consumer, or in the list.
MpOwned ==
  LET own == {mpThr[p].node : p \in {q \in DOMAIN mpThr : mpThr[q].at = "swap"}}
      popping == IF mpPop.at = "data" THEN {mpPop.tail} ELSE {}
  IN /\ mpFree \cap (own \cup popping \cup Chain \cup {mpHead}) = {}
     /\ (own \cup popping) \cap (Chain \cup {mpHead}) = {}
     /\ \A p \in Pending : mpThr[p].prev \notin mpFree \cup popping

\* The consumer gets every message in its turn, from nodes that nobody reuses
\* under it.
MpSafe == MpOrdered /\ MpOwned

\* The queue is a log in the order of the swaps that its one consumer reads: it
\* takes every message in turn, with the payload that was pushed. A message is
\* in the log before its node is linked.
Readers == {"consumer"}
Received == INSTANCE BroadcastLog WITH
  Consumers <- Readers, Messages <- (1..Producers) \X Nat, log <- mpOrder, closed <- FALSE,
  pos <- [c \in Readers |-> Len(mpGot)],
  held <- [c \in Readers |-> IF mpGot = <<>> THEN 0 ELSE mpGot[Len(mpGot)]]
DeliversInOrder == Received!Spec
=============================================================================

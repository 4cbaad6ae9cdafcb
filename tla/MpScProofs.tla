------------------------------ MODULE MpScProofs ------------------------------
(***************************************************************************)
(* What the queue with one consumer promises, for any number of producers, *)
(* nodes and pushes: MpOrdered, MpOwned and the refinement of              *)
(* BroadcastLog.                                                           *)
(*                                                                         *)
(* `at' gives the node of every message by the position of the message in  *)
(* mpOrder, and at position 0 the sentinel. The list runs from position    *)
(* Done, where the tail is, to Len(mpOrder), where the head is; while pop  *)
(* takes the payload the old tail, one position before, is still its own.  *)
(***************************************************************************)
EXTENDS MpScQueue, TLAPS

Nodes == 0..SpareNodes
Data == Nat \X Nat
Links == Nodes \union {NoNode}
Got == Len(mpGot)
Done == IF mpPop.at = "data" THEN Len(mpGot) + 1 ELSE Len(mpGot)
End == Len(mpOrder)
Swapping(p) == mpThr[p].at = "swap"
Linking(p) == mpThr[p].at = "link"

TypeOK ==
  /\ mpHead \in Nodes /\ mpTail \in Nodes
  /\ mpNodes \in [Nodes -> [next : Links, data : Data]]
  /\ mpThr \in [1..Producers -> [at : {"idle", "swap", "link"}, node : Links, prev : Links, sent : Nat]]
  /\ \A p \in 1..Producers : /\ mpThr[p].at # "idle" => mpThr[p].node \in Nodes
                             /\ mpThr[p].at = "link" => mpThr[p].prev \in Nodes
  /\ mpPop \in [at : {"idle", "next", "store", "data"}, tail : Links, next : Links]
  /\ mpPop.at # "idle" => mpPop.tail \in Nodes
  /\ mpPop.at \in {"store", "data"} => mpPop.next \in Nodes
  /\ mpFree \subseteq Nodes
  /\ mpOrder \in Seq((1..Producers) \X Nat) /\ mpGot \in Seq(Data)

(* The list has the tail in front and the head at the end, and holds no    *)
(* node twice.                                                             *)
Shape(at) ==
  /\ at \in [Nat -> Nodes]
  /\ Done <= End
  /\ mpTail = at[Done] /\ mpHead = at[End]
  /\ \A i, j \in Got..End : at[i] = at[j] => i = j

(* The push of the message at position j + 1 has yet to link its node.     *)
LinksTo(at, p, j) ==
  /\ Linking(p) /\ mpThr[p].prev = at[j] /\ mpThr[p].node = at[j + 1]
  /\ Payload(p) = mpOrder[j + 1]

(* Each node but the head points to the next one, or its successor's push  *)
(* will make it.                                                           *)
LinkInv(at) ==
  /\ mpNodes[at[End]].next = NoNode
  /\ \A j \in Got..End - 1 :
       \/ mpNodes[at[j]].next = at[j + 1]
       \/ /\ j >= Done /\ mpNodes[at[j]].next = NoNode
          /\ \E p \in 1..Producers : LinksTo(at, p, j)

(* A push that has swapped the head has its place in the list.             *)
PendInv(at) ==
  \A p \in 1..Producers : Linking(p) =>
    \E j \in Done..End - 1 : LinksTo(at, p, j) /\ mpNodes[at[j]].next = NoNode

(* What was not taken lies in its node, what was taken is a prefix.        *)
DataInv(at) ==
  /\ \A j \in Got + 1..End : mpNodes[at[j]].data = mpOrder[j]
  /\ \A j \in 1..Got : mpGot[j] = mpOrder[j]

(* A push owns its node until the swap.                                    *)
OwnInv(at) ==
  \A p \in 1..Producers : Swapping(p) =>
    /\ mpThr[p].node \in Nodes \ mpFree
    /\ \A j \in Got..End : at[j] # mpThr[p].node
    /\ mpNodes[mpThr[p].node] = [next |-> NoNode, data |-> Payload(p)]
    /\ \A q \in 1..Producers : Swapping(q) /\ q # p => mpThr[q].node # mpThr[p].node

FreeInv(at) == \A j \in Got..End : at[j] \notin mpFree

(* The consumer has read the tail and its successor.                       *)
PopInv(at) ==
  /\ mpPop.at \in {"next", "store"} => mpPop.tail = mpTail
  /\ mpPop.at = "store" =>
       Got < End /\ mpPop.next = at[Got + 1] /\ mpNodes[mpTail].next = mpPop.next
  /\ mpPop.at = "data" => mpPop.tail = at[Got] /\ mpPop.next = mpTail

ListInv(at) ==
  /\ Shape(at) /\ LinkInv(at) /\ PendInv(at) /\ DataInv(at)
  /\ OwnInv(at) /\ FreeInv(at) /\ PopInv(at)

MpInv == TypeOK /\ \E at : ListInv(at)

Sizes == SpareNodes \in Nat /\ Producers \in Nat

-----------------------------------------------------------------------------
(* Type correctness                                                        *)

LEMMA InitTyped == ASSUME Sizes, MpInit PROVE TypeOK
BY DEF Sizes, MpInit, TypeOK, Nodes, Links, Data, NoNode, NoData, Idle

(* A producer changes its own record only.                                 *)
LEMMA ThreadStep ==
  ASSUME TypeOK, NEW p \in 1..Producers, NEW r, mpThr' = [mpThr EXCEPT ![p] = r],
         r \in [at : {"idle", "swap", "link"}, node : Links, prev : Links, sent : Nat],
         r.at # "idle" => r.node \in Nodes, r.at = "link" => r.prev \in Nodes
  PROVE  /\ mpThr' \in [1..Producers -> [at : {"idle", "swap", "link"}, node : Links, prev : Links, sent : Nat]]
         /\ \A q \in 1..Producers : /\ mpThr'[q].at # "idle" => mpThr'[q].node \in Nodes
                                    /\ mpThr'[q].at = "link" => mpThr'[q].prev \in Nodes
         /\ mpThr'[p] = r /\ \A q \in 1..Producers \ {p} : mpThr'[q] = mpThr[q]
BY DEF TypeOK

(* The three steps of a producer, with the record that it has after them.  *)
LEMMA PushStep ==
  ASSUME TypeOK, NEW p \in 1..Producers, MpPush(p)
  PROVE  \E n \in mpFree :
           /\ mpThr'[p] = [at |-> "swap", node |-> n, prev |-> NoNode, sent |-> mpThr[p].sent + 1]
           /\ \A q \in 1..Producers \ {p} : mpThr'[q] = mpThr[q]
           /\ mpNodes' = [mpNodes EXCEPT ![n] = [next |-> NoNode, data |-> <<p, mpThr[p].sent + 1>>]]
           /\ mpFree' = mpFree \ {n} /\ mpThr[p].at = "idle"
           /\ UNCHANGED <<mpHead, mpTail, mpPop, mpOrder, mpGot>>
           /\ TypeOK'
<1>1. PICK n \in mpFree :
        /\ mpThr' = [mpThr EXCEPT ![p] = [at |-> "swap", node |-> n, prev |-> NoNode, sent |-> mpThr[p].sent + 1]]
        /\ mpNodes' = [mpNodes EXCEPT ![n] = [next |-> NoNode, data |-> <<p, mpThr[p].sent + 1>>]]
        /\ mpFree' = mpFree \ {n}
  BY DEF MpPush
<1>2. mpThr[p].sent \in Nat /\ n \in Nodes
  BY DEF TypeOK
<1>3. <<p, mpThr[p].sent + 1>> \in Data /\ NoNode \in Links /\ n \in Links
  BY <1>2 DEF Data, Links
<1>4. mpNodes' \in [Nodes -> [next : Links, data : Data]]
  BY <1>1, <1>2, <1>3 DEF TypeOK
<1>5. /\ mpThr' \in [1..Producers -> [at : {"idle", "swap", "link"}, node : Links, prev : Links, sent : Nat]]
      /\ \A q \in 1..Producers : /\ mpThr'[q].at # "idle" => mpThr'[q].node \in Nodes
                                 /\ mpThr'[q].at = "link" => mpThr'[q].prev \in Nodes
      /\ mpThr'[p] = [at |-> "swap", node |-> n, prev |-> NoNode, sent |-> mpThr[p].sent + 1]
      /\ \A q \in 1..Producers \ {p} : mpThr'[q] = mpThr[q]
  <2> DEFINE r == [at |-> "swap", node |-> n, prev |-> NoNode, sent |-> mpThr[p].sent + 1]
  <2>1. /\ r \in [at : {"idle", "swap", "link"}, node : Links, prev : Links, sent : Nat]
        /\ r.at # "idle" => r.node \in Nodes
        /\ r.at = "link" => r.prev \in Nodes
    BY <1>2, <1>3
  <2>2. mpThr' = [mpThr EXCEPT ![p] = r]
    BY <1>1
  <2> HIDE DEF r
  <2>3. /\ mpThr' \in [1..Producers -> [at : {"idle", "swap", "link"}, node : Links, prev : Links, sent : Nat]]
        /\ \A q \in 1..Producers : /\ mpThr'[q].at # "idle" => mpThr'[q].node \in Nodes
                                   /\ mpThr'[q].at = "link" => mpThr'[q].prev \in Nodes
        /\ mpThr'[p] = r /\ \A q \in 1..Producers \ {p} : mpThr'[q] = mpThr[q]
    BY <2>1, <2>2, ThreadStep
  <2> QED
    BY <2>3 DEF r
<1>6. TypeOK'
  BY <1>1, <1>4, <1>5 DEF TypeOK, MpPush
<1> QED
  BY <1>1, <1>5, <1>6 DEF MpPush

LEMMA SwapStep ==
  ASSUME TypeOK, NEW p \in 1..Producers, SwapHead(p)
  PROVE  /\ mpThr[p].at = "swap" /\ mpThr'[p].at = "link" /\ mpThr[p].node \in Nodes
         /\ mpThr'[p].node = mpThr[p].node /\ mpThr'[p].prev = mpHead /\ mpThr'[p].sent = mpThr[p].sent
         /\ \A q \in 1..Producers \ {p} : mpThr'[q] = mpThr[q]
         /\ mpHead' = mpThr[p].node /\ mpOrder' = Append(mpOrder, Payload(p))
         /\ Payload(p) \in (1..Producers) \X Nat
         /\ UNCHANGED <<mpTail, mpNodes, mpPop, mpFree, mpGot>>
         /\ TypeOK'
<1> DEFINE r == [mpThr[p] EXCEPT !.at = "link", !.prev = mpHead]
<1>1. mpThr[p] \in [at : {"idle", "swap", "link"}, node : Links, prev : Links, sent : Nat] /\ mpThr[p].node \in Nodes
  BY DEF TypeOK, SwapHead
<1>2. mpThr' = [mpThr EXCEPT ![p] = r]
  BY DEF SwapHead
<1>3. /\ r \in [at : {"idle", "swap", "link"}, node : Links, prev : Links, sent : Nat]
      /\ r.at = "link" /\ r.node = mpThr[p].node /\ r.prev = mpHead /\ r.sent = mpThr[p].sent
  BY <1>1 DEF TypeOK, Links
<1>4. /\ mpThr' \in [1..Producers -> [at : {"idle", "swap", "link"}, node : Links, prev : Links, sent : Nat]]
      /\ \A q \in 1..Producers : /\ mpThr'[q].at # "idle" => mpThr'[q].node \in Nodes
                                 /\ mpThr'[q].at = "link" => mpThr'[q].prev \in Nodes
      /\ mpThr'[p] = r /\ \A q \in 1..Producers \ {p} : mpThr'[q] = mpThr[q]
  <2> HIDE DEF r
  <2>1. r.node \in Nodes /\ r.prev \in Nodes
    BY <1>1, <1>3 DEF TypeOK
  <2> QED
    BY <1>2, <1>3, <2>1, ThreadStep
<1>5. Payload(p) \in (1..Producers) \X Nat
  BY <1>1 DEF Payload
<1>6. TypeOK'
  BY <1>1, <1>4, <1>5 DEF TypeOK, SwapHead
<1> QED
  BY <1>1, <1>3, <1>4, <1>5, <1>6 DEF SwapHead

LEMMA LinkStep ==
  ASSUME TypeOK, NEW p \in 1..Producers, LinkPrevious(p)
  PROVE  /\ mpThr[p].at = "link" /\ mpThr'[p].at = "idle"
         /\ \A q \in 1..Producers \ {p} : mpThr'[q] = mpThr[q]
         /\ mpThr[p].prev \in Nodes /\ mpThr[p].node \in Nodes
         /\ mpNodes'[mpThr[p].prev].next = mpThr[p].node
         /\ \A m \in Nodes \ {mpThr[p].prev} : mpNodes'[m] = mpNodes[m]
         /\ \A m \in Nodes : mpNodes'[m].data = mpNodes[m].data
         /\ UNCHANGED <<mpHead, mpTail, mpPop, mpFree, mpOrder, mpGot>>
         /\ TypeOK'
<1>1. /\ mpThr[p] \in [at : {"idle", "swap", "link"}, node : Links, prev : Links, sent : Nat]
      /\ mpThr[p].node \in Nodes /\ mpThr[p].prev \in Nodes /\ mpThr[p].node \in Links
  BY DEF TypeOK, LinkPrevious, Links
<1>2. mpThr' = [mpThr EXCEPT ![p] = Idle(mpThr[p].sent)]
  BY DEF LinkPrevious
<1>3. /\ Idle(mpThr[p].sent) \in [at : {"idle", "swap", "link"}, node : Links, prev : Links, sent : Nat]
      /\ Idle(mpThr[p].sent).at = "idle"
  BY <1>1 DEF Idle, Links
<1>4. /\ mpThr' \in [1..Producers -> [at : {"idle", "swap", "link"}, node : Links, prev : Links, sent : Nat]]
      /\ \A q \in 1..Producers : /\ mpThr'[q].at # "idle" => mpThr'[q].node \in Nodes
                                 /\ mpThr'[q].at = "link" => mpThr'[q].prev \in Nodes
      /\ mpThr'[p] = Idle(mpThr[p].sent) /\ \A q \in 1..Producers \ {p} : mpThr'[q] = mpThr[q]
  BY <1>2, <1>3, ThreadStep
<1>5. /\ mpNodes' \in [Nodes -> [next : Links, data : Data]]
      /\ mpNodes'[mpThr[p].prev].next = mpThr[p].node
      /\ \A m \in Nodes \ {mpThr[p].prev} : mpNodes'[m] = mpNodes[m]
      /\ \A m \in Nodes : mpNodes'[m].data = mpNodes[m].data
  BY <1>1 DEF LinkPrevious, TypeOK
<1>6. TypeOK'
  BY <1>4, <1>5 DEF TypeOK, LinkPrevious
<1> QED
  BY <1>1, <1>3, <1>4, <1>5, <1>6 DEF LinkPrevious

(* The consumer's steps keep the types.                                    *)
LEMMA PopTyped ==
  ASSUME TypeOK, LoadTail \/ LoadNext \/ StoreTail PROVE TypeOK'
<1>1. CASE LoadTail
  BY <1>1 DEF LoadTail, TypeOK, Links
<1>2. CASE LoadNext
  <2>1. mpPop.tail \in Nodes /\ mpNodes[mpPop.tail].next \in Links
    BY <1>2 DEF LoadNext, TypeOK
  <2> QED
    BY <1>2, <2>1 DEF LoadNext, TypeOK, Links
<1>3. CASE StoreTail
  BY <1>3 DEF StoreTail, TypeOK
<1> QED
  BY <1>1, <1>2, <1>3

LEMMA TakeStep ==
  ASSUME TypeOK, TakeData, mpPop.tail # mpPop.next
  PROVE  /\ mpPop.at = "data" /\ mpPop'.at = "idle" /\ mpPop.tail \in Nodes /\ mpPop.next \in Nodes
         /\ mpNodes[mpPop.next].data \in Data /\ mpGot' = Append(mpGot, mpNodes[mpPop.next].data)
         /\ \A m \in Nodes : mpNodes'[m].next = mpNodes[m].next
         /\ \A m \in Nodes \ {mpPop.tail, mpPop.next} : mpNodes'[m] = mpNodes[m]
         /\ mpFree' = mpFree \union {mpPop.tail}
         /\ UNCHANGED <<mpHead, mpTail, mpThr, mpOrder>>
         /\ TypeOK'
<1>1. /\ mpPop.at = "data" /\ mpPop.tail \in Nodes /\ mpPop.next \in Nodes
      /\ mpNodes[mpPop.next].data \in Data /\ NoData \in Data
  BY DEF TakeData, TypeOK, NoData, Data
<1>2. mpNodes' = [mpNodes EXCEPT ![mpPop.tail].data = mpNodes[mpPop.next].data, ![mpPop.next].data = NoData]
  BY DEF TakeData
<1>3. /\ mpNodes' \in [Nodes -> [next : Links, data : Data]]
      /\ mpNodes'[mpPop.tail].data = mpNodes[mpPop.next].data
      /\ \A m \in Nodes : mpNodes'[m].next = mpNodes[m].next
      /\ \A m \in Nodes \ {mpPop.tail, mpPop.next} : mpNodes'[m] = mpNodes[m]
  <2>1. mpNodes \in [Nodes -> [next : Links, data : Data]]
    BY DEF TypeOK
  <2>2. mpNodes' \in [Nodes -> [next : Links, data : Data]]
    BY <1>1, <1>2, <2>1
  <2>3. mpNodes'[mpPop.tail].data = mpNodes[mpPop.next].data
    BY <1>1, <1>2, <2>1
  <2>4. \A m \in Nodes : mpNodes'[m].next = mpNodes[m].next
    BY <1>1, <1>2, <2>1
  <2>5. \A m \in Nodes \ {mpPop.tail, mpPop.next} : mpNodes'[m] = mpNodes[m]
    BY <1>1, <1>2, <2>1
  <2> QED
    BY <2>2, <2>3, <2>4, <2>5
<1>4. mpPop'.at = "idle" /\ mpPop' \in [at : {"idle", "next", "store", "data"}, tail : Links, next : Links]
  BY DEF TakeData, Links
<1>5. mpGot' = Append(mpGot, mpNodes[mpPop.next].data) /\ mpFree' = mpFree \union {mpPop.tail}
  BY <1>3 DEF TakeData, Popped
<1>6. TypeOK'
  <2>1. mpGot' \in Seq(Data) /\ mpFree' \subseteq Nodes
    BY <1>1, <1>5 DEF TypeOK
  <2> QED
    BY <1>3, <1>4, <2>1 DEF TakeData, TypeOK
<1> QED
  BY <1>1, <1>3, <1>4, <1>5, <1>6 DEF TakeData

-----------------------------------------------------------------------------
(* The list                                                                *)

LEMMA Bounds ==
  ASSUME TypeOK, NEW at, Shape(at)
  PROVE  /\ Got \in Nat /\ Done \in Nat /\ End \in Nat /\ Got <= Done /\ Done <= Got + 1 /\ Done <= End
         /\ \A j \in Got..End : j \in Nat /\ at[j] \in Nodes
         /\ mpPop.at = "data" <=> Done = Got + 1
<1>1. Len(mpGot) \in Nat /\ Len(mpOrder) \in Nat
  BY DEF TypeOK
<1>2. Got \in Nat /\ End \in Nat
  BY <1>1 DEF Got, End
<1>3. Done = IF mpPop.at = "data" THEN Got + 1 ELSE Got
  BY DEF Done, Got
<1>4. Done <= End /\ at \in [Nat -> Nodes]
  BY DEF Shape
<1>5. \A j \in Got..End : j \in Nat /\ at[j] \in Nodes
  BY <1>2, <1>4
<1> QED
  BY <1>2, <1>3, <1>4, <1>5

LEMMA PushKeeps ==
  ASSUME TypeOK, NEW at, ListInv(at), NEW p \in 1..Producers, MpPush(p)
  PROVE  ListInv(at)'
<1>1. PICK n \in mpFree :
        /\ mpThr'[p] = [at |-> "swap", node |-> n, prev |-> NoNode, sent |-> mpThr[p].sent + 1]
        /\ \A q \in 1..Producers \ {p} : mpThr'[q] = mpThr[q]
        /\ mpNodes' = [mpNodes EXCEPT ![n] = [next |-> NoNode, data |-> <<p, mpThr[p].sent + 1>>]]
        /\ mpFree' = mpFree \ {n} /\ mpThr[p].at = "idle"
        /\ UNCHANGED <<mpHead, mpTail, mpPop, mpOrder, mpGot>>
  BY PushStep
<1>2. Got' = Got /\ Done' = Done /\ End' = End
  BY <1>1 DEF Got, Done, End
<1>3. /\ Got \in Nat /\ Done \in Nat /\ End \in Nat /\ Got <= Done /\ Done <= End
      /\ \A j \in Got..End : j \in Nat /\ at[j] \in Nodes
  BY Bounds DEF ListInv
<1>4. n \in Nodes /\ \A j \in Got..End : at[j] # n
  BY DEF ListInv, FreeInv, TypeOK
<1>5. mpNodes'[n] = [next |-> NoNode, data |-> <<p, mpThr[p].sent + 1>>] /\ \A m \in Nodes \ {n} : mpNodes'[m] = mpNodes[m]
  BY <1>1, <1>4 DEF TypeOK
<1>6. \A j \in Got..End : mpNodes'[at[j]] = mpNodes[at[j]]
  BY <1>3, <1>4, <1>5
<1>7. \A q \in 1..Producers : /\ Linking(q)' = Linking(q)
                              /\ Linking(q) => mpThr'[q] = mpThr[q] /\ Payload(q)' = Payload(q)
  BY <1>1 DEF Linking, Payload
<1>8. \A q \in 1..Producers, j \in Nat : LinksTo(at, q, j)' = LinksTo(at, q, j)
  BY <1>1, <1>7 DEF LinksTo
<1>9. Shape(at)'
  BY <1>1, <1>2 DEF ListInv, Shape
<1>10. LinkInv(at)'
  BY <1>2, <1>3, <1>6, <1>8 DEF ListInv, LinkInv
<1>11. PendInv(at)'
  BY <1>2, <1>3, <1>6, <1>7, <1>8 DEF ListInv, PendInv
<1>12. DataInv(at)'
  BY <1>1, <1>2, <1>3, <1>6 DEF ListInv, DataInv
<1>13. OwnInv(at)'
  <2> SUFFICES ASSUME NEW q \in 1..Producers, Swapping(q)'
               PROVE  /\ mpThr'[q].node \in Nodes \ mpFree'
                      /\ \A j \in Got..End : at[j] # mpThr'[q].node
                      /\ mpNodes'[mpThr'[q].node] = [next |-> NoNode, data |-> Payload(q)']
                      /\ \A u \in 1..Producers : Swapping(u)' /\ u # q => mpThr'[u].node # mpThr'[q].node
    BY <1>2 DEF OwnInv
  <2>1. CASE q = p
    <3>1. \A u \in 1..Producers : Swapping(u)' /\ u # p => mpThr'[u].node # n
      <4>1. \A u \in 1..Producers : Swapping(u) => mpThr[u].node # n
        BY DEF ListInv, OwnInv
      <4> QED
        BY <1>1, <4>1 DEF Swapping
    <3>2. Payload(p)' = <<p, mpThr[p].sent + 1>>
      BY <1>1 DEF Payload
    <3> QED
      BY <1>1, <1>4, <1>5, <2>1, <3>1, <3>2
  <2>2. CASE q # p
    <3>1. Swapping(q) /\ mpThr'[q] = mpThr[q] /\ Payload(q)' = Payload(q)
      BY <1>1, <2>2 DEF Swapping, Payload
    <3>2. mpThr[q].node # n /\ mpThr[q].node \in Nodes
      BY <3>1 DEF ListInv, OwnInv
    <3>3. \A u \in 1..Producers : Swapping(u)' /\ u # q => mpThr'[u].node # mpThr[q].node
      <4>1. \A u \in 1..Producers : Swapping(u) /\ u # q => mpThr[u].node # mpThr[q].node
        BY <3>1 DEF ListInv, OwnInv
      <4> QED
        BY <1>1, <3>2, <4>1 DEF Swapping
    <3> QED
      BY <1>1, <1>5, <3>1, <3>2, <3>3 DEF ListInv, OwnInv
  <2> QED
    BY <2>1, <2>2
<1>14. FreeInv(at)'
  BY <1>1, <1>2 DEF ListInv, FreeInv
<1>15. PopInv(at)'
  <2>1. Done = Got => mpTail = at[Got] /\ mpNodes'[mpTail].next = mpNodes[mpTail].next
    BY <1>3, <1>6 DEF ListInv, Shape
  <2> QED
    BY <1>1, <1>2, <2>1 DEF ListInv, PopInv, Got, Done
<1> QED
  BY <1>9, <1>10, <1>11, <1>12, <1>13, <1>14, <1>15 DEF ListInv

LEMMA LinkKeeps ==
  ASSUME TypeOK, NEW at, ListInv(at), NEW p \in 1..Producers, LinkPrevious(p)
  PROVE  ListInv(at)'
<1>1. /\ mpThr[p].at = "link" /\ mpThr'[p].at = "idle"
      /\ \A q \in 1..Producers \ {p} : mpThr'[q] = mpThr[q]
      /\ mpThr[p].prev \in Nodes /\ mpThr[p].node \in Nodes
      /\ mpNodes'[mpThr[p].prev].next = mpThr[p].node
      /\ \A m \in Nodes \ {mpThr[p].prev} : mpNodes'[m] = mpNodes[m]
      /\ \A m \in Nodes : mpNodes'[m].data = mpNodes[m].data
      /\ UNCHANGED <<mpHead, mpTail, mpPop, mpFree, mpOrder, mpGot>>
  BY LinkStep
<1>2. Got' = Got /\ Done' = Done /\ End' = End
  BY <1>1 DEF Got, Done, End
<1>3. /\ Got \in Nat /\ Done \in Nat /\ End \in Nat /\ Got <= Done /\ Done <= End
      /\ \A j \in Got..End : j \in Nat /\ at[j] \in Nodes
  BY Bounds DEF ListInv
<1>4. PICK k \in Done..End - 1 : LinksTo(at, p, k) /\ mpNodes[at[k]].next = NoNode
  BY <1>1 DEF ListInv, PendInv, Linking
<1>5. mpThr[p].prev = at[k] /\ mpThr[p].node = at[k + 1] /\ Payload(p) = mpOrder[k + 1] /\ k \in Got..End /\ k \in Nat
  BY <1>3, <1>4 DEF LinksTo
<1>6. \A j \in Got..End : j # k => mpNodes'[at[j]] = mpNodes[at[j]]
  BY <1>1, <1>3, <1>5 DEF ListInv, Shape
<1>7. \A q \in 1..Producers : Linking(q)' <=> Linking(q) /\ q # p
  BY <1>1 DEF Linking
<1>8. \A q \in 1..Producers, j \in Nat : q # p => LinksTo(at, q, j)' = LinksTo(at, q, j)
  BY <1>1 DEF LinksTo, Linking, Payload
<1>9. \A q \in 1..Producers : q # p => ~LinksTo(at, q, k)
  BY <1>5 DEF LinksTo, Payload
<1>10. Shape(at)'
  BY <1>1, <1>2 DEF ListInv, Shape
<1>11. LinkInv(at)'
  <2>1. mpNodes'[at[End]].next = NoNode
    BY <1>3, <1>4, <1>6 DEF ListInv, LinkInv
  <2>2. ASSUME NEW j \in Got..End - 1
        PROVE  \/ mpNodes'[at[j]].next = at[j + 1]
               \/ /\ j >= Done /\ mpNodes'[at[j]].next = NoNode
                  /\ \E q \in 1..Producers : LinksTo(at, q, j)'
    <3>1. CASE j = k
      BY <1>1, <1>5, <3>1
    <3>2. CASE j # k
      <4>1. mpNodes'[at[j]] = mpNodes[at[j]] /\ j \in Nat
        BY <1>3, <1>6, <3>2
      <4>2. ~LinksTo(at, p, j)
        BY <1>3, <1>5, <3>2 DEF LinksTo, ListInv, Shape
      <4> QED
        BY <1>8, <4>1, <4>2 DEF ListInv, LinkInv
    <3> QED
      BY <3>1, <3>2
  <2> QED
    BY <1>2, <2>1, <2>2 DEF LinkInv
<1>12. PendInv(at)'
  <2> SUFFICES ASSUME NEW q \in 1..Producers, Linking(q)'
               PROVE  \E j \in Done..End - 1 : LinksTo(at, q, j)' /\ mpNodes'[at[j]].next = NoNode
    BY <1>2 DEF PendInv
  <2>1. PICK j \in Done..End - 1 : LinksTo(at, q, j) /\ mpNodes[at[j]].next = NoNode
    BY <1>7 DEF ListInv, PendInv
  <2>2. q # p /\ j # k /\ j \in Nat /\ j \in Got..End
    BY <1>3, <1>7, <1>9, <2>1
  <2> QED
    BY <1>6, <1>8, <2>1, <2>2
<1>13. DataInv(at)'
  BY <1>1, <1>2, <1>3 DEF ListInv, DataInv
<1>14. OwnInv(at)'
  <2>1. \A q \in 1..Producers : Swapping(q)' => Swapping(q) /\ mpThr'[q] = mpThr[q] /\ Payload(q)' = Payload(q)
    BY <1>1 DEF Swapping, Payload
  <2>2. \A q \in 1..Producers : Swapping(q) => mpThr[q].node \in Nodes /\ mpThr[q].node # mpThr[p].prev
    BY <1>5 DEF ListInv, OwnInv
  <2> QED
    BY <1>1, <1>2, <2>1, <2>2 DEF ListInv, OwnInv
<1>15. FreeInv(at)'
  BY <1>1, <1>2 DEF ListInv, FreeInv
<1>16. PopInv(at)'
  <2>1. ASSUME mpPop.at = "store" PROVE mpNodes'[mpTail].next = mpNodes[mpTail].next
    <3>1. Done = Got /\ mpTail = at[Got] /\ mpPop.next = at[Got + 1] /\ mpNodes[mpTail].next = at[Got + 1] /\ Got < End
      BY <2>1 DEF ListInv, PopInv, Shape, Got, Done
    <3>2. at[Got + 1] # NoNode
      BY <1>3, <3>1 DEF Nodes, NoNode
    <3>3. k # Got
      BY <1>4, <3>1, <3>2
    <3> QED
      BY <1>3, <1>6, <3>1, <3>3
  <2> QED
    BY <1>1, <1>2, <2>1 DEF ListInv, PopInv
<1> QED
  BY <1>10, <1>11, <1>12, <1>13, <1>14, <1>15, <1>16 DEF ListInv

LEMMA SwapKeeps ==
  ASSUME TypeOK, NEW at, ListInv(at), NEW p \in 1..Producers, SwapHead(p), NEW e, e = End,
         NEW n, n = mpThr[p].node, NEW bt, bt = [at EXCEPT ![e + 1] = n]
  PROVE  ListInv(bt)'
<1>1. /\ mpThr[p].at = "swap" /\ mpThr'[p].at = "link" /\ mpThr[p].node \in Nodes
      /\ mpThr'[p].node = mpThr[p].node /\ mpThr'[p].prev = mpHead /\ mpThr'[p].sent = mpThr[p].sent
      /\ \A q \in 1..Producers \ {p} : mpThr'[q] = mpThr[q]
      /\ mpHead' = mpThr[p].node /\ mpOrder' = Append(mpOrder, Payload(p))
      /\ UNCHANGED <<mpTail, mpNodes, mpPop, mpFree, mpGot>>
  BY SwapStep
<1>2. Got' = Got /\ Done' = Done /\ e = End /\ End' = e + 1 /\ Payload(p)' = Payload(p)
  BY <1>1 DEF Got, Done, End, Payload, TypeOK
<1>3. /\ Got \in Nat /\ Done \in Nat /\ e \in Nat /\ Got <= Done /\ Done <= e
      /\ \A j \in Got..e : j \in Nat /\ at[j] \in Nodes
  BY Bounds DEF ListInv
<1>4. /\ \A j \in 1..e : mpOrder'[j] = mpOrder[j]
      /\ mpOrder'[e + 1] = Payload(p)
  BY <1>1 DEF End, TypeOK
<1>5. /\ bt \in [Nat -> Nodes] /\ bt[e + 1] = n
      /\ \A j \in 0..e : bt[j] = at[j]
  BY <1>1, <1>3 DEF ListInv, Shape
<1>6. /\ Swapping(p) /\ n \in Nodes \ mpFree /\ \A j \in Got..e : at[j] # n
      /\ mpNodes[n] = [next |-> NoNode, data |-> Payload(p)]
      /\ \A q \in 1..Producers : Swapping(q) /\ q # p => mpThr[q].node # n
  BY <1>1 DEF ListInv, OwnInv, Swapping
<1>7. \A q \in 1..Producers \ {p} : Linking(q)' = Linking(q) /\ Payload(q)' = Payload(q) /\ Swapping(q)' = Swapping(q)
  BY <1>1 DEF Linking, Payload, Swapping
<1>8. ~Linking(p) /\ Linking(p)' /\ ~Swapping(p)'
  BY <1>1 DEF Linking, Swapping
<1>9. \A q \in 1..Producers, j \in 0..e - 1 : LinksTo(at, q, j) => LinksTo(bt, q, j)'
  <2> SUFFICES ASSUME NEW q \in 1..Producers, NEW j \in 0..e - 1, LinksTo(at, q, j)
               PROVE  LinksTo(bt, q, j)'
    OBVIOUS
  <2>1. q # p /\ Linking(q)' /\ Payload(q)' = Payload(q) /\ mpThr'[q] = mpThr[q]
    BY <1>1, <1>7, <1>8 DEF LinksTo
  <2>2. bt[j] = at[j] /\ bt[j + 1] = at[j + 1] /\ mpOrder'[j + 1] = mpOrder[j + 1]
    BY <1>3, <1>4, <1>5
  <2> QED
    BY <2>1, <2>2 DEF LinksTo
<1>10. LinksTo(bt, p, e)'
  <2>1. mpHead = bt[e]
    BY <1>3, <1>5 DEF ListInv, Shape
  <2> QED
    BY <1>1, <1>2, <1>4, <1>5, <1>8, <2>1 DEF LinksTo
<1>11. Shape(bt)'
  <2>1. mpTail' = bt[Done] /\ mpHead' = bt[e + 1]
    BY <1>1, <1>3, <1>5 DEF ListInv, Shape
  <2>2. ASSUME NEW i \in Got..e + 1, NEW j \in Got..e + 1, bt[i] = bt[j] PROVE i = j
    <3>1. \A k \in Got..e : bt[k] = at[k] /\ bt[k] # n
      BY <1>3, <1>5, <1>6
    <3>2. CASE i = e + 1 \/ j = e + 1
      BY <1>3, <1>5, <2>2, <3>1, <3>2
    <3>3. CASE i \in Got..e /\ j \in Got..e
      BY <2>2, <3>1, <3>3 DEF ListInv, Shape
    <3> QED
      BY <1>3, <3>2, <3>3
  <2> QED
    BY <1>2, <1>3, <1>5, <2>1, <2>2 DEF Shape
<1>12. LinkInv(bt)'
  <2>1. mpNodes'[bt[e + 1]].next = NoNode
    BY <1>1, <1>5, <1>6
  <2>2. ASSUME NEW j \in Got..e
        PROVE  \/ mpNodes'[bt[j]].next = bt[j + 1]
               \/ /\ j >= Done /\ mpNodes'[bt[j]].next = NoNode
                  /\ \E q \in 1..Producers : LinksTo(bt, q, j)'
    <3>1. CASE j = e
      BY <1>1, <1>3, <1>5, <1>10, <3>1 DEF ListInv, LinkInv
    <3>2. CASE j # e
      <4>1. j \in Got..e - 1 /\ j \in 0..e - 1 /\ bt[j] = at[j] /\ bt[j + 1] = at[j + 1]
        BY <1>3, <1>5, <3>2
      <4> QED
        BY <1>1, <1>9, <4>1 DEF ListInv, LinkInv
    <3> QED
      BY <3>1, <3>2
  <2>3. (Got..End - 1)' = Got..e
    BY <1>2, <1>3
  <2> QED
    BY <1>2, <2>1, <2>2, <2>3 DEF LinkInv
<1>13. PendInv(bt)'
  <2> SUFFICES ASSUME NEW q \in 1..Producers, Linking(q)'
               PROVE  \E j \in Done..e : LinksTo(bt, q, j)' /\ mpNodes'[bt[j]].next = NoNode
    <3>1. (Done..End - 1)' = Done..e
      BY <1>2, <1>3
    <3> QED
      BY <3>1 DEF PendInv
  <2>1. CASE q = p
    BY <1>1, <1>3, <1>5, <1>10, <2>1 DEF ListInv, LinkInv
  <2>2. CASE q # p
    <3>1. PICK j \in Done..e - 1 : LinksTo(at, q, j) /\ mpNodes[at[j]].next = NoNode
      BY <1>7, <2>2 DEF ListInv, PendInv
    <3>2. j \in 0..e - 1 /\ j \in Done..e /\ bt[j] = at[j]
      BY <1>3, <1>5, <3>1
    <3> QED
      BY <1>1, <1>9, <3>1, <3>2
  <2> QED
    BY <2>1, <2>2
<1>14. DataInv(bt)'
  <2>1. ASSUME NEW j \in Got + 1..e + 1 PROVE mpNodes'[bt[j]].data = mpOrder'[j]
    <3>1. CASE j = e + 1
      <4>1. bt[j] = n /\ mpNodes'[n] = mpNodes[n] /\ mpNodes[n].data = Payload(p)
        BY <1>1, <1>5, <1>6, <3>1
      <4> QED
        BY <1>4, <3>1, <4>1
    <3>2. CASE j # e + 1
      <4>1. j \in Got + 1..e /\ j \in 1..e /\ bt[j] = at[j]
        BY <1>3, <1>5, <3>2
      <4> QED
        BY <1>1, <1>4, <4>1 DEF ListInv, DataInv
    <3> QED
      BY <3>1, <3>2
  <2>2. \A j \in 1..Got : mpGot'[j] = mpOrder'[j]
    <3>1. \A j \in 1..Got : j \in 1..e /\ mpGot[j] = mpOrder[j]
      BY <1>3 DEF ListInv, DataInv
    <3> QED
      BY <1>1, <1>4, <3>1
  <2> QED
    BY <1>2, <2>1, <2>2 DEF DataInv
<1>15. OwnInv(bt)'
  <2> SUFFICES ASSUME NEW q \in 1..Producers, Swapping(q)'
               PROVE  /\ mpThr'[q].node \in Nodes \ mpFree'
                      /\ \A j \in Got..e + 1 : bt[j] # mpThr'[q].node
                      /\ mpNodes'[mpThr'[q].node] = [next |-> NoNode, data |-> Payload(q)']
                      /\ \A u \in 1..Producers : Swapping(u)' /\ u # q => mpThr'[u].node # mpThr'[q].node
    BY <1>2 DEF OwnInv
  <2>1. q # p /\ Swapping(q) /\ mpThr'[q] = mpThr[q] /\ Payload(q)' = Payload(q)
    BY <1>1, <1>7, <1>8
  <2>2. /\ mpThr[q].node \in Nodes \ mpFree
        /\ \A j \in Got..e : at[j] # mpThr[q].node
        /\ mpNodes[mpThr[q].node] = [next |-> NoNode, data |-> Payload(q)]
        /\ \A u \in 1..Producers : Swapping(u) /\ u # q => mpThr[u].node # mpThr[q].node
    BY <2>1 DEF ListInv, OwnInv
  <2>3. \A j \in Got..e + 1 : bt[j] # mpThr[q].node
    BY <1>3, <1>5, <1>6, <2>1, <2>2
  <2>4. \A u \in 1..Producers : Swapping(u)' /\ u # q => mpThr'[u].node # mpThr[q].node
    BY <1>1, <1>7, <1>8, <2>2
  <2> QED
    BY <1>1, <2>1, <2>2, <2>3, <2>4
<1>16. FreeInv(bt)'
  BY <1>1, <1>2, <1>3, <1>5, <1>6 DEF ListInv, FreeInv
<1>17. PopInv(bt)'
  BY <1>1, <1>2, <1>3, <1>5 DEF ListInv, PopInv
<1> QED
  BY <1>11, <1>12, <1>13, <1>14, <1>15, <1>16, <1>17 DEF ListInv

LEMMA LoadKeeps ==
  ASSUME TypeOK, NEW at, ListInv(at), LoadTail \/ LoadNext
  PROVE  ListInv(at)'
<1>1. /\ UNCHANGED <<mpHead, mpTail, mpNodes, mpThr, mpFree, mpOrder, mpGot>>
      /\ mpPop.at # "data" /\ mpPop'.at # "data"
  <2>1. CASE LoadTail
    BY <2>1 DEF LoadTail
  <2>2. CASE LoadNext
    <3>1. [mpPop EXCEPT !.at = "store", !.next = mpNodes[mpPop.tail].next].at = "store"
      BY DEF TypeOK
    <3> QED
      BY <2>2, <3>1 DEF LoadNext
  <2> QED
    BY <2>1, <2>2
<1>2. /\ Got' = Got /\ Done' = Done /\ End' = End /\ Done = Got
      /\ \A q : Linking(q)' = Linking(q) /\ Swapping(q)' = Swapping(q) /\ Payload(q)' = Payload(q)
  BY <1>1 DEF Got, Done, End, Linking, Swapping, Payload
<1>3. /\ Got \in Nat /\ End \in Nat /\ Got <= End
      /\ \A j \in Got..End : j \in Nat /\ at[j] \in Nodes
  BY Bounds, <1>2 DEF ListInv
<1>4. \A q, j : LinksTo(at, q, j)' = LinksTo(at, q, j)
  BY <1>1, <1>2 DEF LinksTo
<1>5. Shape(at)' /\ LinkInv(at)' /\ PendInv(at)'
  BY <1>1, <1>2, <1>4 DEF ListInv, Shape, LinkInv, PendInv
<1>6. DataInv(at)' /\ OwnInv(at)' /\ FreeInv(at)'
  BY <1>1, <1>2 DEF ListInv, DataInv, OwnInv, FreeInv
<1>7. PopInv(at)'
  <2>1. CASE LoadTail
    BY <1>1, <2>1 DEF LoadTail, PopInv
  <2>2. CASE LoadNext
    <3>1. mpPop.tail = mpTail /\ mpTail = at[Got]
      BY <1>2, <2>2 DEF LoadNext, ListInv, PopInv, Shape
    <3>2. CASE mpNodes[mpTail].next = NoNode
      BY <2>2, <3>1, <3>2 DEF LoadNext, PopInv
    <3>3. CASE mpNodes[mpTail].next # NoNode
      <4>1. Got # End /\ Got \in Got..End - 1
        BY <1>3, <3>1, <3>3 DEF ListInv, LinkInv
      <4>2. mpNodes[mpTail].next = at[Got + 1]
        BY <3>1, <3>3, <4>1 DEF ListInv, LinkInv
      <4>3. mpPop' = [mpPop EXCEPT !.at = "store", !.next = mpNodes[mpTail].next]
        BY <2>2, <3>1, <3>3 DEF LoadNext
      <4>4. mpPop'.at = "store" /\ mpPop'.next = mpNodes[mpTail].next /\ mpPop'.tail = mpTail
        BY <3>1, <4>3 DEF TypeOK
      <4> QED
        BY <1>1, <1>2, <1>3, <4>1, <4>2, <4>4 DEF PopInv
    <3> QED
      BY <3>2, <3>3
  <2> QED
    BY <2>1, <2>2
<1> QED
  BY <1>5, <1>6, <1>7 DEF ListInv

LEMMA StoreKeeps ==
  ASSUME TypeOK, NEW at, ListInv(at), StoreTail
  PROVE  ListInv(at)'
<1>1. /\ UNCHANGED <<mpHead, mpNodes, mpThr, mpFree, mpOrder, mpGot>>
      /\ mpPop.at = "store" /\ mpTail' = mpPop.next
      /\ mpPop'.at = "data" /\ mpPop'.tail = mpPop.tail /\ mpPop'.next = mpPop.next
  BY DEF StoreTail, TypeOK
<1>2. /\ Got' = Got /\ Done' = Got + 1 /\ End' = End /\ Done = Got
      /\ \A q : Linking(q)' = Linking(q) /\ Swapping(q)' = Swapping(q) /\ Payload(q)' = Payload(q)
  BY <1>1 DEF Got, Done, End, Linking, Swapping, Payload
<1>3. /\ Got \in Nat /\ End \in Nat /\ Got <= End
      /\ \A j \in Got..End : j \in Nat /\ at[j] \in Nodes
  BY Bounds, <1>2 DEF ListInv
<1>4. \A q, j : LinksTo(at, q, j)' = LinksTo(at, q, j)
  BY <1>1, <1>2 DEF LinksTo
<1>5. /\ Got < End /\ mpPop.tail = at[Got] /\ mpTail = at[Got] /\ mpPop.next = at[Got + 1]
      /\ mpNodes[at[Got]].next = at[Got + 1] /\ at[Got + 1] # NoNode
  <2>1. /\ Got < End /\ mpPop.tail = at[Got] /\ mpTail = at[Got] /\ mpPop.next = at[Got + 1]
        /\ mpNodes[at[Got]].next = at[Got + 1]
    BY <1>1, <1>2 DEF ListInv, PopInv, Shape
  <2>2. at[Got + 1] \in Nodes
    BY <1>3, <2>1
  <2> QED
    BY <2>1, <2>2 DEF Nodes, NoNode
<1>6. Shape(at)'
  BY <1>1, <1>2, <1>3, <1>5 DEF ListInv, Shape
<1>7. LinkInv(at)'
  <2>1. ASSUME NEW j \in Got..End - 1
        PROVE  \/ mpNodes[at[j]].next = at[j + 1]
               \/ /\ j >= Got + 1 /\ mpNodes[at[j]].next = NoNode
                  /\ \E q \in 1..Producers : LinksTo(at, q, j)
    BY <1>3, <1>5 DEF ListInv, LinkInv
  <2> QED
    BY <1>1, <1>2, <1>4, <2>1 DEF ListInv, LinkInv
<1>8. PendInv(at)'
  <2> SUFFICES ASSUME NEW q \in 1..Producers, Linking(q)
               PROVE  \E j \in Got + 1..End - 1 : LinksTo(at, q, j) /\ mpNodes[at[j]].next = NoNode
    BY <1>1, <1>2, <1>4 DEF PendInv
  <2>1. PICK j \in Got..End - 1 : LinksTo(at, q, j) /\ mpNodes[at[j]].next = NoNode
    BY <1>2 DEF ListInv, PendInv
  <2> QED
    BY <1>3, <1>5, <2>1
<1>9. DataInv(at)' /\ OwnInv(at)' /\ FreeInv(at)'
  BY <1>1, <1>2 DEF ListInv, DataInv, OwnInv, FreeInv
<1>10. PopInv(at)'
  BY <1>1, <1>2, <1>5 DEF PopInv
<1> QED
  BY <1>6, <1>7, <1>8, <1>9, <1>10 DEF ListInv

(* A message comes behind those that were there. *)
LEMMA AppendGrows ==
  ASSUME NEW S, NEW s \in Seq(S), NEW x
  PROVE  /\ Len(Append(s, x)) = Len(s) + 1 /\ Append(s, x) # <<>>
         /\ Append(s, x)[Len(s) + 1] = x
         /\ \A i \in 1..Len(s) : Append(s, x)[i] = s[i]
<1>1. s \in Seq(S \union {x}) /\ x \in S \union {x} /\ Len(s) \in Nat
  OBVIOUS
<1>2. Len(Append(s, x)) = Len(s) + 1
  BY <1>1
<1>3. Append(s, x)[Len(s) + 1] = x
  BY <1>1
<1>4. \A i \in 1..Len(s) : Append(s, x)[i] = s[i]
  BY <1>1
<1>5. Append(s, x) # <<>>
  BY <1>1
<1> QED
  BY <1>2, <1>3, <1>4, <1>5

(* The node that pop hands out is its own, and holds the next message.     *)
LEMMA TakeFacts ==
  ASSUME TypeOK, NEW at, ListInv(at), TakeData
  PROVE  /\ mpPop.tail = at[Got] /\ mpPop.next = at[Got + 1] /\ mpPop.tail # mpPop.next
         /\ Got < End /\ mpNodes[mpPop.next].data = mpOrder[Got + 1] /\ Done = Got + 1
<1>1. mpPop.at = "data" /\ Done = Got + 1 /\ mpPop.tail = at[Got] /\ mpPop.next = at[Got + 1]
  BY DEF TakeData, ListInv, PopInv, Shape, Got, Done
<1>2. Got \in Nat /\ End \in Nat /\ Done <= End
  BY Bounds DEF ListInv
<1>3. at[Got] # at[Got + 1]
  BY <1>1, <1>2 DEF ListInv, Shape
<1> QED
  BY <1>1, <1>2, <1>3 DEF ListInv, DataInv

LEMMA TakeKeeps ==
  ASSUME TypeOK, NEW at, ListInv(at), TakeData
  PROVE  ListInv(at)'
<1>0. /\ mpPop.tail = at[Got] /\ mpPop.next = at[Got + 1] /\ mpPop.tail # mpPop.next
      /\ Got < End /\ mpNodes[mpPop.next].data = mpOrder[Got + 1] /\ Done = Got + 1
  BY TakeFacts
<1>1. /\ mpPop.at = "data" /\ mpPop'.at = "idle" /\ mpPop.tail \in Nodes /\ mpPop.next \in Nodes
      /\ mpGot' = Append(mpGot, mpOrder[Got + 1])
      /\ \A m \in Nodes : mpNodes'[m].next = mpNodes[m].next
      /\ \A m \in Nodes \ {at[Got], at[Got + 1]} : mpNodes'[m] = mpNodes[m]
      /\ mpFree' = mpFree \union {at[Got]}
      /\ UNCHANGED <<mpHead, mpTail, mpThr, mpOrder>>
  BY <1>0, TakeStep
<1>2. /\ Got' = Got + 1 /\ Done' = Got + 1 /\ End' = End
      /\ \A q : Linking(q)' = Linking(q) /\ Swapping(q)' = Swapping(q) /\ Payload(q)' = Payload(q)
  BY <1>1 DEF Got, Done, End, Linking, Swapping, Payload, TypeOK
<1>3. /\ Got \in Nat /\ End \in Nat /\ Got <= End
      /\ \A j \in Got..End : j \in Nat /\ at[j] \in Nodes
  BY Bounds DEF ListInv
<1>4. \A q, j : LinksTo(at, q, j)' = LinksTo(at, q, j)
  BY <1>1, <1>2 DEF LinksTo
<1>5. Shape(at)'
  BY <1>0, <1>1, <1>2, <1>3 DEF ListInv, Shape
<1>6. LinkInv(at)' /\ PendInv(at)'
  BY <1>0, <1>1, <1>2, <1>3, <1>4 DEF ListInv, LinkInv, PendInv
<1>7. DataInv(at)'
  <2>1. \A j \in Got + 2..End : mpNodes'[at[j]] = mpNodes[at[j]]
    <3> SUFFICES ASSUME NEW j \in Got + 2..End PROVE at[j] \in Nodes \ {at[Got], at[Got + 1]}
      BY <1>1
    <3> QED
      BY <1>0, <1>3 DEF ListInv, Shape
  <2>2. \A j \in 1..Got + 1 : mpGot'[j] = mpOrder[j]
    <3>1. mpGot \in Seq(Data) /\ \A j \in 1..Got : mpGot[j] = mpOrder[j]
      BY DEF TypeOK, ListInv, DataInv
    <3>2. /\ mpGot'[Got + 1] = mpOrder[Got + 1]
          /\ \A j \in 1..Got : mpGot'[j] = mpGot[j]
      BY <1>1, <3>1, AppendGrows DEF Got
    <3> QED
      BY <1>3, <3>1, <3>2
  <2>3. \A j \in Got + 2..End : mpNodes'[at[j]].data = mpOrder[j]
    BY <1>3, <2>1 DEF ListInv, DataInv
  <2>4. Got' = Got + 1 /\ Got + 1 + 1 = Got + 2 /\ End' = End
    BY <1>2, <1>3
  <2> QED
    BY <1>1, <2>2, <2>3, <2>4 DEF DataInv
<1>8. OwnInv(at)'
  <2> SUFFICES ASSUME NEW q \in 1..Producers, Swapping(q)
               PROVE  mpThr[q].node \notin mpFree' /\ mpNodes'[mpThr[q].node] = mpNodes[mpThr[q].node]
    BY <1>1, <1>2, <1>3 DEF ListInv, OwnInv
  <2>0. mpThr[q].node \in Nodes \ mpFree /\ \A j \in Got..End : at[j] # mpThr[q].node
    BY DEF ListInv, OwnInv
  <2>1. mpThr[q].node \in Nodes \ mpFree /\ mpThr[q].node # at[Got] /\ mpThr[q].node # at[Got + 1]
    <3>1. Got \in Got..End /\ Got + 1 \in Got..End
      BY <1>0, <1>3
    <3> QED
      BY <2>0, <3>1
  <2> QED
    BY <1>1, <2>1
<1>9. FreeInv(at)'
  BY <1>0, <1>1, <1>2, <1>3 DEF ListInv, FreeInv, Shape
<1>10. PopInv(at)'
  BY <1>1 DEF PopInv
<1> QED
  BY <1>5, <1>6, <1>7, <1>8, <1>9, <1>10 DEF ListInv

-----------------------------------------------------------------------------
(* The invariant                                                           *)

LEMMA InitInv == ASSUME Sizes, MpInit PROVE MpInv
<1>1. TypeOK
  BY InitTyped
<1> DEFINE at == [j \in Nat |-> 0]
<1>2. at \in [Nat -> Nodes] /\ at[0] = 0 /\ 0 \in Nodes
  BY DEF Sizes, Nodes
<1>3. Got = 0 /\ Done = 0 /\ End = 0 /\ mpHead = 0 /\ mpTail = 0
  BY DEF MpInit, Got, Done, End
<1> HIDE DEF at
<1>4. mpNodes[0].next = NoNode /\ 0 \notin mpFree
  BY <1>2 DEF MpInit, Nodes
<1>5. \A p \in 1..Producers : ~Linking(p) /\ ~Swapping(p)
  BY DEF MpInit, Linking, Swapping, Idle
<1>6. Shape(at) /\ LinkInv(at) /\ PendInv(at)
  BY <1>2, <1>3, <1>4, <1>5 DEF Shape, LinkInv, PendInv
<1>7. DataInv(at) /\ OwnInv(at) /\ FreeInv(at) /\ PopInv(at)
  BY <1>2, <1>3, <1>4, <1>5 DEF DataInv, OwnInv, FreeInv, PopInv, MpInit
<1> QED
  BY <1>1, <1>6, <1>7 DEF ListInv, MpInv

LEMMA StepInv == ASSUME MpInv, [MpNext]_mpVars PROVE MpInv'
<1>1. PICK at : ListInv(at)
  BY DEF MpInv
<1>2. TypeOK
  BY DEF MpInv
<1>3. ASSUME NEW p \in 1..Producers, MpPush(p) PROVE MpInv'
  BY <1>1, <1>2, <1>3, PushStep, PushKeeps DEF MpInv
<1>4. ASSUME NEW p \in 1..Producers, SwapHead(p) PROVE MpInv'
  <2>1. TypeOK'
    BY <1>2, <1>4, SwapStep
  <2>2. PICK bt : bt = [at EXCEPT ![End + 1] = mpThr[p].node]
    OBVIOUS
  <2>3. ListInv(bt)'
    BY <1>1, <1>2, <1>4, <2>2, SwapKeeps
  <2> QED
    BY <2>1, <2>3 DEF MpInv
<1>5. ASSUME NEW p \in 1..Producers, LinkPrevious(p) PROVE MpInv'
  BY <1>1, <1>2, <1>5, LinkStep, LinkKeeps DEF MpInv
<1>6. CASE LoadTail \/ LoadNext
  BY <1>1, <1>2, <1>6, PopTyped, LoadKeeps DEF MpInv
<1>7. CASE StoreTail
  BY <1>1, <1>2, <1>7, PopTyped, StoreKeeps DEF MpInv
<1>8. CASE TakeData
  <2>1. mpPop.tail # mpPop.next
    BY <1>1, <1>2, <1>8, TakeFacts
  <2> QED
    BY <1>1, <1>2, <1>8, <2>1, TakeStep, TakeKeeps DEF MpInv
<1>9. CASE UNCHANGED mpVars
  <2>1. TypeOK'
    BY <1>2, <1>9 DEF mpVars, TypeOK
  <2>2. /\ UNCHANGED <<mpHead, mpTail, mpNodes, mpThr, mpPop, mpFree, mpOrder, mpGot>>
        /\ Got' = Got /\ Done' = Done /\ End' = End
        /\ \A q : Linking(q)' = Linking(q) /\ Swapping(q)' = Swapping(q) /\ Payload(q)' = Payload(q)
    BY <1>9 DEF mpVars, Got, Done, End, Linking, Swapping, Payload
  <2>3. \A q, j : LinksTo(at, q, j)' = LinksTo(at, q, j)
    BY <2>2 DEF LinksTo
  <2>4. Shape(at)' /\ LinkInv(at)' /\ PendInv(at)'
    BY <1>1, <2>2, <2>3 DEF ListInv, Shape, LinkInv, PendInv
  <2>5. DataInv(at)' /\ OwnInv(at)' /\ FreeInv(at)' /\ PopInv(at)'
    BY <1>1, <2>2 DEF ListInv, DataInv, OwnInv, FreeInv, PopInv
  <2> QED
    BY <2>1, <2>4, <2>5 DEF MpInv, ListInv
<1>10. DOMAIN mpThr = 1..Producers
  BY <1>2 DEF TypeOK
<1> QED
  BY <1>3, <1>4, <1>5, <1>6, <1>7, <1>8, <1>9, <1>10 DEF MpNext

-----------------------------------------------------------------------------
(* Properties                                                              *)

(* The nodes of the list from the tail on hold the tail and with each node *)
(* its successor, so that Chain lies among them.                           *)
LEMMA ChainInList ==
  ASSUME TypeOK, NEW at, ListInv(at), NEW m \in Chain
  PROVE  \E j \in Done..End : m = at[j]
<1> DEFINE S == {at[j] : j \in Done..End}
<1>1. /\ Got \in Nat /\ Done \in Nat /\ End \in Nat /\ Got <= Done /\ Done <= End
      /\ \A j \in Got..End : j \in Nat /\ at[j] \in Nodes
  BY Bounds DEF ListInv
<1>2. S \subseteq Nodes /\ mpTail \in S
  BY <1>1 DEF ListInv, Shape
<1>3. ASSUME NEW j \in Done..End PROVE mpNodes[at[j]].next \in S \union {NoNode}
  <2>1. CASE j = End
    BY <2>1 DEF ListInv, LinkInv
  <2>2. CASE j # End
    <3>1. j \in Got..End - 1 /\ j + 1 \in Done..End
      BY <1>1, <2>2
    <3> QED
      BY <3>1 DEF ListInv, LinkInv
  <2> QED
    BY <2>1, <2>2
<1>4. ClosedUnderNext(S)
  BY <1>2, <1>3 DEF ClosedUnderNext
<1>5. m \in S
  BY <1>2, <1>4 DEF Chain, Nodes
<1> QED
  BY <1>5

LEMMA InvOrdered == ASSUME MpInv PROVE MpOrdered
<1>1. PICK at : ListInv(at)
  BY DEF MpInv
<1>2. /\ Got \in Nat /\ Done \in Nat /\ End \in Nat /\ Got <= Done /\ Done <= End
      /\ \A j \in Got..End : j \in Nat /\ at[j] \in Nodes
  BY <1>1, Bounds DEF ListInv, MpInv
<1>3. mpGot = SubSeq(mpOrder, 1, Len(mpGot))
  <2>1. mpGot \in Seq(Data) /\ mpOrder \in Seq((1..Producers) \X Nat) /\ Len(mpGot) <= Len(mpOrder)
    BY <1>2 DEF MpInv, TypeOK, Got, End
  <2>2. \A j \in 1..Len(mpGot) : mpGot[j] = mpOrder[j]
    BY <1>1 DEF ListInv, DataInv, Got
  <2>3. mpGot = [j \in 1..Len(mpGot) |-> mpGot[j]]
    BY <2>1
  <2>4. SubSeq(mpOrder, 1, Len(mpGot)) = [j \in 1..Len(mpGot) |-> mpOrder[j]]
    BY <2>1
  <2> QED
    BY <2>2, <2>3, <2>4
<1>4. ASSUME mpNodes[mpTail].next = NoNode, mpPop.at # "data"
      PROVE  \/ mpGot = mpOrder
             \/ \E p \in Pending : mpThr[p].prev = mpTail /\ mpOrder[Len(mpGot) + 1] = Payload(p)
  <2>1. Done = Got /\ mpTail = at[Got]
    BY <1>1, <1>4 DEF ListInv, Shape, Got, Done
  <2>2. CASE Got = End
    <3>1. mpOrder = SubSeq(mpOrder, 1, Len(mpOrder))
      BY DEF MpInv, TypeOK
    <3> QED
      BY <1>3, <2>2, <3>1 DEF Got, End
  <2>3. CASE Got # End
    <3>1. Got \in Got..End - 1 /\ at[Got + 1] \in Nodes
      BY <1>2, <2>3
    <3>2. PICK p \in 1..Producers : LinksTo(at, p, Got)
      BY <1>1, <1>4, <2>1, <3>1 DEF ListInv, LinkInv, Nodes, NoNode
    <3>3. p \in Pending
      BY <3>2 DEF Pending, LinksTo, Linking, MpInv, TypeOK
    <3> QED
      BY <2>1, <3>2, <3>3 DEF LinksTo, Got
  <2> QED
    BY <2>2, <2>3
<1> QED
  BY <1>3, <1>4 DEF MpOrdered

LEMMA InvOwned == ASSUME MpInv PROVE MpOwned
<1>1. PICK at : ListInv(at)
  BY DEF MpInv
<1>2. /\ Got \in Nat /\ Done \in Nat /\ End \in Nat /\ Got <= Done /\ Done <= End
      /\ \A j \in Got..End : j \in Nat /\ at[j] \in Nodes
      /\ mpPop.at = "data" <=> Done = Got + 1
  BY <1>1, Bounds DEF ListInv, MpInv
<1> DEFINE own == {mpThr[p].node : p \in {q \in DOMAIN mpThr : mpThr[q].at = "swap"}}
           popping == IF mpPop.at = "data" THEN {mpPop.tail} ELSE {}
<1>3. \A m \in Chain \union {mpHead} : \E j \in Done..End : m = at[j]
  <2>1. mpHead = at[End] /\ End \in Done..End
    BY <1>1, <1>2 DEF ListInv, Shape
  <2> QED
    BY <1>1, <2>1, ChainInList DEF MpInv
<1>4. \A m \in popping : m = at[Got] /\ Done = Got + 1
  BY <1>1, <1>2 DEF ListInv, PopInv
<1>5. \A m \in own : m \notin mpFree /\ \A j \in Got..End : m # at[j]
  <2> SUFFICES ASSUME NEW p \in DOMAIN mpThr, mpThr[p].at = "swap"
               PROVE  mpThr[p].node \notin mpFree /\ \A j \in Got..End : mpThr[p].node # at[j]
    OBVIOUS
  <2>1. p \in 1..Producers /\ Swapping(p)
    BY DEF MpInv, TypeOK, Swapping
  <2> QED
    BY <1>1, <2>1 DEF ListInv, OwnInv
<1>6. \A m \in popping : m \notin mpFree /\ \A j \in Done..End : m # at[j]
  BY <1>1, <1>2, <1>4 DEF ListInv, FreeInv, Shape
<1>7. \A j \in Done..End : at[j] \notin mpFree
  BY <1>1, <1>2 DEF ListInv, FreeInv
<1>8. \A p \in Pending : \E j \in Done..End : mpThr[p].prev = at[j]
  BY <1>1, <1>2 DEF Pending, ListInv, PendInv, LinksTo, Linking, MpInv, TypeOK
<1> HIDE DEF own, popping
<1>9. mpFree \cap (own \cup popping \cup Chain \cup {mpHead}) = {}
  BY <1>3, <1>5, <1>6, <1>7
<1>10. (own \cup popping) \cap (Chain \cup {mpHead}) = {}
  <2>1. \A j \in Done..End : j \in Got..End
    BY <1>2
  <2> QED
    BY <1>3, <1>5, <1>6, <2>1
<1>11. \A p \in Pending : mpThr[p].prev \notin mpFree \cup popping
  BY <1>6, <1>7, <1>8
<1> QED
  BY <1>9, <1>10, <1>11 DEF MpOwned, own, popping

(* Messages come once each and in the order of their swaps, the consumer   *)
(* finds nothing only when nothing is left or the push it waits for has    *)
(* not linked, and no node is in two hands.                                *)
THEOREM SingleQueueSafe == ASSUME Sizes PROVE MpSpec => []MpSafe
<1>1. MpInit => MpInv
  BY InitInv
<1>2. MpInv /\ [MpNext]_mpVars => MpInv'
  BY StepInv
<1>3. MpInv => MpSafe
  BY InvOrdered, InvOwned DEF MpSafe
<1> QED
  BY <1>1, <1>2, <1>3, PTL DEF MpSpec

(* What the consumer was given last.                                       *)
Last == IF mpGot = <<>> THEN 0 ELSE mpGot[Len(mpGot)]

LEMMA DeliverStep ==
  ASSUME MpInv, [MpNext]_mpVars
  PROVE  [Received!Next]_Received!vars
<1> DEFINE pos == [c \in Readers |-> Len(mpGot)]
           held == [c \in Readers |-> Last]
<1>0. PICK at : ListInv(at)
  BY DEF MpInv
<1>1. TypeOK /\ DOMAIN mpThr = 1..Producers
  BY DEF MpInv, TypeOK
<1>2. ASSUME NEW p \in 1..Producers, SwapHead(p) PROVE Received!Publish
  <2>1. /\ Payload(p) \in (1..Producers) \X Nat /\ mpOrder' = Append(mpOrder, Payload(p))
        /\ mpGot' = mpGot
    BY <1>1, <1>2, SwapStep
  <2> QED
    BY <2>1 DEF Received!Publish
<1>3. ASSUME TakeData PROVE Received!Consume("consumer")
  <2>1. /\ mpPop.tail # mpPop.next /\ Got < End /\ mpNodes[mpPop.next].data = mpOrder[Got + 1]
    BY <1>0, <1>1, <1>3, TakeFacts
  <2>2. mpGot' = Append(mpGot, mpOrder[Len(mpGot) + 1]) /\ mpOrder' = mpOrder
    BY <1>1, <1>3, <2>1, TakeStep DEF Got
  <2>3. /\ Len(mpGot') = Len(mpGot) + 1 /\ mpGot' # <<>>
        /\ mpGot'[Len(mpGot')] = mpOrder[Len(mpGot) + 1]
    <3>1. mpGot \in Seq(Data)
      BY <1>1 DEF TypeOK
    <3> QED
      BY <2>2, <3>1, AppendGrows
  <2>4. pos' = [pos EXCEPT !["consumer"] = @ + 1]
    BY <2>3 DEF Readers
  <2>5. held' = [held EXCEPT !["consumer"] = mpOrder[pos["consumer"] + 1]]
    BY <2>3 DEF Readers, Last
  <2> QED
    BY <2>1, <2>2, <2>4, <2>5 DEF Received!Consume, Readers, Last, Got, End
<1>4. ASSUME UNCHANGED <<mpOrder, mpGot>> PROVE UNCHANGED Received!vars
  BY <1>4 DEF Received!vars
<1>5. CASE UNCHANGED mpVars
  BY <1>4, <1>5 DEF mpVars
<1>6. CASE MpNext
  <2>1. ASSUME NEW p \in 1..Producers, MpPush(p) \/ LinkPrevious(p) PROVE UNCHANGED <<mpOrder, mpGot>>
    BY <2>1 DEF MpPush, LinkPrevious
  <2>2. ASSUME LoadTail \/ LoadNext \/ StoreTail PROVE UNCHANGED <<mpOrder, mpGot>>
    BY <2>2 DEF LoadTail, LoadNext, StoreTail
  <2>3. "consumer" \in Readers
    BY DEF Readers
  <2> QED
    BY <1>1, <1>2, <1>3, <1>4, <1>6, <2>1, <2>2, <2>3 DEF MpNext, Received!Next
<1> QED
  BY <1>5, <1>6

(* The queue is the log it promises: its consumer reads the messages in    *)
(* the order in which the pushes swapped the head, none twice and none     *)
(* left out (MpScPtrQueue refines BroadcastLog).                           *)
THEOREM SingleQueueIsALog == ASSUME Sizes PROVE MpSpec => DeliversInOrder
<1>1. MpInit => MpInv
  BY InitInv
<1>2. MpInv /\ [MpNext]_mpVars => MpInv'
  BY StepInv
<1>3. MpInit => Received!Init
  BY DEF MpInit, Received!Init
<1>4. MpInv /\ [MpNext]_mpVars => [Received!Next]_Received!vars
  BY DeliverStep
<1> QED
  BY <1>1, <1>2, <1>3, <1>4, PTL DEF MpSpec, DeliversInOrder, Received!Spec
=============================================================================

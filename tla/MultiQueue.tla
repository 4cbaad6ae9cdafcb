----------------------------- MODULE MultiQueue -----------------------------
(***************************************************************************)
(* clasp::util::MultiQueue: a lock-free queue every consumer reads in full.*)
(* A node stays in the list until all max_q consumers have moved past it;  *)
(* the last of them puts it on a lock-free stack from which publishers     *)
(* take their nodes.                                                       *)
(*                                                                         *)
(* A step of a thread is one access to shared memory; the memory is        *)
(* sequentially consistent. Steps on memory no other thread can reach are  *)
(* joined with the access before them.                                     *)
(***************************************************************************)
EXTENDS Integers, Sequences, FiniteSets, TLC

CONSTANTS
  Consumers,   \* the threads with an id from add_thread; max_q of them
  Producers,   \* the threads that publish
  Nodes,       \* the nodes memory has room for
  Sentinel, Null, \* the sentinel node and the null pointer
  MaxMsgs,     \* bound on the messages published
  MaxReserved  \* bound on the nodes reserved

ASSUME QueueAssumption ==
  /\ IsFiniteSet(Consumers) /\ Consumers # {} /\ IsFiniteSet(Nodes)
  /\ Sentinel \notin Nodes /\ Null \notin Nodes /\ Sentinel # Null /\ Null \notin Consumers \cup Producers
  /\ MaxMsgs \in Nat /\ MaxReserved \in Nat

VARIABLES
  next,        \* node -> its successor, in the list or on the free stack
  refs,        \* node -> consumers that have not moved past it
  value,       \* node -> the message in it, 0 for none
  tail,        \* the last node of the list, or the one before it
  top,         \* the top of the free stack
  heap,        \* the nodes that are not allocated
  id,          \* consumer -> the node it has read last (its ThreadId)
  pc,          \* thread -> the access it makes next
  assumed, seen, mine, msg, \* thread -> its local pointers and its message
  log, pos,    \* history: the messages linked; how many each consumer has read
  sent, reserved, \* how many messages and reserved nodes there have been
  alone,       \* the thread in unsafe_publish, which publishes alone, or Null
  closed       \* the queue has been dropped

locals  == <<assumed, seen, mine, msg>>
history == <<log, pos>>
counts  == <<sent, reserved, closed, alone>>
vars == <<next, refs, value, tail, top, heap, id, pc, locals, history, counts>>

Threads  == Consumers \cup Producers
Pointers == Nodes \cup {Sentinel, Null}
MaxQ     == Cardinality(Consumers)
NoPointer == [t \in Threads |-> Null]

Init ==
  /\ next = [n \in Nodes \cup {Sentinel} |-> Null]
  /\ refs = [n \in Nodes |-> 0] /\ value = [n \in Nodes |-> 0]
  /\ tail = Sentinel /\ top = Null /\ heap = Nodes
  /\ id = [c \in Consumers |-> Sentinel]
  /\ pc = [t \in Threads |-> "idle"]
  /\ assumed = NoPointer /\ seen = NoPointer /\ mine = NoPointer
  /\ msg = [t \in Threads |-> 0]
  /\ log = <<>> /\ pos = [c \in Consumers |-> 0]
  /\ sent = 0 /\ reserved = 0 /\ closed = FALSE /\ alone = Null

Goto(t, from, to) == pc[t] = from /\ pc' = [pc EXCEPT ![t] = to]

(* The end of a call: its locals are gone.                                 *)
Return(t, from) ==
  /\ Goto(t, from, "idle")
  /\ assumed' = [assumed EXCEPT ![t] = Null] /\ seen' = [seen EXCEPT ![t] = Null]
  /\ mine' = [mine EXCEPT ![t] = Null] /\ msg' = [msg EXCEPT ![t] = 0]

(***************************************************************************)
(* The free stack. A weak exchange may fail although the top is the one    *)
(* assumed; it then starts again like any other exchange that fails.       *)
(***************************************************************************)
PopNext(t) ==
  /\ assumed[t] # Null /\ Goto(t, "pop", "popcas")
  /\ seen' = [seen EXCEPT ![t] = next[assumed[t]]]
  /\ UNCHANGED <<next, refs, value, tail, top, heap, id, assumed, mine, msg, history, counts>>

\* Slip: the top is replaced without a comparison.
PopSwap(t) ==
  /\ Goto(t, "popcas", "fill")
  /\ top' = seen[t] /\ mine' = [mine EXCEPT ![t] = assumed[t]]
  /\ UNCHANGED <<next, refs, value, tail, heap, id, assumed, seen, msg, history, counts>>

Pop(t) ==
  /\ Goto(t, "popcas", "fill") /\ top = assumed[t]
  /\ top' = seen[t] /\ mine' = [mine EXCEPT ![t] = assumed[t]]
  /\ UNCHANGED <<next, refs, value, tail, heap, id, assumed, seen, msg, history, counts>>

PopFails(t) ==
  /\ Goto(t, "popcas", "pop")
  /\ assumed' = [assumed EXCEPT ![t] = top]
  /\ UNCHANGED <<next, refs, value, tail, top, heap, id, seen, mine, msg, history, counts>>

PushLoad(t) ==
  /\ Goto(t, "push", "pushlink")
  /\ assumed' = [assumed EXCEPT ![t] = top]
  /\ UNCHANGED <<next, refs, value, tail, top, heap, id, seen, mine, msg, history, counts>>

PushLink(t) ==
  /\ Goto(t, "pushlink", "pushcas")
  /\ next' = [next EXCEPT ![mine[t]] = assumed[t]]
  /\ UNCHANGED <<refs, value, tail, top, heap, id, locals, history, counts>>

Push(t) ==
  /\ Return(t, "pushcas") /\ top = assumed[t]
  /\ top' = mine[t]
  /\ UNCHANGED <<next, refs, value, tail, heap, id, history, counts>>

PushFails(t) ==
  /\ Goto(t, "pushcas", "pushlink")
  /\ assumed' = [assumed EXCEPT ![t] = top]
  /\ UNCHANGED <<next, refs, value, tail, top, heap, id, seen, mine, msg, history, counts>>

(* reserve: a new node goes to the free stack.                             *)
Reserve(t) ==
  /\ ~closed /\ reserved < MaxReserved /\ Goto(t, "idle", "push")
  /\ \E n \in heap : heap' = heap \ {n} /\ mine' = [mine EXCEPT ![t] = n]
  /\ reserved' = reserved + 1
  /\ UNCHANGED <<next, refs, value, tail, top, id, assumed, seen, msg, history, sent, closed, alone>>

(***************************************************************************)
(* publish and unsafe_publish: allocate (a node from the free stack or a   *)
(* new one), then link. The caller of unsafe_publish sees to it that no    *)
(* other thread publishes meanwhile.                                       *)
(***************************************************************************)
Publishing(t) == pc[t] \in {"pop", "popcas", "fill", "tail", "next", "check", "help", "link",
                            "swing", "store", "storetail"}

StartPublish(t) ==
  /\ t \in Producers /\ ~closed /\ sent < MaxMsgs /\ alone = Null /\ Goto(t, "idle", "pop")
  /\ sent' = sent + 1 /\ msg' = [msg EXCEPT ![t] = sent + 1]
  /\ assumed' = [assumed EXCEPT ![t] = top]
  /\ UNCHANGED <<next, refs, value, tail, top, heap, id, seen, mine, history, reserved, closed>>

Publish(t) == StartPublish(t) /\ UNCHANGED alone
UnsafePublish(t) ==
  /\ \A u \in Threads : ~Publishing(u)
  /\ StartPublish(t) /\ alone' = t

NewNode(t) ==
  /\ assumed[t] = Null /\ Goto(t, "pop", "fill")
  /\ \E n \in heap : heap' = heap \ {n} /\ mine' = [mine EXCEPT ![t] = n]
  /\ UNCHANGED <<next, refs, value, tail, top, id, assumed, seen, msg, history, counts>>

\* Slip: one reference too few.
MaxQShort == Cardinality(Consumers) - 1

(* The references of a message, one for each consumer.                     *)
References == MaxQ

Fill(t) ==
  /\ \/ alone # t /\ Goto(t, "fill", "tail")
     \/ alone = t /\ Goto(t, "fill", "store")
  /\ next' = [next EXCEPT ![mine[t]] = Null]
  /\ refs' = [refs EXCEPT ![mine[t]] = References]
  /\ value' = [value EXCEPT ![mine[t]] = msg[t]]
  /\ UNCHANGED <<tail, top, heap, id, locals, history, counts>>

\* Slip: the comparison is the wrong way round.
RecheckSwapped(t) ==
  /\ \/ tail = assumed[t] /\ Goto(t, "check", "tail")
     \/ tail # assumed[t] /\ seen[t] # Null /\ Goto(t, "check", "help")
     \/ tail # assumed[t] /\ seen[t] = Null /\ Goto(t, "check", "link")
  /\ UNCHANGED <<next, refs, value, tail, top, heap, id, locals, history, counts>>

(* publish_safe: load the tail and its successor, see that the tail is     *)
(* still the same, help a publisher that has not moved the tail yet, or    *)
(* append the node and move the tail.                                      *)
LoadTail(t) ==
  /\ Goto(t, "tail", "next")
  /\ assumed' = [assumed EXCEPT ![t] = tail]
  /\ UNCHANGED <<next, refs, value, tail, top, heap, id, seen, mine, msg, history, counts>>

LoadNext(t) ==
  /\ Goto(t, "next", "check")
  /\ seen' = [seen EXCEPT ![t] = next[assumed[t]]]
  /\ UNCHANGED <<next, refs, value, tail, top, heap, id, assumed, mine, msg, history, counts>>

Recheck(t) ==
  /\ \/ tail # assumed[t] /\ Goto(t, "check", "tail")
     \/ tail = assumed[t] /\ seen[t] # Null /\ Goto(t, "check", "help")
     \/ tail = assumed[t] /\ seen[t] = Null /\ Goto(t, "check", "link")
  /\ UNCHANGED <<next, refs, value, tail, top, heap, id, locals, history, counts>>

Help(t) ==
  /\ Goto(t, "help", "tail") /\ tail = assumed[t]
  /\ tail' = seen[t]
  /\ UNCHANGED <<next, refs, value, top, heap, id, locals, history, counts>>

\* Slip: the node is stored as the successor without a comparison.
LinkStore(t) ==
  /\ Goto(t, "link", "swing")
  /\ next' = [next EXCEPT ![assumed[t]] = mine[t]]
  /\ log' = Append(log, msg[t])
  /\ UNCHANGED <<refs, value, tail, top, heap, id, locals, pos, counts>>

Link(t) ==
  /\ Goto(t, "link", "swing") /\ next[assumed[t]] = Null
  /\ next' = [next EXCEPT ![assumed[t]] = mine[t]]
  /\ log' = Append(log, msg[t])
  /\ UNCHANGED <<refs, value, tail, top, heap, id, locals, pos, counts>>

LinkFails(t) ==
  /\ Goto(t, "help", "tail") \/ Goto(t, "link", "tail")
  /\ UNCHANGED <<next, refs, value, tail, top, heap, id, locals, history, counts>>

\* Slip: the tail is left to others.
SwingNot(t) ==
  /\ Return(t, "swing")
  /\ UNCHANGED <<next, refs, value, tail, top, heap, id, history, counts>>

Swing(t) ==
  /\ Return(t, "swing")
  /\ tail' = IF tail = assumed[t] THEN mine[t] ELSE tail
  /\ UNCHANGED <<next, refs, value, top, heap, id, history, counts>>

(* publish_unsafe: append and move the tail with two stores.               *)
UnsafeLink(t) ==
  /\ Goto(t, "store", "storetail")
  /\ next' = [next EXCEPT ![tail] = mine[t]]
  /\ log' = Append(log, msg[t])
  /\ UNCHANGED <<refs, value, tail, top, heap, id, locals, pos, counts>>

UnsafeTail(t) ==
  /\ Return(t, "storetail") /\ alone' = Null
  /\ tail' = mine[t]
  /\ UNCHANGED <<next, refs, value, top, heap, id, history, sent, reserved, closed>>

(***************************************************************************)
(* try_consume: a call that finds the consumer at the tail returns nothing.*)
(***************************************************************************)
\* Slip: the consumer looks for a successor even at the tail.
ConsumeBlind(t) ==
  /\ t \in Consumers /\ ~closed /\ sent > 0 /\ Goto(t, "idle", "advance")
  /\ UNCHANGED <<next, refs, value, tail, top, heap, id, locals, history, counts>>

Consume(t) ==
  /\ t \in Consumers /\ ~closed /\ id[t] # tail /\ Goto(t, "idle", "advance")
  /\ UNCHANGED <<next, refs, value, tail, top, heap, id, locals, history, counts>>

(* The consumer moves to the successor and then releases where it was; the *)
(* sentinel is never released.                                             *)
Advance(t) ==
  /\ pc[t] = "advance" /\ next[id[t]] # Null
  /\ id' = [id EXCEPT ![t] = next[id[t]]] /\ pos' = [pos EXCEPT ![t] = @ + 1]
  /\ \/ id[t] = Sentinel /\ Goto(t, "advance", "idle") /\ UNCHANGED mine
     \/ id[t] # Sentinel /\ Goto(t, "advance", "release") /\ mine' = [mine EXCEPT ![t] = id[t]]
  /\ UNCHANGED <<next, refs, value, tail, top, heap, assumed, seen, msg, log, counts>>

Release(t) ==
  /\ pc[t] = "release"
  /\ refs' = [refs EXCEPT ![mine[t]] = @ - 1]
  /\ \/ refs[mine[t]] = 1 /\ Goto(t, "release", "last") /\ UNCHANGED locals
     \/ refs[mine[t]] # 1 /\ Return(t, "release")
  /\ UNCHANGED <<next, value, tail, top, heap, id, history, counts>>

LastNext(t) ==
  /\ Goto(t, "last", "sethead")
  /\ seen' = [seen EXCEPT ![t] = next[mine[t]]]
  /\ UNCHANGED <<next, refs, value, tail, top, heap, id, assumed, mine, msg, history, counts>>

\* Slip: the sentinel keeps pointing to the released node.
SetHeadNot(t) ==
  /\ Goto(t, "sethead", "push")
  /\ value' = [value EXCEPT ![mine[t]] = 0]
  /\ UNCHANGED <<next, refs, tail, top, heap, id, locals, history, counts>>

SetHead(t) ==
  /\ Goto(t, "sethead", "push")
  /\ next' = [next EXCEPT ![Sentinel] = seen[t]]
  /\ value' = [value EXCEPT ![mine[t]] = 0]
  /\ UNCHANGED <<refs, tail, top, heap, id, locals, history, counts>>

(***************************************************************************)
(* Drop: the nodes behind the sentinel are destroyed with their values,    *)
(* those on the free stack without. The queue is dropped when no thread    *)
(* uses it any more.                                                       *)
(***************************************************************************)
ListFrom(first) ==
  LET upTo[k \in 0..Cardinality(Nodes)] ==
        IF k = 0 THEN {first} \ {Null}
        ELSE upTo[k - 1] \cup ({next[n] : n \in upTo[k - 1]} \ {Null})
  IN upTo[Cardinality(Nodes)]

Quiet == \A t \in Threads : pc[t] = "idle"

DropQueue ==
  /\ Quiet /\ ~closed /\ closed' = TRUE
  /\ value' = [n \in Nodes |-> IF n \in ListFrom(next[Sentinel]) THEN 0 ELSE value[n]]
  /\ heap' = heap \cup ListFrom(next[Sentinel]) \cup ListFrom(top)
  /\ UNCHANGED <<next, refs, tail, top, id, pc, locals, history, sent, reserved, alone>>

(* What a thread does once it is in a call.                                *)
Step(t) ==
  \/ PopNext(t) \/ Pop(t) \/ PopFails(t) \/ NewNode(t) \/ Fill(t)
  \/ LoadTail(t) \/ LoadNext(t) \/ Recheck(t) \/ Help(t) \/ Link(t) \/ LinkFails(t)
  \/ Swing(t) \/ UnsafeLink(t) \/ UnsafeTail(t)
  \/ Advance(t) \/ Release(t) \/ LastNext(t) \/ SetHead(t)
  \/ PushLoad(t) \/ PushLink(t) \/ Push(t) \/ PushFails(t)

Next ==
  \/ \E t \in Threads : Publish(t) \/ UnsafePublish(t) \/ Reserve(t) \/ Consume(t) \/ Step(t)
  \/ DropQueue

(* Threads in a call keep running, a weak exchange does not fail for ever, *)
(* and consumers keep asking.                                              *)
Spec == Init /\ [][Next]_vars
FairSpec ==
  /\ Spec
  /\ \A t \in Threads : WF_vars(Step(t)) /\ SF_vars(Pop(t) \/ Push(t) \/ Link(t))
  /\ \A c \in Consumers : WF_vars(Consume(c))

(***************************************************************************)
(* What the queue must guarantee to publishers and consumers. In the runs  *)
(* c1, c2 publish and consume (or only consume), p1, p2 only publish.      *)
(***************************************************************************)
Messages == 1..MaxMsgs
Labels == {"idle", "pop", "popcas", "push", "pushlink", "pushcas", "fill", "tail", "next",
           "check", "help", "link", "swing", "store", "storetail", "advance", "release",
           "last", "sethead"}

(* Every part of the state has the shape the code's types give it.         *)
TypeOK ==
  /\ next \in [Nodes \cup {Sentinel} -> Nodes \cup {Null}]
  /\ refs \in [Nodes -> 0..MaxQ] /\ value \in [Nodes -> Messages \cup {0}]
  /\ tail \in Nodes \cup {Sentinel} /\ top \in Nodes \cup {Null} /\ heap \in SUBSET Nodes
  /\ id \in [Consumers -> Nodes \cup {Sentinel}]
  /\ pc \in [Threads -> Labels]
  /\ assumed \in [Threads -> Pointers] /\ seen \in [Threads -> Nodes \cup {Null}]
  /\ mine \in [Threads -> Nodes \cup {Null}]
  /\ msg \in [Threads -> Messages \cup {0}] /\ alone \in Producers \cup {Null}
  /\ log \in Seq(Messages) /\ pos \in [Consumers -> Nat]

(* The nodes of the list, in the order the consumers will meet them.       *)
Reading(c) == ListFrom(id[c])
Published == (UNION {Reading(c) : c \in Consumers}) \ {Sentinel}
FreeNodes == ListFrom(top)

(* Each node has one owner: the heap, the free stack, the list, or the     *)
(* thread that is filling or returning it. The comment on allocate says    *)
(* of the node it writes that it "is uniquely owned here".                 *)
Filling == {"fill", "tail", "next", "check", "help", "link", "store"}
Owns(t) == IF pc[t] \in Filling \cup {"last", "sethead", "push", "pushlink", "pushcas"} THEN {mine[t]} ELSE {}
UniquelyOwned ==
  \A t \in Threads : pc[t] \in Filling =>
    /\ mine[t] \notin heap \cup FreeNodes \cup Published
    /\ \A u \in Threads \ {t} : mine[t] \notin Owns(u)

(* A publisher appends behind a node that has not been taken out of the    *)
(* list and recycled: the comment in publish_safe says that the tail it    *)
(* assumed "always points to the sentinel or a published node".            *)
AssumedTailPublished ==
  \A t \in Threads : pc[t] \in {"next", "check", "help", "link"} =>
    assumed[t] \notin heap \cup FreeNodes \cup UNION {Owns(u) : u \in Threads}

(* A consumer that has been told there is a message finds a successor:     *)
(* the assertion of try_consume ("MultiQueue is corrupted!").              *)
SuccessorThere == \A c \in Consumers : pc[c] = "advance" => next[id[c]] # Null

(* A reference is left for every consumer that has not moved past a node,  *)
(* so that the last one to do so, and no other, frees it.                  *)
NotPast(n) == {c \in Consumers : n \in Reading(c) \/ (pc[c] = "release" /\ mine[c] = n)}
RefsCounted == ~closed => \A n \in Published : refs[n] = Cardinality(NotPast(n))

(* When no thread is in a call, the drop of the queue finds every message  *)
(* some consumer still has to read behind the sentinel, and every other    *)
(* node it has allocated on the free stack; it destroys each of them once  *)
(* and leaves none behind.                                                 *)
DropExact ==
  /\ Quiet /\ ~closed =>
       /\ ListFrom(next[Sentinel]) = {n \in Nodes : value[n] # 0}
       /\ FreeNodes = (Nodes \ heap) \ ListFrom(next[Sentinel])
  /\ closed => heap = Nodes /\ \A n \in Nodes : value[n] = 0

(* No node of the queue is reached that is not there, and none is freed    *)
(* twice or never.                                                         *)
QueueSafe ==
  TypeOK /\ UniquelyOwned /\ AssumedTailPublished /\ SuccessorThere /\ RefsCounted /\ DropExact

(* Consumers see what BroadcastLog says: all messages in the order they    *)
(* were linked, none twice, and the one read last stays in place until the *)
(* next read. With fairness, every message reaches every consumer.         *)
Service == INSTANCE BroadcastLog WITH
  held <- [c \in Consumers |-> IF closed \/ pos[c] = 0 THEN 0 ELSE value[id[c]]]
ImplementsLog == Service!Spec
DeliversLog   == Service!FairSpec

(* A publish ends, however many threads publish and consume around it.     *)
PublishReturns == \A t \in Producers : pc[t] = "pop" ~> pc[t] = "idle"

(* Every message that is published reaches every consumer, and publishing  *)
(* it ends.                                                                *)
QueueLive == DeliversLog /\ PublishReturns

(* Nodes are interchangeable: a symmetry for the runs that check safety.   *)
NodeSymmetry == Permutations(Nodes)
=============================================================================

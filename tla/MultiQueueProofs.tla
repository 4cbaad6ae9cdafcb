-------------------------- MODULE MultiQueueProofs --------------------------
(***************************************************************************)
(* Proofs about MultiQueue: for any number of threads, nodes and messages  *)
(* a node is in one hand, references are counted exactly, the drop finds   *)
(* everything, and the queue implements BroadcastLog - provided that the   *)
(* threads that publish are among those the references are counted for.    *)
(***************************************************************************)
EXTENDS MultiQueue, FiniteSetTheorems, SequenceTheorems, WellFoundedInduction, TLAPS

(* A thread that publishes is a consumer of the queue, too, as the solvers *)
(* of new(max_threads) are for each other: while it is in a call the nodes *)
(* behind its position are kept.                                           *)
ProducersRead == Producers \subseteq Consumers

(***************************************************************************)
(* The invariant speaks of the list as a sequence: at[k] is the node of    *)
(* the k-th message, also after it was recycled; stk are the nodes on the  *)
(* free stack, the top last; n is the position of the tail.                *)
(***************************************************************************)
At(at, k) == IF k = 0 THEN Sentinel ELSE at[k]

(* How many nodes a consumer has released.                                 *)
Released(c) ==
  IF pos[c] = 0 THEN 0 ELSE IF pc[c] = "release" THEN pos[c] - 2 ELSE pos[c] - 1

(* The consumers that have not released the k-th message, which is kept    *)
(* while there are any.                                                    *)
Readers(k) == {c \in Consumers : Released(c) < k}
Kept(k) == k \in 1..Len(log) /\ Readers(k) # {}
InList(at, m) == \E k \in Nat : Kept(k) /\ m = at[k]
OnStack(stk, m) == \E i \in 1..Len(stk) : m = stk[i]

Returning == {"last", "sethead"}
Pushing   == {"push", "pushlink", "pushcas"}
Owning(t) == pc[t] \in Filling \cup Returning \cup Pushing
Filled(t) == pc[t] \in Filling \ {"fill"}

Shape(at, stk, n) ==
  /\ at \in Seq(Nodes) /\ Len(at) = Len(log) /\ stk \in Seq(Nodes) /\ n \in 0..Len(log)

(* The list from its first referenced node on.                             *)
NodeInv(at) ==
  \A k \in Nat : Kept(k) =>
    /\ value[at[k]] = log[k] /\ refs[at[k]] = Cardinality(Readers(k))
    /\ next[at[k]] = IF k < Len(log) THEN at[k + 1] ELSE Null
    /\ \A j \in Nat : Kept(j) /\ at[j] = at[k] => j = k

(* The sentinel points to it, but for the moment in which it is returned.  *)
FirstInv(at) ==
  /\ Len(log) = 0 => next[Sentinel] = Null
  /\ Len(log) > 0 /\ (\A c \in Consumers : pc[c] \notin Returning) =>
       \E k \in Nat : Kept(k) /\ ~Kept(k - 1) /\ next[Sentinel] = at[k]

ReaderInv(at, n) ==
  \A c \in Consumers :
    /\ pos[c] <= n /\ id[c] = At(at, pos[c])
    /\ pc[c] = "advance" => pos[c] < n
    /\ pc[c] \in {"release"} \cup Returning => pos[c] >= 2 /\ mine[c] = at[pos[c] - 1]
    /\ pc[c] \in Returning => ~Kept(pos[c] - 1) /\ next[mine[c]] = at[pos[c]]
    /\ pc[c] = "sethead" => seen[c] = at[pos[c]]

(* The tail lags by one node at most, and then its publisher will move it. *)
Swinging(at, t) == pc[t] \in {"swing", "storetail"} /\ mine[t] = at[Len(log)]
TailInv(at, n) ==
  /\ tail = At(at, n)
  /\ n = Len(log) \/ (n = Len(log) - 1 /\ \E t \in Threads : Swinging(at, t))

(* A node is in one hand, and none is lost.                                *)
OwnInv(at, stk) ==
  \A t \in Threads : Owning(t) =>
    /\ mine[t] \in Nodes \ heap /\ ~OnStack(stk, mine[t]) /\ ~InList(at, mine[t])
    /\ \A u \in Threads : Owning(u) /\ mine[u] = mine[t] => u = t
PlaceInv(at, stk) ==
  \A m \in Nodes :
    /\ ~(m \in heap /\ OnStack(stk, m)) /\ ~(m \in heap /\ InList(at, m))
    /\ ~(OnStack(stk, m) /\ InList(at, m))
    /\ m \in heap \/ OnStack(stk, m) \/ InList(at, m) \/ \E t \in Threads : Owning(t) /\ m = mine[t]

ValueInv(at) ==
  \A m \in Nodes : value[m] # 0 =>
    InList(at, m) \/ \E t \in Threads : (Filled(t) \/ pc[t] \in Returning) /\ m = mine[t]
FillInv ==
  \A t \in Threads :
    /\ Publishing(t) => msg[t] \in Messages
    /\ Filled(t) => next[mine[t]] = Null /\ refs[mine[t]] = MaxQ /\ value[mine[t]] = msg[t]

(* The free stack.                                                         *)
Below(stk, i) == IF i = 1 THEN Null ELSE stk[i - 1]
StackInv(stk) ==
  /\ top = Below(stk, Len(stk) + 1)
  /\ \A i \in 1..Len(stk) : next[stk[i]] = Below(stk, i)
  /\ \A i, j \in 1..Len(stk) : stk[i] = stk[j] => i = j
PushInv == \A t \in Threads : pc[t] = "pushcas" => next[mine[t]] = assumed[t]

(* What a popping thread has read stays right while the node is on the     *)
(* stack, and a node that has left the stack cannot come back before this  *)
(* thread has read it as a consumer.                                       *)
PopInv(at, stk) ==
  \A t \in Threads : pc[t] \in {"pop", "popcas"} =>
    /\ pc[t] = "popcas" => assumed[t] # Null
    /\ \/ assumed[t] = Null \/ OnStack(stk, assumed[t])
       \/ \E u \in Threads : pc[u] \in Filling /\ mine[u] = assumed[t]
       \/ \E k \in pos[t] + 1..Len(log) : at[k] = assumed[t]
    /\ pc[t] = "popcas" =>
         \A i \in 1..Len(stk) : stk[i] = assumed[t] => seen[t] = Below(stk, i)

(* The tail a publisher has read is not behind its own position, so it is  *)
(* still in the list.                                                      *)
AppendInv(at, n) ==
  \A t \in Threads : pc[t] \in {"next", "check", "help", "link", "swing"} =>
    \E j \in pos[t]..n :
      /\ assumed[t] = At(at, j)
      /\ pc[t] = "check" => seen[t] = Null \/ (j < Len(log) /\ seen[t] = at[j + 1])
      /\ pc[t] = "help"  => j < Len(log) /\ seen[t] = at[j + 1]
      /\ pc[t] = "swing" => j < Len(log) /\ mine[t] = at[j + 1]

(* unsafe_publish is alone.                                                *)
AloneInv(at, n) ==
  /\ alone # Null => Publishing(alone) /\ \A t \in Threads : Publishing(t) => t = alone
  /\ \A t \in Threads :
       /\ pc[t] \in {"store", "storetail"} => alone = t
       /\ pc[t] \in {"tail", "next", "check", "help", "link", "swing"} => alone # t
       /\ pc[t] = "storetail" => n = Len(log) - 1 /\ mine[t] = at[Len(log)]

ListInv(at, stk, n) ==
  /\ Shape(at, stk, n) /\ NodeInv(at) /\ FirstInv(at) /\ ReaderInv(at, n) /\ TailInv(at, n)
  /\ OwnInv(at, stk) /\ PlaceInv(at, stk) /\ ValueInv(at) /\ FillInv
  /\ StackInv(stk) /\ PushInv /\ PopInv(at, stk) /\ AppendInv(at, n) /\ AloneInv(at, n)

Typed ==
  /\ TypeOK /\ sent \in 0..MaxMsgs /\ closed \in BOOLEAN
  /\ \A t \in Threads : pc[t] = "pushlink" => assumed[t] # Sentinel
Dropped == Quiet /\ heap = Nodes /\ \A m \in Nodes : value[m] = 0
Listed == \E at \in Seq(Nodes), stk \in Seq(Nodes), n \in Nat : ListInv(at, stk, n)
QueueInv == Typed /\ (closed => Dropped) /\ (~closed => Listed)

(***************************************************************************)
(* One state.                                                              *)
(***************************************************************************)
LEMMA ThreadsRead == ASSUME ProducersRead PROVE Threads = Consumers
  BY DEF Threads, ProducersRead

LEMMA Sizes ==
  ASSUME Typed
  PROVE  /\ Len(log) \in Nat /\ \A c \in Consumers : pos[c] \in Nat /\ Released(c) \in Int
         /\ \A c \in Consumers : pos[c] > 0 => Released(c) < pos[c]
         /\ \A c \in Consumers : pos[c] = 0 => Released(c) = 0
  BY DEF Typed, TypeOK, Released

(* What a consumer has not reached, and what it has read last, is kept. *)
LEMMA KeptAhead ==
  ASSUME Typed, NEW c \in Consumers, NEW k \in Nat, k > 0, pos[c] <= k, k <= Len(log)
  PROVE  Kept(k)
<1>1. Released(c) < k
  BY Sizes
<1> QED
  BY <1>1, Sizes DEF Kept, Readers

LEMMA KeptUp ==
  ASSUME Typed, NEW j \in Nat, NEW k \in Nat, Kept(j), j <= k, k <= Len(log)
  PROVE  Kept(k)
<1>1. PICK c \in Consumers : Released(c) < j
  BY DEF Kept, Readers
<1>2. Released(c) < k /\ j \in 1..Len(log)
  BY <1>1, Sizes DEF Kept
<1> QED
  BY <1>2, Sizes DEF Kept, Readers

(* While a consumer has read nothing, nothing is returned, and the         *)
(* sentinel points to the first node.                                      *)
LEMMA NobodyReturns ==
  ASSUME NEW at, NEW n, Typed, ReaderInv(at, n), n \in 0..Len(log),
         NEW d \in Consumers, pos[d] = 0
  PROVE  \A c \in Consumers : pc[c] \notin Returning
<1> SUFFICES ASSUME NEW c \in Consumers, pc[c] \in Returning PROVE FALSE
  OBVIOUS
<1>1. pos[c] >= 2 /\ pos[c] <= n /\ ~Kept(pos[c] - 1) /\ pos[c] \in Nat
  BY Sizes DEF ReaderInv
<1>2. Kept(pos[c] - 1)
  BY <1>1, KeptAhead, Sizes
<1> QED
  BY <1>1, <1>2

LEMMA NextAt ==
  ASSUME NEW at, NEW stk, NEW n, Typed, Shape(at, stk, n), NodeInv(at), FirstInv(at), ReaderInv(at, n),
         NEW c \in Consumers, NEW j \in Nat, pos[c] <= j, j <= Len(log)
  PROVE  next[At(at, j)] = IF j < Len(log) THEN at[j + 1] ELSE Null
<1>1. CASE j > 0
  <2>1. Kept(j)
    BY <1>1, KeptAhead
  <2>2. At(at, j) = at[j]
    BY <1>1 DEF At
  <2> QED
    BY <2>1, <2>2 DEF NodeInv
<1>2. CASE j = 0 /\ Len(log) = 0
  BY <1>2 DEF At, FirstInv
<1>3. CASE j = 0 /\ Len(log) > 0
  <2>1. pos[c] = 0 /\ n \in 0..Len(log)
    BY <1>3, Sizes DEF Shape
  <2>2. PICK k \in Nat : Kept(k) /\ ~Kept(k - 1) /\ next[Sentinel] = at[k]
    BY <1>3, <2>1, NobodyReturns DEF FirstInv
  <2>3. k \in 1..Len(log)
    BY <2>2 DEF Kept
  <2>4. k = 1
    <3> SUFFICES ASSUME k # 1 PROVE FALSE
      OBVIOUS
    <3>1. Kept(k - 1)
      BY <2>1, <2>3, KeptAhead, Sizes
    <3> QED
      BY <3>1, <2>2
  <2> QED
    BY <1>3, <2>2, <2>4 DEF At
<1> QED
  BY <1>1, <1>2, <1>3, Sizes

LEMMA AtOnce ==
  ASSUME NEW at, NEW stk, NEW n, Typed, Shape(at, stk, n), NodeInv(at),
         NEW c \in Consumers, NEW i \in Nat, NEW j \in Nat,
         pos[c] <= i, i <= Len(log), pos[c] <= j, j <= Len(log), At(at, i) = At(at, j)
  PROVE  i = j
<1>1. \A k \in 1..Len(log) : at[k] \in Nodes
  BY DEF Shape
<1>2. i > 0 => Kept(i) /\ At(at, i) \in Nodes
  BY <1>1, KeptAhead, Sizes DEF At
<1>3. j > 0 => Kept(j) /\ At(at, j) \in Nodes
  BY <1>1, KeptAhead, Sizes DEF At
<1>4. CASE i > 0 /\ j > 0
  <2>1. at[i] = at[j]
    BY <1>4 DEF At
  <2> QED
    BY <1>2, <1>3, <1>4, <2>1 DEF NodeInv
<1>5. CASE i = 0 \/ j = 0
  BY <1>2, <1>3, <1>5, QueueAssumption DEF At
<1> QED
  BY <1>4, <1>5

(***************************************************************************)
(* Steps that leave the shared memory and the ownership of nodes alone.    *)
(***************************************************************************)
SameRoles ==
  \A u \in Threads :
    /\ Owning(u)' = Owning(u) /\ Filled(u)' = Filled(u)
    /\ (pc'[u] \in Returning) = (pc[u] \in Returning)
    /\ (pc'[u] = "release") = (pc[u] = "release")
    /\ (pc'[u] \in Filling) = (pc[u] \in Filling)
    /\ (pc'[u] \in {"swing", "storetail"}) = (pc[u] \in {"swing", "storetail"})

LEMMA SameKept ==
  ASSUME pos' = pos, log' = log, \A c \in Consumers : (pc'[c] = "release") = (pc[c] = "release")
  PROVE  /\ \A c \in Consumers : Released(c)' = Released(c)
         /\ \A k : Readers(k)' = Readers(k) /\ Kept(k)' = Kept(k)
         /\ \A at, m : InList(at, m)' = InList(at, m)
<1>1. \A c \in Consumers : Released(c)' = Released(c)
  BY DEF Released
<1>2. \A k : Readers(k)' = Readers(k)
  BY <1>1 DEF Readers
<1>3. \A k : Kept(k)' = Kept(k)
  BY <1>2 DEF Kept
<1> QED
  BY <1>1, <1>2, <1>3 DEF InList

LEMMA LocalStep ==
  ASSUME NEW at, NEW stk, NEW n, Typed, ListInv(at, stk, n), SameRoles,
         UNCHANGED <<next, refs, value, tail, top, heap, id, mine, log, pos>>
  PROVE  /\ Shape(at, stk, n)' /\ NodeInv(at)' /\ FirstInv(at)' /\ TailInv(at, n)'
         /\ OwnInv(at, stk)' /\ PlaceInv(at, stk)' /\ ValueInv(at)' /\ StackInv(stk)'
<1>0. Consumers \subseteq Threads
  BY DEF Threads
<1>1. /\ \A c \in Consumers : Released(c)' = Released(c)
      /\ \A k : Readers(k)' = Readers(k) /\ Kept(k)' = Kept(k)
      /\ \A m : InList(at, m)' = InList(at, m)
  <2>1. \A c \in Consumers : (pc'[c] = "release") = (pc[c] = "release")
    BY <1>0 DEF SameRoles
  <2> QED
    BY <2>1, SameKept
<1>2. \A m : OnStack(stk, m)' = OnStack(stk, m)
  BY DEF OnStack
<1>3. Shape(at, stk, n)'
  BY DEF ListInv, Shape
<1>4. NodeInv(at)'
  BY <1>1 DEF ListInv, NodeInv
<1>5. FirstInv(at)'
  BY <1>0, <1>1 DEF ListInv, FirstInv, SameRoles
<1>6. TailInv(at, n)'
  BY DEF ListInv, TailInv, SameRoles, Swinging
<1>7. OwnInv(at, stk)'
  BY <1>1, <1>2 DEF ListInv, OwnInv, SameRoles
<1>8. PlaceInv(at, stk)'
  BY <1>1, <1>2 DEF ListInv, PlaceInv, SameRoles
<1>9. ValueInv(at)'
  BY <1>1 DEF ListInv, ValueInv, SameRoles
<1>10. StackInv(stk)'
  BY DEF ListInv, StackInv
<1> QED
  BY <1>3, <1>4, <1>5, <1>6, <1>7, <1>8, <1>9, <1>10

(***************************************************************************)
(* The steps of this kind.                                                 *)
(***************************************************************************)
LEMMA PopNextKeeps ==
  ASSUME NEW at, NEW stk, NEW n, NEW t \in Threads, ProducersRead, Typed, ListInv(at, stk, n), PopNext(t)
  PROVE  ListInv(at, stk, n)'
<1>0. Threads = Consumers
  BY ThreadsRead
<1>1. \A u \in Threads : pc'[u] = IF u = t THEN "popcas" ELSE pc[u]
  BY DEF PopNext, Goto, Typed, TypeOK
<1>2. SameRoles
  BY <1>1 DEF SameRoles, PopNext, Goto, Owning, Filled, Filling, Returning, Pushing
<1>3. UNCHANGED <<next, refs, value, tail, top, heap, id, mine, log, pos>>
  BY DEF PopNext, history, locals
<1>4. /\ Shape(at, stk, n)' /\ NodeInv(at)' /\ FirstInv(at)' /\ TailInv(at, n)'
      /\ OwnInv(at, stk)' /\ PlaceInv(at, stk)' /\ ValueInv(at)' /\ StackInv(stk)'
  BY <1>2, <1>3, LocalStep
<1>5. \A c \in Consumers : Released(c)' = Released(c)
  BY <1>0, <1>2, <1>3, SameKept DEF SameRoles
<1>6. \A k : Kept(k)' = Kept(k)
  BY <1>0, <1>2, <1>3, SameKept DEF SameRoles
<1>7. ReaderInv(at, n)'
  BY <1>0, <1>1, <1>3, <1>6 DEF ListInv, ReaderInv, PopNext, Goto, Returning, At
<1>8. FillInv'
  BY <1>1, <1>2, <1>3 DEF ListInv, FillInv, SameRoles, Publishing, PopNext, Goto
<1>9. PushInv'
  BY <1>1, <1>3 DEF ListInv, PushInv, PopNext, Goto
<1>10. PopInv(at, stk)'
  <2>1. t \in Threads /\ assumed' = assumed /\ pos' = pos /\ log' = log /\ seen'[t] = next[assumed[t]]
        /\ \A u \in Threads \ {t} : seen'[u] = seen[u]
    BY <1>3 DEF PopNext, Typed, TypeOK
  <2>2. \A i \in 1..Len(stk) : stk[i] = assumed[t] => seen'[t] = Below(stk, i)
    BY <2>1 DEF ListInv, StackInv
  <2>3. pc[t] = "pop" /\ assumed[t] # Null
    BY DEF PopNext, Goto
  <2>4. \A u \in Threads : (pc'[u] \in Filling) = (pc[u] \in Filling)
    BY <1>2 DEF SameRoles
  <2> QED
    BY <1>1, <1>3, <2>1, <2>2, <2>3, <2>4 DEF ListInv, PopInv, OnStack
<1>11. AppendInv(at, n)'
  BY <1>1, <1>3 DEF ListInv, AppendInv, PopNext, Goto, At
<1>12. AloneInv(at, n)'
  BY <1>1, <1>3 DEF ListInv, AloneInv, Publishing, PopNext, Goto, counts
<1> QED
  BY <1>4, <1>7, <1>8, <1>9, <1>10, <1>11, <1>12 DEF ListInv

LEMMA PopFailsKeeps ==
  ASSUME NEW at, NEW stk, NEW n, NEW t \in Threads, ProducersRead, Typed, ListInv(at, stk, n), PopFails(t)
  PROVE  ListInv(at, stk, n)'
<1>0. Threads = Consumers
  BY ThreadsRead
<1>1. \A u \in Threads : pc'[u] = IF u = t THEN "pop" ELSE pc[u]
  BY DEF PopFails, Goto, Typed, TypeOK
<1>2. SameRoles
  BY <1>1 DEF SameRoles, PopFails, Goto, Owning, Filled, Filling, Returning, Pushing
<1>3. UNCHANGED <<next, refs, value, tail, top, heap, id, mine, log, pos>>
  BY DEF PopFails, history, locals
<1>4. /\ Shape(at, stk, n)' /\ NodeInv(at)' /\ FirstInv(at)' /\ TailInv(at, n)'
      /\ OwnInv(at, stk)' /\ PlaceInv(at, stk)' /\ ValueInv(at)' /\ StackInv(stk)'
  BY <1>2, <1>3, LocalStep
<1>5. \A c \in Consumers : Released(c)' = Released(c)
  BY <1>0, <1>2, <1>3, SameKept DEF SameRoles
<1>6. \A k : Kept(k)' = Kept(k)
  BY <1>0, <1>2, <1>3, SameKept DEF SameRoles
<1>7. ReaderInv(at, n)'
  BY <1>0, <1>1, <1>3, <1>6 DEF ListInv, ReaderInv, PopFails, Goto, Returning, At
<1>8. FillInv'
  BY <1>1, <1>2, <1>3 DEF ListInv, FillInv, SameRoles, Publishing, PopFails, Goto
<1>9. PushInv'
  BY <1>1, <1>3 DEF ListInv, PushInv, PopFails, Goto
<1>10. PopInv(at, stk)'
  <2>1. t \in Threads /\ seen' = seen /\ pos' = pos /\ log' = log /\ mine' = mine /\ assumed'[t] = top
        /\ \A u \in Threads \ {t} : assumed'[u] = assumed[u]
    BY <1>3 DEF PopFails, Typed, TypeOK
  <2>2. top = Null \/ OnStack(stk, top)
    BY DEF ListInv, Shape, StackInv, Below, OnStack
  <2>4. \A u \in Threads : (pc'[u] \in Filling) = (pc[u] \in Filling)
    BY <1>2 DEF SameRoles
  <2> QED
    BY <1>1, <2>1, <2>2, <2>4 DEF ListInv, PopInv, OnStack
<1>11. AppendInv(at, n)'
  BY <1>1, <1>3 DEF ListInv, AppendInv, PopFails, Goto, At
<1>12. AloneInv(at, n)'
  BY <1>1, <1>3 DEF ListInv, AloneInv, Publishing, PopFails, Goto, counts
<1> QED
  BY <1>4, <1>7, <1>8, <1>9, <1>10, <1>11, <1>12 DEF ListInv

LEMMA PushLoadKeeps ==
  ASSUME NEW at, NEW stk, NEW n, NEW t \in Threads, ProducersRead, Typed, ListInv(at, stk, n), PushLoad(t)
  PROVE  ListInv(at, stk, n)'
<1>0. Threads = Consumers
  BY ThreadsRead
<1>1. \A u \in Threads : pc'[u] = IF u = t THEN "pushlink" ELSE pc[u]
  BY DEF PushLoad, Goto, Typed, TypeOK
<1>2. SameRoles
  BY <1>1 DEF SameRoles, PushLoad, Goto, Owning, Filled, Filling, Returning, Pushing
<1>3. UNCHANGED <<next, refs, value, tail, top, heap, id, mine, log, pos>>
  BY DEF PushLoad, history, locals
<1>4. /\ Shape(at, stk, n)' /\ NodeInv(at)' /\ FirstInv(at)' /\ TailInv(at, n)'
      /\ OwnInv(at, stk)' /\ PlaceInv(at, stk)' /\ ValueInv(at)' /\ StackInv(stk)'
  BY <1>2, <1>3, LocalStep
<1>5. \A c \in Consumers : Released(c)' = Released(c)
  BY <1>0, <1>2, <1>3, SameKept DEF SameRoles
<1>6. \A k : Kept(k)' = Kept(k)
  BY <1>0, <1>2, <1>3, SameKept DEF SameRoles
<1>7. ReaderInv(at, n)'
  BY <1>0, <1>1, <1>3, <1>6 DEF ListInv, ReaderInv, PushLoad, Goto, Returning, At
<1>8. FillInv'
  BY <1>1, <1>2, <1>3 DEF ListInv, FillInv, SameRoles, Publishing, PushLoad, Goto
<1>9. PushInv'
  BY <1>1, <1>3 DEF ListInv, PushInv, PushLoad, Goto
<1>10. PopInv(at, stk)'
  BY <1>1, <1>2, <1>3 DEF ListInv, PopInv, OnStack, SameRoles, PushLoad, Goto
<1>11. AppendInv(at, n)'
  BY <1>1, <1>3 DEF ListInv, AppendInv, PushLoad, Goto, At
<1>12. AloneInv(at, n)'
  BY <1>1, <1>3 DEF ListInv, AloneInv, Publishing, PushLoad, Goto, counts
<1> QED
  BY <1>4, <1>7, <1>8, <1>9, <1>10, <1>11, <1>12 DEF ListInv

LEMMA PushFailsKeeps ==
  ASSUME NEW at, NEW stk, NEW n, NEW t \in Threads, ProducersRead, Typed, ListInv(at, stk, n), PushFails(t)
  PROVE  ListInv(at, stk, n)'
<1>0. Threads = Consumers
  BY ThreadsRead
<1>1. \A u \in Threads : pc'[u] = IF u = t THEN "pushlink" ELSE pc[u]
  BY DEF PushFails, Goto, Typed, TypeOK
<1>2. SameRoles
  BY <1>1 DEF SameRoles, PushFails, Goto, Owning, Filled, Filling, Returning, Pushing
<1>3. UNCHANGED <<next, refs, value, tail, top, heap, id, mine, log, pos>>
  BY DEF PushFails, history, locals
<1>4. /\ Shape(at, stk, n)' /\ NodeInv(at)' /\ FirstInv(at)' /\ TailInv(at, n)'
      /\ OwnInv(at, stk)' /\ PlaceInv(at, stk)' /\ ValueInv(at)' /\ StackInv(stk)'
  BY <1>2, <1>3, LocalStep
<1>5. \A c \in Consumers : Released(c)' = Released(c)
  BY <1>0, <1>2, <1>3, SameKept DEF SameRoles
<1>6. \A k : Kept(k)' = Kept(k)
  BY <1>0, <1>2, <1>3, SameKept DEF SameRoles
<1>7. ReaderInv(at, n)'
  BY <1>0, <1>1, <1>3, <1>6 DEF ListInv, ReaderInv, PushFails, Goto, Returning, At
<1>8. FillInv'
  BY <1>1, <1>2, <1>3 DEF ListInv, FillInv, SameRoles, Publishing, PushFails, Goto
<1>9. PushInv'
  BY <1>1, <1>3 DEF ListInv, PushInv, PushFails, Goto
<1>10. PopInv(at, stk)'
  BY <1>1, <1>2, <1>3 DEF ListInv, PopInv, OnStack, SameRoles, PushFails, Goto
<1>11. AppendInv(at, n)'
  BY <1>1, <1>3 DEF ListInv, AppendInv, PushFails, Goto, At
<1>12. AloneInv(at, n)'
  BY <1>1, <1>3 DEF ListInv, AloneInv, Publishing, PushFails, Goto, counts
<1> QED
  BY <1>4, <1>7, <1>8, <1>9, <1>10, <1>11, <1>12 DEF ListInv

LEMMA LoadTailKeeps ==
  ASSUME NEW at, NEW stk, NEW n, NEW t \in Threads, ProducersRead, Typed, ListInv(at, stk, n), LoadTail(t)
  PROVE  ListInv(at, stk, n)'
<1>0. Threads = Consumers
  BY ThreadsRead
<1>1. \A u \in Threads : pc'[u] = IF u = t THEN "next" ELSE pc[u]
  BY DEF LoadTail, Goto, Typed, TypeOK
<1>2. SameRoles
  BY <1>1 DEF SameRoles, LoadTail, Goto, Owning, Filled, Filling, Returning, Pushing
<1>3. UNCHANGED <<next, refs, value, tail, top, heap, id, mine, log, pos>>
  BY DEF LoadTail, history, locals
<1>4. /\ Shape(at, stk, n)' /\ NodeInv(at)' /\ FirstInv(at)' /\ TailInv(at, n)'
      /\ OwnInv(at, stk)' /\ PlaceInv(at, stk)' /\ ValueInv(at)' /\ StackInv(stk)'
  BY <1>2, <1>3, LocalStep
<1>5. \A c \in Consumers : Released(c)' = Released(c)
  BY <1>0, <1>2, <1>3, SameKept DEF SameRoles
<1>6. \A k : Kept(k)' = Kept(k)
  BY <1>0, <1>2, <1>3, SameKept DEF SameRoles
<1>7. ReaderInv(at, n)'
  BY <1>0, <1>1, <1>3, <1>6 DEF ListInv, ReaderInv, LoadTail, Goto, Returning, At
<1>8. FillInv'
  BY <1>1, <1>2, <1>3 DEF ListInv, FillInv, SameRoles, Publishing, LoadTail, Goto
<1>9. PushInv'
  BY <1>1, <1>3 DEF ListInv, PushInv, LoadTail, Goto
<1>10. PopInv(at, stk)'
  BY <1>1, <1>2, <1>3 DEF ListInv, PopInv, OnStack, SameRoles, LoadTail, Goto
<1>11. AppendInv(at, n)'
  <2>1. assumed'[t] = tail /\ \A u \in Threads \ {t} : assumed'[u] = assumed[u]
    BY DEF LoadTail, Typed, TypeOK
  <2>2. pos[t] \in Nat /\ n \in Nat /\ pos[t] <= n /\ tail = At(at, n)
    BY <1>0, Sizes DEF ListInv, ReaderInv, TailInv, Shape
  <2> QED
    BY <1>1, <1>3, <2>1, <2>2 DEF ListInv, AppendInv, At, LoadTail
<1>12. AloneInv(at, n)'
  BY <1>1, <1>3 DEF ListInv, AloneInv, Publishing, LoadTail, Goto, counts
<1> QED
  BY <1>4, <1>7, <1>8, <1>9, <1>10, <1>11, <1>12 DEF ListInv

LEMMA LoadNextKeeps ==
  ASSUME NEW at, NEW stk, NEW n, NEW t \in Threads, ProducersRead, Typed, ListInv(at, stk, n), LoadNext(t)
  PROVE  ListInv(at, stk, n)'
<1>0. Threads = Consumers
  BY ThreadsRead
<1>1. \A u \in Threads : pc'[u] = IF u = t THEN "check" ELSE pc[u]
  BY DEF LoadNext, Goto, Typed, TypeOK
<1>2. SameRoles
  BY <1>1 DEF SameRoles, LoadNext, Goto, Owning, Filled, Filling, Returning, Pushing
<1>3. UNCHANGED <<next, refs, value, tail, top, heap, id, mine, log, pos>>
  BY DEF LoadNext, history, locals
<1>4. /\ Shape(at, stk, n)' /\ NodeInv(at)' /\ FirstInv(at)' /\ TailInv(at, n)'
      /\ OwnInv(at, stk)' /\ PlaceInv(at, stk)' /\ ValueInv(at)' /\ StackInv(stk)'
  BY <1>2, <1>3, LocalStep
<1>5. \A c \in Consumers : Released(c)' = Released(c)
  BY <1>0, <1>2, <1>3, SameKept DEF SameRoles
<1>6. \A k : Kept(k)' = Kept(k)
  BY <1>0, <1>2, <1>3, SameKept DEF SameRoles
<1>7. ReaderInv(at, n)'
  BY <1>0, <1>1, <1>3, <1>6 DEF ListInv, ReaderInv, LoadNext, Goto, Returning, At
<1>8. FillInv'
  BY <1>1, <1>2, <1>3 DEF ListInv, FillInv, SameRoles, Publishing, LoadNext, Goto
<1>9. PushInv'
  BY <1>1, <1>3 DEF ListInv, PushInv, LoadNext, Goto
<1>10. PopInv(at, stk)'
  BY <1>1, <1>2, <1>3 DEF ListInv, PopInv, OnStack, SameRoles, LoadNext, Goto
<1>11. AppendInv(at, n)'
  <2>1. seen'[t] = next[assumed[t]] /\ assumed' = assumed /\ \A u \in Threads \ {t} : seen'[u] = seen[u]
    BY DEF LoadNext, Typed, TypeOK
  <2>2. PICK j \in pos[t]..n : assumed[t] = At(at, j)
    BY DEF ListInv, AppendInv, LoadNext, Goto
  <2>3. j \in Nat /\ pos[t] <= j /\ j <= Len(log)
    BY <1>0, <2>2, Sizes DEF ListInv, Shape
  <2>4. seen'[t] = IF j < Len(log) THEN at[j + 1] ELSE Null
    BY <1>0, <2>1, <2>2, <2>3, NextAt DEF ListInv
  <2>5. ASSUME NEW u \in Threads \ {t}, pc'[u] \in {"next", "check", "help", "link", "swing"}
        PROVE  \E i \in pos[u]..n :
                 /\ assumed[u] = At(at, i)
                 /\ pc[u] = "check" => seen[u] = Null \/ (i < Len(log) /\ seen[u] = at[i + 1])
                 /\ pc[u] = "help"  => i < Len(log) /\ seen[u] = at[i + 1]
                 /\ pc[u] = "swing" => i < Len(log) /\ mine[u] = at[i + 1]
    BY <1>1, <2>5 DEF ListInv, AppendInv
  <2> QED
    BY <1>1, <1>3, <2>1, <2>2, <2>4, <2>5 DEF AppendInv, At
<1>12. AloneInv(at, n)'
  BY <1>1, <1>3 DEF ListInv, AloneInv, Publishing, LoadNext, Goto, counts
<1> QED
  BY <1>4, <1>7, <1>8, <1>9, <1>10, <1>11, <1>12 DEF ListInv

LEMMA RecheckKeeps ==
  ASSUME NEW at, NEW stk, NEW n, NEW t \in Threads, ProducersRead, Typed, ListInv(at, stk, n), Recheck(t)
  PROVE  ListInv(at, stk, n)'
<1>0. Threads = Consumers
  BY ThreadsRead
<1>1. \A u \in Threads : IF u = t THEN pc[t] = "check" /\ pc'[t] \in {"tail", "help", "link"}
                                 /\ (pc'[t] = "help" => seen[t] # Null)
                       ELSE pc'[u] = pc[u]
  BY DEF Recheck, Goto, Typed, TypeOK
<1>2. SameRoles
  BY <1>1 DEF SameRoles, Recheck, Goto, Owning, Filled, Filling, Returning, Pushing
<1>3. UNCHANGED <<next, refs, value, tail, top, heap, id, mine, log, pos>>
  BY DEF Recheck, history, locals
<1>13. UNCHANGED <<assumed, seen, msg>>
  BY DEF Recheck, locals
<1>4. /\ Shape(at, stk, n)' /\ NodeInv(at)' /\ FirstInv(at)' /\ TailInv(at, n)'
      /\ OwnInv(at, stk)' /\ PlaceInv(at, stk)' /\ ValueInv(at)' /\ StackInv(stk)'
  BY <1>2, <1>3, LocalStep
<1>5. \A c \in Consumers : Released(c)' = Released(c)
  BY <1>0, <1>2, <1>3, SameKept DEF SameRoles
<1>6. \A k : Kept(k)' = Kept(k)
  BY <1>0, <1>2, <1>3, SameKept DEF SameRoles
<1>7. ReaderInv(at, n)'
  BY <1>0, <1>1, <1>3, <1>6, <1>13 DEF ListInv, ReaderInv, Recheck, Goto, Returning, At
<1>8. FillInv'
  BY <1>1, <1>2, <1>3, <1>13 DEF ListInv, FillInv, SameRoles, Publishing, Recheck, Goto
<1>9. PushInv'
  BY <1>1, <1>3, <1>13 DEF ListInv, PushInv, Recheck, Goto
<1>10. PopInv(at, stk)'
  BY <1>1, <1>2, <1>3, <1>13 DEF ListInv, PopInv, OnStack, SameRoles, Recheck, Goto
<1>11. AppendInv(at, n)'
  BY <1>1, <1>3, <1>13 DEF ListInv, AppendInv, Recheck, Goto, At
<1>12. AloneInv(at, n)'
  BY <1>1, <1>3, <1>13 DEF ListInv, AloneInv, Publishing, Recheck, Goto, counts
<1> QED
  BY <1>4, <1>7, <1>8, <1>9, <1>10, <1>11, <1>12 DEF ListInv

LEMMA LinkFailsKeeps ==
  ASSUME NEW at, NEW stk, NEW n, NEW t \in Threads, ProducersRead, Typed, ListInv(at, stk, n), LinkFails(t)
  PROVE  ListInv(at, stk, n)'
<1>0. Threads = Consumers
  BY ThreadsRead
<1>1. \A u \in Threads : pc'[u] = IF u = t THEN "tail" ELSE pc[u]
  BY DEF LinkFails, Goto, Typed, TypeOK
<1>2. SameRoles
  BY <1>1 DEF SameRoles, LinkFails, Goto, Owning, Filled, Filling, Returning, Pushing
<1>3. UNCHANGED <<next, refs, value, tail, top, heap, id, mine, log, pos>>
  BY DEF LinkFails, history, locals
<1>13. UNCHANGED <<assumed, seen, msg>>
  BY DEF LinkFails, locals
<1>4. /\ Shape(at, stk, n)' /\ NodeInv(at)' /\ FirstInv(at)' /\ TailInv(at, n)'
      /\ OwnInv(at, stk)' /\ PlaceInv(at, stk)' /\ ValueInv(at)' /\ StackInv(stk)'
  BY <1>2, <1>3, LocalStep
<1>5. \A c \in Consumers : Released(c)' = Released(c)
  BY <1>0, <1>2, <1>3, SameKept DEF SameRoles
<1>6. \A k : Kept(k)' = Kept(k)
  BY <1>0, <1>2, <1>3, SameKept DEF SameRoles
<1>7. ReaderInv(at, n)'
  BY <1>0, <1>1, <1>3, <1>6, <1>13 DEF ListInv, ReaderInv, LinkFails, Goto, Returning, At
<1>8. FillInv'
  BY <1>1, <1>2, <1>3, <1>13 DEF ListInv, FillInv, SameRoles, Publishing, LinkFails, Goto
<1>9. PushInv'
  BY <1>1, <1>3, <1>13 DEF ListInv, PushInv, LinkFails, Goto
<1>10. PopInv(at, stk)'
  BY <1>1, <1>2, <1>3, <1>13 DEF ListInv, PopInv, OnStack, SameRoles, LinkFails, Goto
<1>11. AppendInv(at, n)'
  BY <1>1, <1>3, <1>13 DEF ListInv, AppendInv, LinkFails, Goto, At
<1>12. AloneInv(at, n)'
  BY <1>1, <1>3, <1>13 DEF ListInv, AloneInv, Publishing, LinkFails, Goto, counts
<1> QED
  BY <1>4, <1>7, <1>8, <1>9, <1>10, <1>11, <1>12 DEF ListInv

LEMMA ConsumeKeeps ==
  ASSUME NEW at, NEW stk, NEW n, NEW t \in Threads, ProducersRead, Typed, ListInv(at, stk, n), Consume(t)
  PROVE  ListInv(at, stk, n)'
<1>0. Threads = Consumers
  BY ThreadsRead
<1>1. \A u \in Threads : pc'[u] = IF u = t THEN "advance" ELSE pc[u]
  BY DEF Consume, Goto, Typed, TypeOK
<1>2. SameRoles
  BY <1>1 DEF SameRoles, Consume, Goto, Owning, Filled, Filling, Returning, Pushing
<1>3. UNCHANGED <<next, refs, value, tail, top, heap, id, mine, log, pos>>
  BY DEF Consume, history, locals
<1>13. UNCHANGED <<assumed, seen, msg>>
  BY DEF Consume, locals
<1>4. /\ Shape(at, stk, n)' /\ NodeInv(at)' /\ FirstInv(at)' /\ TailInv(at, n)'
      /\ OwnInv(at, stk)' /\ PlaceInv(at, stk)' /\ ValueInv(at)' /\ StackInv(stk)'
  BY <1>2, <1>3, LocalStep
<1>5. \A c \in Consumers : Released(c)' = Released(c)
  BY <1>0, <1>2, <1>3, SameKept DEF SameRoles
<1>6. \A k : Kept(k)' = Kept(k)
  BY <1>0, <1>2, <1>3, SameKept DEF SameRoles
<1>7. ReaderInv(at, n)'
  <2>1. seen' = seen /\ pos[t] < n
    BY <1>0, Sizes DEF ListInv, ReaderInv, TailInv, Consume, locals, Shape
  <2> QED
    BY <1>0, <1>1, <1>3, <1>6, <2>1 DEF ListInv, ReaderInv, Returning, At
<1>8. FillInv'
  BY <1>1, <1>2, <1>3, <1>13 DEF ListInv, FillInv, SameRoles, Publishing, Consume, Goto
<1>9. PushInv'
  BY <1>1, <1>3, <1>13 DEF ListInv, PushInv, Consume, Goto
<1>10. PopInv(at, stk)'
  BY <1>1, <1>2, <1>3, <1>13 DEF ListInv, PopInv, OnStack, SameRoles, Consume, Goto
<1>11. AppendInv(at, n)'
  BY <1>1, <1>3, <1>13 DEF ListInv, AppendInv, Consume, Goto, At
<1>12. AloneInv(at, n)'
  BY <1>1, <1>3, <1>13 DEF ListInv, AloneInv, Publishing, Consume, Goto, counts
<1> QED
  BY <1>4, <1>7, <1>8, <1>9, <1>10, <1>11, <1>12 DEF ListInv

LEMMA LastNextKeeps ==
  ASSUME NEW at, NEW stk, NEW n, NEW t \in Threads, ProducersRead, Typed, ListInv(at, stk, n), LastNext(t)
  PROVE  ListInv(at, stk, n)'
<1>0. Threads = Consumers
  BY ThreadsRead
<1>1. \A u \in Threads : pc'[u] = IF u = t THEN "sethead" ELSE pc[u]
  BY DEF LastNext, Goto, Typed, TypeOK
<1>2. SameRoles
  BY <1>1 DEF SameRoles, LastNext, Goto, Owning, Filled, Filling, Returning, Pushing
<1>3. UNCHANGED <<next, refs, value, tail, top, heap, id, mine, log, pos>>
  BY DEF LastNext, history, locals
<1>4. /\ Shape(at, stk, n)' /\ NodeInv(at)' /\ FirstInv(at)' /\ TailInv(at, n)'
      /\ OwnInv(at, stk)' /\ PlaceInv(at, stk)' /\ ValueInv(at)' /\ StackInv(stk)'
  BY <1>2, <1>3, LocalStep
<1>5. \A c \in Consumers : Released(c)' = Released(c)
  BY <1>0, <1>2, <1>3, SameKept DEF SameRoles
<1>6. \A k : Kept(k)' = Kept(k)
  BY <1>0, <1>2, <1>3, SameKept DEF SameRoles
<1>7. ReaderInv(at, n)'
  <2>1. seen'[t] = next[mine[t]] /\ \A u \in Threads \ {t} : seen'[u] = seen[u]
    BY DEF LastNext, Typed, TypeOK
  <2>2. t \in Consumers => next[mine[t]] = at[pos[t]]
    BY DEF ListInv, ReaderInv, LastNext, Goto, Returning
  <2> QED
    BY <1>0, <1>1, <1>3, <1>6, <2>1, <2>2 DEF ListInv, ReaderInv, LastNext, Goto, Returning, At
<1>8. FillInv'
  BY <1>1, <1>2, <1>3 DEF ListInv, FillInv, SameRoles, Publishing, LastNext, Goto
<1>9. PushInv'
  BY <1>1, <1>3 DEF ListInv, PushInv, LastNext, Goto
<1>10. PopInv(at, stk)'
  BY <1>1, <1>2, <1>3 DEF ListInv, PopInv, OnStack, SameRoles, LastNext, Goto
<1>11. AppendInv(at, n)'
  BY <1>1, <1>3 DEF ListInv, AppendInv, LastNext, Goto, At
<1>12. AloneInv(at, n)'
  BY <1>1, <1>3 DEF ListInv, AloneInv, Publishing, LastNext, Goto, counts
<1> QED
  BY <1>4, <1>7, <1>8, <1>9, <1>10, <1>11, <1>12 DEF ListInv

LEMMA StartPublishKeeps ==
  ASSUME NEW at, NEW stk, NEW n, NEW t \in Threads, ProducersRead, Typed, ListInv(at, stk, n), StartPublish(t), Publish(t) \/ UnsafePublish(t)
  PROVE  ListInv(at, stk, n)'
<1>0. Threads = Consumers
  BY ThreadsRead
<1>1. \A u \in Threads : pc'[u] = IF u = t THEN "pop" ELSE pc[u]
  BY DEF StartPublish, Goto, Typed, TypeOK
<1>2. SameRoles
  BY <1>1 DEF SameRoles, StartPublish, Goto, Owning, Filled, Filling, Returning, Pushing
<1>3. UNCHANGED <<next, refs, value, tail, top, heap, id, mine, log, pos>>
  BY DEF StartPublish, history, locals
<1>4. /\ Shape(at, stk, n)' /\ NodeInv(at)' /\ FirstInv(at)' /\ TailInv(at, n)'
      /\ OwnInv(at, stk)' /\ PlaceInv(at, stk)' /\ ValueInv(at)' /\ StackInv(stk)'
  BY <1>2, <1>3, LocalStep
<1>5. \A c \in Consumers : Released(c)' = Released(c)
  BY <1>0, <1>2, <1>3, SameKept DEF SameRoles
<1>6. \A k : Kept(k)' = Kept(k)
  BY <1>0, <1>2, <1>3, SameKept DEF SameRoles
<1>7. ReaderInv(at, n)'
  BY <1>0, <1>1, <1>3, <1>6 DEF ListInv, ReaderInv, StartPublish, Goto, Returning, At
<1>8. FillInv'
  <2>1. msg'[t] \in Messages /\ \A u \in Threads \ {t} : msg'[u] = msg[u]
    <3>1. msg' = [msg EXCEPT ![t] = sent + 1] /\ sent + 1 \in Messages
      BY QueueAssumption DEF StartPublish, Typed, Messages
    <3> QED
      BY <3>1 DEF Typed, TypeOK
  <2>2. ~Filled(t)' /\ \A u \in Threads : Filled(u)' = Filled(u)
    BY <1>1, <1>2 DEF SameRoles, Filled, Filling
  <2> QED
    BY <1>1, <1>3, <2>1, <2>2 DEF ListInv, FillInv, Publishing
<1>9. PushInv'
  BY <1>1, <1>3 DEF ListInv, PushInv, StartPublish, Goto
<1>10. PopInv(at, stk)'
  <2>1. t \in Threads /\ seen' = seen /\ pos' = pos /\ log' = log /\ mine' = mine /\ assumed'[t] = top
        /\ \A u \in Threads \ {t} : assumed'[u] = assumed[u]
    BY <1>3 DEF StartPublish, Typed, TypeOK
  <2>2. top = Null \/ OnStack(stk, top)
    BY DEF ListInv, Shape, StackInv, Below, OnStack
  <2>4. \A u \in Threads : (pc'[u] \in Filling) = (pc[u] \in Filling)
    BY <1>2 DEF SameRoles
  <2> QED
    BY <1>1, <2>1, <2>2, <2>4 DEF ListInv, PopInv, OnStack
<1>11. AppendInv(at, n)'
  BY <1>1, <1>3 DEF ListInv, AppendInv, StartPublish, Goto, At
<1>12. AloneInv(at, n)'
  <2>1. t # Null
    BY QueueAssumption DEF StartPublish
  <2>2. CASE alone' = Null
    BY <1>1, <1>3, <2>2 DEF ListInv, AloneInv, StartPublish
  <2>3. CASE alone' = t /\ \A u \in Threads : ~Publishing(u)
    BY <1>1, <1>3, <2>3 DEF ListInv, AloneInv, StartPublish, Publishing
  <2> QED
    BY <2>2, <2>3 DEF StartPublish, Publish, UnsafePublish
<1> QED
  BY <1>4, <1>7, <1>8, <1>9, <1>10, <1>11, <1>12 DEF ListInv

(***************************************************************************)
(* Steps that move nodes between the free stack, the heap and a thread.    *)
(***************************************************************************)
SameReaders ==
  /\ UNCHANGED <<pos, log>>
  /\ \A u \in Threads : /\ (pc'[u] = "release") = (pc[u] = "release")
                        /\ (pc'[u] \in Returning) = (pc[u] \in Returning)
                        /\ (pc'[u] \in {"swing", "storetail"}) = (pc[u] \in {"swing", "storetail"})
                        /\ pc[u] \in {"swing", "storetail"} => mine'[u] = mine[u]
LEMMA ListStep ==
  ASSUME NEW at, NEW stk, NEW n, Typed, ListInv(at, stk, n), SameReaders, UNCHANGED tail,
         next'[Sentinel] = next[Sentinel],
         \A m : InList(at, m) => next'[m] = next[m] /\ refs'[m] = refs[m] /\ value'[m] = value[m]
  PROVE  /\ NodeInv(at)' /\ FirstInv(at)' /\ TailInv(at, n)'
         /\ \A k : Kept(k)' = Kept(k)
         /\ \A m : InList(at, m)' = InList(at, m)
<1>0. Consumers \subseteq Threads
  BY DEF Threads
<1>1. /\ \A k : Readers(k)' = Readers(k) /\ Kept(k)' = Kept(k)
      /\ \A m : InList(at, m)' = InList(at, m)
  BY <1>0, SameKept DEF SameReaders
<1>2. \A k \in Nat : Kept(k) => InList(at, at[k])
  BY DEF InList
<1>3. NodeInv(at)'
  BY <1>1, <1>2 DEF ListInv, NodeInv, SameReaders
<1>4. FirstInv(at)'
  BY <1>0, <1>1 DEF ListInv, FirstInv, SameReaders
<1>5. TailInv(at, n)'
  BY DEF ListInv, TailInv, SameReaders, Swinging
<1> QED
  BY <1>1, <1>3, <1>4, <1>5

LEMMA ShortenSeq ==
  ASSUME NEW s \in Seq(Nodes), Len(s) > 0
  PROVE  /\ SubSeq(s, 1, Len(s) - 1) \in Seq(Nodes) /\ Len(SubSeq(s, 1, Len(s) - 1)) = Len(s) - 1
         /\ \A i \in 1..Len(s) - 1 : SubSeq(s, 1, Len(s) - 1)[i] = s[i]
<1>1. PICK k \in Nat : k = Len(s) - 1
  OBVIOUS
<1>2. \A i \in 1..k : s[i] \in Nodes
  BY <1>1
<1>3. /\ SubSeq(s, 1, k) \in Seq(Nodes) /\ Len(SubSeq(s, 1, k)) = IF 1 <= k THEN k - 1 + 1 ELSE 0
      /\ \A i \in 1..k - 1 + 1 : SubSeq(s, 1, k)[i] = s[1 + i - 1]
  BY <1>2, SubSeqProperties
<1>4. k - 1 + 1 = k /\ \A i \in 1..k : 1 + i - 1 = i
  OBVIOUS
<1>5. Len(SubSeq(s, 1, k)) = k /\ \A i \in 1..k : SubSeq(s, 1, k)[i] = s[i]
  BY <1>3, <1>4
<1> QED
  BY <1>1, <1>3, <1>5

LEMMA AppendSeq ==
  ASSUME NEW S, NEW s \in Seq(S), NEW m \in S
  PROVE  /\ Append(s, m) \in Seq(S) /\ Len(Append(s, m)) = Len(s) + 1
         /\ \A i \in 1..Len(s) : Append(s, m)[i] = s[i]
         /\ Append(s, m)[Len(s) + 1] = m
  OBVIOUS

LEMMA PopKeeps ==
  ASSUME NEW at, NEW stk, NEW n, NEW t \in Threads, ProducersRead, Typed, ListInv(at, stk, n), Pop(t)
  PROVE  \E st \in Seq(Nodes) : ListInv(at, st, n)'
<1> DEFINE st == SubSeq(stk, 1, Len(stk) - 1)
<1>0. Threads = Consumers
  BY ThreadsRead
<1>1. /\ pc[t] = "popcas" /\ pc'[t] = "fill" /\ mine'[t] = assumed[t] /\ top = assumed[t] /\ top' = seen[t]
      /\ \A u \in Threads \ {t} : pc'[u] = pc[u] /\ mine'[u] = mine[u]
      /\ UNCHANGED <<next, refs, value, tail, heap, id, assumed, seen, msg, pos, log, alone>>
  BY DEF Pop, Goto, Typed, TypeOK, history, counts
<1>2. /\ Len(stk) \in Nat \ {0} /\ assumed[t] = stk[Len(stk)] /\ seen[t] = Below(stk, Len(stk))
      /\ assumed[t] \in Nodes
  <2>1. Len(stk) \in Nat /\ top = Below(stk, Len(stk) + 1) /\ assumed[t] # Null
    BY <1>1 DEF ListInv, Shape, StackInv, PopInv
  <2>2. Len(stk) > 0 /\ assumed[t] = stk[Len(stk)]
    BY <1>1, <2>1 DEF Below
  <2>3. Len(stk) \in 1..Len(stk)
    BY <2>1, <2>2
  <2>4. seen[t] = Below(stk, Len(stk))
    BY <1>1, <2>2, <2>3 DEF ListInv, PopInv
  <2> QED
    BY <2>1, <2>2, <2>3, <2>4 DEF ListInv, Shape
<1>3. st \in Seq(Nodes) /\ Len(st) = Len(stk) - 1 /\ \A i \in 1..Len(stk) - 1 : st[i] = stk[i]
  BY <1>2, ShortenSeq DEF ListInv, Shape
<1> HIDE DEF st
<1>4. \A m : OnStack(st, m) <=> OnStack(stk, m) /\ m # assumed[t]
  BY <1>2, <1>3 DEF OnStack, ListInv, StackInv
<1>5. OnStack(stk, assumed[t])
  BY <1>2 DEF OnStack
<1>6. SameReaders
  BY <1>1 DEF SameReaders, Returning
<1>7. /\ NodeInv(at)' /\ FirstInv(at)' /\ TailInv(at, n)'
      /\ \A k : Kept(k)' = Kept(k)
      /\ \A m : InList(at, m)' = InList(at, m)
  BY <1>1, <1>6, ListStep
<1>8. Shape(at, st, n)'
  BY <1>1, <1>3 DEF ListInv, Shape
<1>9. ReaderInv(at, n)'
  BY <1>0, <1>1, <1>7 DEF ListInv, ReaderInv, Returning
<1>10. \A u \in Threads : u # t => Owning(u)' = Owning(u) /\ (Filled(u))' = Filled(u)
  BY <1>1 DEF Owning, Filled
<1>11. ~Owning(t) /\ ~Filled(t) /\ Owning(t)' /\ ~Filled(t)'
  BY <1>1 DEF Owning, Filled, Filling, Returning, Pushing
<1>12. OwnInv(at, st)'
  BY <1>1, <1>2, <1>4, <1>5, <1>7, <1>10, <1>11 DEF ListInv, OwnInv, PlaceInv
<1>13. PlaceInv(at, st)'
  BY <1>1, <1>2, <1>4, <1>5, <1>7, <1>10, <1>11 DEF ListInv, PlaceInv
<1>14. ValueInv(at)'
  BY <1>1, <1>7, <1>10, <1>11 DEF ListInv, ValueInv, Returning
<1>15. FillInv'
  BY <1>1, <1>10, <1>11 DEF ListInv, FillInv, Publishing
<1>16. StackInv(st)'
  BY <1>1, <1>2, <1>3 DEF ListInv, StackInv, Below
<1>17. PushInv'
  BY <1>1 DEF ListInv, PushInv
<1>18. PopInv(at, st)'
  <2> SUFFICES ASSUME NEW u \in Threads, pc'[u] \in {"pop", "popcas"}
               PROVE  /\ pc[u] = "popcas" => assumed[u] # Null
                      /\ \/ assumed[u] = Null \/ OnStack(st, assumed[u])
                         \/ \E w \in Threads : pc'[w] \in Filling /\ mine'[w] = assumed[u]
                         \/ \E k \in pos[u] + 1..Len(log) : at[k] = assumed[u]
                      /\ pc[u] = "popcas" =>
                           \A i \in 1..Len(st) : st[i] = assumed[u] => seen[u] = Below(st, i)
    BY <1>1 DEF PopInv, OnStack
  <2>1. u # t /\ pc[u] \in {"pop", "popcas"}
    BY <1>1
  <2>2. \A i \in 1..Len(st) : i \in 1..Len(stk) /\ Below(st, i) = Below(stk, i) /\ st[i] = stk[i]
    BY <1>2, <1>3 DEF Below
  <2>3. OnStack(stk, assumed[u]) => OnStack(st, assumed[u]) \/ (pc'[t] \in Filling /\ mine'[t] = assumed[u])
    BY <1>1, <1>4 DEF Filling
  <2>4. \A w \in Threads : pc[w] \in Filling => pc'[w] \in Filling /\ mine'[w] = mine[w]
    BY <1>1 DEF Filling
  <2> QED
    BY <2>1, <2>2, <2>3, <2>4 DEF ListInv, PopInv
<1>19. AppendInv(at, n)'
  BY <1>1 DEF ListInv, AppendInv
<1>20. AloneInv(at, n)'
  BY <1>1 DEF ListInv, AloneInv, Publishing
<1> QED
  BY <1>3, <1>7, <1>8, <1>9, <1>12, <1>13, <1>14, <1>15, <1>16, <1>17, <1>18, <1>19, <1>20 DEF ListInv

LEMMA PushLinkKeeps ==
  ASSUME NEW at, NEW stk, NEW n, NEW t \in Threads, ProducersRead, Typed, ListInv(at, stk, n), PushLink(t)
  PROVE  ListInv(at, stk, n)'
<1>0. Threads = Consumers
  BY ThreadsRead
<1>1. /\ pc[t] = "pushlink" /\ pc'[t] = "pushcas"
      /\ next'[mine[t]] = assumed[t] /\ \A m : m # mine[t] => next'[m] = next[m]
      /\ \A u \in Threads \ {t} : pc'[u] = pc[u]
      /\ UNCHANGED <<refs, value, tail, top, heap, id, assumed, seen, mine, msg, pos, log, alone>>
  <2>1. mine[t] \in Nodes
    BY DEF ListInv, OwnInv, Owning, Pushing, PushLink, Goto
  <2> QED
    BY <2>1 DEF PushLink, Goto, Typed, TypeOK, history, counts, locals
<1>2. /\ mine[t] \in Nodes \ heap /\ mine[t] # Sentinel
      /\ \A m : OnStack(stk, m) \/ InList(at, m) => m # mine[t]
      /\ \A u \in Threads : u # t /\ Owning(u) => mine[u] # mine[t]
  <2>1. Owning(t)
    BY <1>1 DEF Owning, Filling, Returning, Pushing
  <2> QED
    BY <2>1, QueueAssumption DEF ListInv, OwnInv
<1>6. SameReaders
  BY <1>1 DEF SameReaders, Returning
<1>7. /\ NodeInv(at)' /\ FirstInv(at)' /\ TailInv(at, n)'
      /\ \A k : Kept(k)' = Kept(k)
      /\ \A m : InList(at, m)' = InList(at, m)
  BY <1>1, <1>2, <1>6, ListStep
<1>8. Shape(at, stk, n)'
  BY <1>1 DEF ListInv, Shape
<1>9. ReaderInv(at, n)'
  <2>1. \A c \in Consumers : pc[c] \in Returning => Owning(c) /\ c # t
    BY <1>1 DEF Owning, Returning
  <2>2. \A c \in Consumers : pc[c] \in Returning => next'[mine[c]] = next[mine[c]]
    BY <1>0, <1>1, <1>2, <2>1
  <2> QED
    BY <1>0, <1>1, <1>7, <2>2 DEF ListInv, ReaderInv, Returning
<1>10. \A u \in Threads : u # t => Owning(u)' = Owning(u) /\ (Filled(u))' = Filled(u)
  BY <1>1 DEF Owning, Filled
<1>11. Owning(t) /\ Owning(t)' /\ ~Filled(t) /\ ~Filled(t)'
  BY <1>1 DEF Owning, Filled, Filling, Returning, Pushing
<1>12. OwnInv(at, stk)'
  BY <1>1, <1>2, <1>7, <1>10, <1>11 DEF ListInv, OwnInv, PlaceInv
<1>13. PlaceInv(at, stk)'
  BY <1>1, <1>2, <1>7, <1>10, <1>11 DEF ListInv, PlaceInv
<1>14. ValueInv(at)'
  BY <1>1, <1>2, <1>7, <1>10, <1>11 DEF ListInv, ValueInv, Returning
<1>15. FillInv'
  <2>1. \A u \in Threads : Filled(u) => Owning(u) /\ u # t
    BY <1>1 DEF Owning, Filled, Filling
  <2> QED
    BY <1>1, <1>2, <1>10, <1>11, <2>1 DEF ListInv, FillInv, Publishing
<1>16. StackInv(stk)'
  BY <1>1, <1>2 DEF ListInv, StackInv, OnStack
<1>17. PushInv'
  <2>1. \A u \in Threads : pc[u] = "pushcas" => Owning(u) /\ u # t
    BY <1>1 DEF Owning, Pushing
  <2> QED
    BY <1>1, <1>2, <2>1 DEF ListInv, PushInv
<1>18. PopInv(at, stk)'
  BY <1>1, <1>2 DEF ListInv, PopInv, OnStack, Filling
<1>19. AppendInv(at, n)'
  BY <1>1 DEF ListInv, AppendInv
<1>20. AloneInv(at, n)'
  <2>1. alone # Null => alone \in Threads
    BY DEF Typed, TypeOK, Threads
  <2> QED
    BY <1>1, <2>1 DEF ListInv, AloneInv, Publishing
<1> QED
  BY <1>7, <1>8, <1>9, <1>12, <1>13, <1>14, <1>15, <1>16, <1>17, <1>18, <1>19, <1>20 DEF ListInv

LEMMA PushKeeps ==
  ASSUME NEW at, NEW stk, NEW n, NEW t \in Threads, ProducersRead, Typed, ListInv(at, stk, n), Push(t)
  PROVE  \E st \in Seq(Nodes) : ListInv(at, st, n)'
<1>0. Threads = Consumers
  BY ThreadsRead
<1>1. /\ pc[t] = "pushcas" /\ pc'[t] = "idle" /\ top = assumed[t] /\ top' = mine[t]
      /\ \A u \in Threads \ {t} : /\ pc'[u] = pc[u] /\ mine'[u] = mine[u] /\ assumed'[u] = assumed[u]
                                /\ seen'[u] = seen[u] /\ msg'[u] = msg[u]
      /\ UNCHANGED <<next, refs, value, tail, heap, id, pos, log, alone>>
  BY DEF Push, Return, Goto, Typed, TypeOK, history, counts
<1>2. /\ mine[t] \in Nodes \ heap /\ mine[t] # Sentinel
      /\ \A m : OnStack(stk, m) \/ InList(at, m) => m # mine[t]
      /\ \A u \in Threads : u # t /\ Owning(u) => mine[u] # mine[t]
  <2>1. Owning(t)
    BY <1>1 DEF Owning, Filling, Returning, Pushing
  <2> QED
    BY <2>1, QueueAssumption DEF ListInv, OwnInv
<1>21. PICK st : st = Append(stk, mine[t])
  OBVIOUS
<1>3. /\ st \in Seq(Nodes) /\ Len(st) = Len(stk) + 1 /\ st[Len(stk) + 1] = mine[t] /\ Len(stk) \in Nat
      /\ \A i \in 1..Len(stk) : st[i] = stk[i]
  BY <1>2, <1>21, AppendSeq DEF ListInv, Shape
<1>4. \A m : OnStack(st, m) <=> OnStack(stk, m) \/ m = mine[t]
  BY <1>3 DEF OnStack
<1>5. \A i \in 1..Len(st) : i <= Len(stk) + 1 /\ Below(st, i) = Below(stk, i)
  BY <1>3 DEF Below
<1>6. SameReaders
  BY <1>1 DEF SameReaders, Returning
<1>7. /\ NodeInv(at)' /\ FirstInv(at)' /\ TailInv(at, n)'
      /\ \A k : Kept(k)' = Kept(k)
      /\ \A m : InList(at, m)' = InList(at, m)
  BY <1>1, <1>2, <1>6, ListStep
<1>8. Shape(at, st, n)'
  BY <1>1, <1>3 DEF ListInv, Shape
<1>9. ReaderInv(at, n)'
  BY <1>0, <1>1, <1>2, <1>7 DEF ListInv, ReaderInv, Returning
<1>10. \A u \in Threads : u # t => Owning(u)' = Owning(u) /\ (Filled(u))' = Filled(u)
  BY <1>1 DEF Owning, Filled
<1>11. Owning(t) /\ ~Owning(t)' /\ ~Filled(t) /\ ~Filled(t)'
  BY <1>1 DEF Owning, Filled, Filling, Returning, Pushing
<1>12. OwnInv(at, st)'
  BY <1>1, <1>2, <1>4, <1>7, <1>10, <1>11 DEF ListInv, OwnInv, PlaceInv
<1>13. PlaceInv(at, st)'
  BY <1>1, <1>2, <1>4, <1>7, <1>10, <1>11 DEF ListInv, PlaceInv
<1>14. ValueInv(at)'
  BY <1>1, <1>2, <1>7, <1>10, <1>11 DEF ListInv, ValueInv, Returning
<1>15. FillInv'
  BY <1>1, <1>2, <1>10, <1>11 DEF ListInv, FillInv, Publishing
<1>16. StackInv(st)'
  <2>1. Below(st, Len(st) + 1) = mine[t]
    BY <1>3 DEF Below
  <2>2. next[mine[t]] = Below(stk, Len(stk) + 1)
    BY <1>1 DEF ListInv, StackInv, PushInv
  <2>3. \A i \in 1..Len(st) : next[st[i]] = Below(st, i)
    BY <1>3, <1>5, <2>2 DEF ListInv, StackInv
  <2>4. \A i \in 1..Len(stk) : st[i] # mine[t]
    BY <1>2, <1>3 DEF OnStack
  <2> QED
    BY <1>1, <1>3, <2>1, <2>3, <2>4 DEF ListInv, StackInv
<1>17. PushInv'
  BY <1>1, <1>2 DEF ListInv, PushInv
<1>18. PopInv(at, st)'
  <2> SUFFICES ASSUME NEW u \in Threads, u # t, pc[u] \in {"pop", "popcas"}
               PROVE  /\ pc[u] = "popcas" => assumed[u] # Null
                      /\ \/ assumed[u] = Null \/ OnStack(st, assumed[u])
                         \/ \E w \in Threads : pc'[w] \in Filling /\ mine'[w] = assumed[u]
                         \/ \E k \in pos[u] + 1..Len(log) : at[k] = assumed[u]
                      /\ pc[u] = "popcas" =>
                           \A i \in 1..Len(st) : st[i] = assumed[u] => seen[u] = Below(st, i)
    BY <1>1 DEF PopInv, OnStack
  <2>1. \A w \in Threads : pc[w] \in Filling => w # t /\ pc'[w] \in Filling /\ mine'[w] = mine[w] /\ mine[w] # mine[t]
    BY <1>1, <1>2 DEF Filling, Owning
  <2>2. \A k \in pos[u] + 1..Len(log) : at[k] # mine[t]
    <3> TAKE k \in pos[u] + 1..Len(log)
    <3>1. k \in Nat /\ k > 0 /\ pos[u] <= k /\ k <= Len(log)
      BY <1>0, Sizes
    <3>2. InList(at, at[k])
      BY <1>0, <3>1, KeptAhead DEF InList
    <3> QED
      BY <3>2, <1>2
  <2>3. mine[t] # Null /\ ~OnStack(stk, mine[t])
    BY <1>2, QueueAssumption
  <2>4. \/ assumed[u] = Null \/ OnStack(stk, assumed[u])
        \/ \E w \in Threads : pc[w] \in Filling /\ mine[w] = assumed[u]
        \/ \E k \in pos[u] + 1..Len(log) : at[k] = assumed[u]
    BY DEF ListInv, PopInv
  <2>5. assumed[u] # mine[t]
    BY <2>1, <2>2, <2>3, <2>4
  <2>6. \A i \in 1..Len(st) : st[i] = assumed[u] => i \in 1..Len(stk) /\ stk[i] = assumed[u]
    BY <1>3, <2>5
  <2> QED
    BY <1>4, <1>5, <2>1, <2>4, <2>6 DEF ListInv, PopInv
<1>19. AppendInv(at, n)'
  BY <1>1 DEF ListInv, AppendInv
<1>20. AloneInv(at, n)'
  <2>1. alone # Null => alone \in Threads
    BY DEF Typed, TypeOK, Threads
  <2> QED
    BY <1>1, <2>1 DEF ListInv, AloneInv, Publishing
<1> QED
  BY <1>3, <1>7, <1>8, <1>9, <1>12, <1>13, <1>14, <1>15, <1>16, <1>17, <1>18, <1>19, <1>20 DEF ListInv

LEMMA ReserveKeeps ==
  ASSUME NEW at, NEW stk, NEW n, NEW t \in Threads, ProducersRead, Typed, ListInv(at, stk, n), Reserve(t)
  PROVE  ListInv(at, stk, n)'
<1>0. Threads = Consumers
  BY ThreadsRead
<1>1. /\ pc[t] = "idle" /\ pc'[t] = "push" /\ mine'[t] \in heap /\ heap' = heap \ {mine'[t]}
      /\ \A u \in Threads \ {t} : pc'[u] = pc[u] /\ mine'[u] = mine[u]
      /\ UNCHANGED <<next, refs, value, tail, top, id, assumed, seen, msg, pos, log, alone>>
  BY DEF Reserve, Goto, Typed, TypeOK, history
<1>2. mine'[t] \in Nodes /\ ~OnStack(stk, mine'[t]) /\ ~InList(at, mine'[t])
      /\ \A u \in Threads : Owning(u) => mine[u] # mine'[t]
  BY <1>1 DEF ListInv, PlaceInv, OwnInv, Typed, TypeOK
<1>4. \A m : OnStack(stk, m)' = OnStack(stk, m)
  BY DEF OnStack
<1>6. SameReaders
  BY <1>1 DEF SameReaders, Returning
<1>7. /\ NodeInv(at)' /\ FirstInv(at)' /\ TailInv(at, n)'
      /\ \A k : Kept(k)' = Kept(k)
      /\ \A m : InList(at, m)' = InList(at, m)
  BY <1>1, <1>2, <1>6, ListStep
<1>8. Shape(at, stk, n)'
  BY <1>1 DEF ListInv, Shape
<1>9. ReaderInv(at, n)'
  BY <1>0, <1>1, <1>2, <1>7 DEF ListInv, ReaderInv, Returning
<1>10. \A u \in Threads : u # t => Owning(u)' = Owning(u) /\ (Filled(u))' = Filled(u)
  BY <1>1 DEF Owning, Filled
<1>11. ~Owning(t) /\ Owning(t)' /\ ~Filled(t) /\ ~Filled(t)'
  BY <1>1 DEF Owning, Filled, Filling, Returning, Pushing
<1>12. OwnInv(at, stk)'
  BY <1>1, <1>2, <1>4, <1>7, <1>10, <1>11 DEF ListInv, OwnInv, PlaceInv
<1>13. PlaceInv(at, stk)'
  BY <1>1, <1>2, <1>4, <1>7, <1>10, <1>11 DEF ListInv, PlaceInv
<1>14. ValueInv(at)'
  BY <1>1, <1>2, <1>7, <1>10, <1>11 DEF ListInv, ValueInv, Returning
<1>15. FillInv'
  BY <1>1, <1>2, <1>10, <1>11 DEF ListInv, FillInv, Publishing
<1>16. StackInv(stk)'
  BY <1>1, <1>2 DEF ListInv, StackInv, OnStack
<1>17. PushInv'
  BY <1>1, <1>2 DEF ListInv, PushInv
<1>18. PopInv(at, stk)'
  BY <1>1, <1>2 DEF ListInv, PopInv, OnStack, Filling
<1>19. AppendInv(at, n)'
  BY <1>1 DEF ListInv, AppendInv
<1>20. AloneInv(at, n)'
  <2>1. alone # Null => alone \in Threads
    BY DEF Typed, TypeOK, Threads
  <2> QED
    BY <1>1, <2>1 DEF ListInv, AloneInv, Publishing
<1> QED
  BY <1>7, <1>8, <1>9, <1>12, <1>13, <1>14, <1>15, <1>16, <1>17, <1>18, <1>19, <1>20 DEF ListInv

LEMMA NewNodeKeeps ==
  ASSUME NEW at, NEW stk, NEW n, NEW t \in Threads, ProducersRead, Typed, ListInv(at, stk, n), NewNode(t)
  PROVE  ListInv(at, stk, n)'
<1>0. Threads = Consumers
  BY ThreadsRead
<1>1. /\ pc[t] = "pop" /\ pc'[t] = "fill" /\ mine'[t] \in heap /\ heap' = heap \ {mine'[t]}
      /\ \A u \in Threads \ {t} : pc'[u] = pc[u] /\ mine'[u] = mine[u]
      /\ UNCHANGED <<next, refs, value, tail, top, id, assumed, seen, msg, pos, log, alone>>
  BY DEF NewNode, Goto, Typed, TypeOK, history, counts
<1>2. mine'[t] \in Nodes /\ ~OnStack(stk, mine'[t]) /\ ~InList(at, mine'[t])
      /\ \A u \in Threads : Owning(u) => mine[u] # mine'[t]
  BY <1>1 DEF ListInv, PlaceInv, OwnInv, Typed, TypeOK
<1>4. \A m : OnStack(stk, m)' = OnStack(stk, m)
  BY DEF OnStack
<1>6. SameReaders
  BY <1>1 DEF SameReaders, Returning
<1>7. /\ NodeInv(at)' /\ FirstInv(at)' /\ TailInv(at, n)'
      /\ \A k : Kept(k)' = Kept(k)
      /\ \A m : InList(at, m)' = InList(at, m)
  BY <1>1, <1>2, <1>6, ListStep
<1>8. Shape(at, stk, n)'
  BY <1>1 DEF ListInv, Shape
<1>9. ReaderInv(at, n)'
  BY <1>0, <1>1, <1>2, <1>7 DEF ListInv, ReaderInv, Returning
<1>10. \A u \in Threads : u # t => Owning(u)' = Owning(u) /\ (Filled(u))' = Filled(u)
  BY <1>1 DEF Owning, Filled
<1>11. ~Owning(t) /\ Owning(t)' /\ ~Filled(t) /\ ~Filled(t)'
  BY <1>1 DEF Owning, Filled, Filling, Returning, Pushing
<1>12. OwnInv(at, stk)'
  BY <1>1, <1>2, <1>4, <1>7, <1>10, <1>11 DEF ListInv, OwnInv, PlaceInv
<1>13. PlaceInv(at, stk)'
  BY <1>1, <1>2, <1>4, <1>7, <1>10, <1>11 DEF ListInv, PlaceInv
<1>14. ValueInv(at)'
  BY <1>1, <1>2, <1>7, <1>10, <1>11 DEF ListInv, ValueInv, Returning
<1>15. FillInv'
  BY <1>1, <1>2, <1>10, <1>11 DEF ListInv, FillInv, Publishing
<1>16. StackInv(stk)'
  BY <1>1, <1>2 DEF ListInv, StackInv, OnStack
<1>17. PushInv'
  BY <1>1, <1>2 DEF ListInv, PushInv
<1>18. PopInv(at, stk)'
  BY <1>1, <1>2 DEF ListInv, PopInv, OnStack, Filling
<1>19. AppendInv(at, n)'
  BY <1>1 DEF ListInv, AppendInv
<1>20. AloneInv(at, n)'
  <2>1. alone # Null => alone \in Threads
    BY DEF Typed, TypeOK, Threads
  <2> QED
    BY <1>1, <2>1 DEF ListInv, AloneInv, Publishing
<1> QED
  BY <1>7, <1>8, <1>9, <1>12, <1>13, <1>14, <1>15, <1>16, <1>17, <1>18, <1>19, <1>20 DEF ListInv

LEMMA FillKeeps ==
  ASSUME NEW at, NEW stk, NEW n, NEW t \in Threads, ProducersRead, Typed, ListInv(at, stk, n), Fill(t)
  PROVE  ListInv(at, stk, n)'
<1>0. Threads = Consumers
  BY ThreadsRead
<1>1. /\ pc[t] = "fill" /\ pc'[t] = (IF alone = t THEN "store" ELSE "tail")
      /\ next'[mine[t]] = Null /\ refs'[mine[t]] = MaxQ /\ value'[mine[t]] = msg[t]
      /\ \A m : m # mine[t] => next'[m] = next[m] /\ refs'[m] = refs[m] /\ value'[m] = value[m]
      /\ \A u \in Threads \ {t} : pc'[u] = pc[u]
      /\ UNCHANGED <<tail, top, heap, id, assumed, seen, mine, msg, pos, log, alone>>
  <2>1. mine[t] \in Nodes
    BY DEF ListInv, OwnInv, Owning, Filling, Fill, Goto
  <2> QED
    BY <2>1 DEF Fill, Goto, Typed, TypeOK, history, counts, locals, References
<1>2. /\ mine[t] \in Nodes \ heap /\ mine[t] # Sentinel
      /\ \A m : OnStack(stk, m) \/ InList(at, m) => m # mine[t]
      /\ \A u \in Threads : u # t /\ Owning(u) => mine[u] # mine[t]
  <2>1. Owning(t)
    BY <1>1 DEF Owning, Filling, Returning, Pushing
  <2> QED
    BY <2>1, QueueAssumption DEF ListInv, OwnInv
<1>6. SameReaders
  BY <1>1 DEF SameReaders, Returning
<1>7. /\ NodeInv(at)' /\ FirstInv(at)' /\ TailInv(at, n)'
      /\ \A k : Kept(k)' = Kept(k)
      /\ \A m : InList(at, m)' = InList(at, m)
  BY <1>1, <1>2, <1>6, ListStep
<1>8. Shape(at, stk, n)'
  BY <1>1 DEF ListInv, Shape
<1>9. ReaderInv(at, n)'
  <2>1. \A c \in Consumers : pc[c] \in Returning => Owning(c) /\ c # t
    BY <1>1 DEF Owning, Returning
  <2>2. \A c \in Consumers : pc[c] \in Returning => next'[mine[c]] = next[mine[c]]
    BY <1>0, <1>1, <1>2, <2>1
  <2> QED
    BY <1>0, <1>1, <1>7, <2>2 DEF ListInv, ReaderInv, Returning
<1>10. \A u \in Threads : u # t => Owning(u)' = Owning(u) /\ (Filled(u))' = Filled(u)
  BY <1>1 DEF Owning, Filled
<1>11. Owning(t) /\ Owning(t)' /\ ~Filled(t) /\ Filled(t)'
  BY <1>1 DEF Owning, Filled, Filling, Returning, Pushing
<1>12. OwnInv(at, stk)'
  BY <1>1, <1>2, <1>7, <1>10, <1>11 DEF ListInv, OwnInv, PlaceInv
<1>13. PlaceInv(at, stk)'
  BY <1>1, <1>2, <1>7, <1>10, <1>11 DEF ListInv, PlaceInv
<1>14. ValueInv(at)'
  <2> SUFFICES ASSUME NEW m \in Nodes, m # mine[t], value[m] # 0
               PROVE  InList(at, m) \/ \E u \in Threads : (Filled(u)' \/ pc'[u] \in Returning) /\ m = mine[u]
    BY <1>1, <1>7, <1>11 DEF ValueInv
  <2> QED
    BY <1>1, <1>10, <1>11 DEF ListInv, ValueInv, Returning
<1>15. FillInv'
  <2>1. \A u \in Threads : Filled(u) => Owning(u) /\ u # t
    BY <1>1 DEF Owning, Filled, Filling
  <2> QED
    BY <1>1, <1>2, <1>10, <1>11, <2>1 DEF ListInv, FillInv, Publishing
<1>16. StackInv(stk)'
  BY <1>1, <1>2 DEF ListInv, StackInv, OnStack
<1>17. PushInv'
  <2>1. \A u \in Threads : pc[u] = "pushcas" => Owning(u) /\ u # t
    BY <1>1 DEF Owning, Pushing
  <2> QED
    BY <1>1, <1>2, <2>1 DEF ListInv, PushInv
<1>18. PopInv(at, stk)'
  BY <1>1, <1>2 DEF ListInv, PopInv, OnStack, Filling
<1>19. AppendInv(at, n)'
  BY <1>1 DEF ListInv, AppendInv
<1>20. AloneInv(at, n)'
  <2>1. alone # Null => alone \in Threads
    BY DEF Typed, TypeOK, Threads
  <2> QED
    BY <1>1, <2>1 DEF ListInv, AloneInv, Publishing
<1> QED
  BY <1>7, <1>8, <1>9, <1>12, <1>13, <1>14, <1>15, <1>16, <1>17, <1>18, <1>19, <1>20 DEF ListInv

(***************************************************************************)
(* Steps that move the tail.                                               *)
(***************************************************************************)
LEMMA KeptStep ==
  ASSUME NEW at, NEW stk, NEW n, ListInv(at, stk, n), log' = log,
         \A c \in Consumers : /\ Released(c)' = Released(c)
                              /\ (pc'[c] \in Returning) = (pc[c] \in Returning),
         next'[Sentinel] = next[Sentinel],
         \A m : InList(at, m) => next'[m] = next[m] /\ refs'[m] = refs[m] /\ value'[m] = value[m]
  PROVE  /\ NodeInv(at)' /\ FirstInv(at)'
         /\ \A k : Kept(k)' = Kept(k)
         /\ \A m : InList(at, m)' = InList(at, m)
<1>1. \A k : Readers(k)' = Readers(k)
  BY DEF Readers
<1>2. \A k : Kept(k)' = Kept(k)
  BY <1>1 DEF Kept
<1>3. \A m : InList(at, m)' = InList(at, m)
  BY <1>2 DEF InList
<1>4. \A k \in Nat : Kept(k) => InList(at, at[k])
  BY DEF InList
<1>5. NodeInv(at)'
  BY <1>1, <1>2, <1>4 DEF ListInv, NodeInv
<1>6. FirstInv(at)'
  BY <1>2 DEF ListInv, FirstInv
<1> QED
  BY <1>2, <1>3, <1>5, <1>6

(* The tail a publisher has read is the tail only if it is at the same     *)
(* position.                                                               *)
LEMMA SameTail ==
  ASSUME NEW at, NEW stk, NEW n, NEW t \in Consumers, Typed, ListInv(at, stk, n),
         NEW j \in pos[t]..n, assumed[t] = At(at, j)
  PROVE  /\ j \in Nat /\ n \in Nat /\ pos[t] <= j /\ j <= n /\ n <= Len(log)
         /\ (tail = assumed[t]) = (j = n)
<1>1. j \in Nat /\ n \in Nat /\ pos[t] <= j /\ j <= n /\ n <= Len(log) /\ pos[t] <= n
  BY Sizes DEF ListInv, Shape
<1>2. tail = At(at, n)
  BY DEF ListInv, TailInv
<1>3. At(at, j) = At(at, n) => j = n
  BY <1>1, AtOnce DEF ListInv
<1> QED
  BY <1>1, <1>2, <1>3

LEMMA HelpKeeps ==
  ASSUME NEW at, NEW stk, NEW n, NEW t \in Threads, ProducersRead, Typed, ListInv(at, stk, n), Help(t)
  PROVE  \E i \in Nat : ListInv(at, stk, i)'
<1>0. Threads = Consumers
  BY ThreadsRead
<1>1. /\ pc[t] = "help" /\ pc'[t] = "tail" /\ tail = assumed[t] /\ tail' = seen[t]
      /\ \A u \in Threads \ {t} : pc'[u] = pc[u]
      /\ UNCHANGED <<next, refs, value, top, heap, id, assumed, seen, mine, msg, pos, log, alone>>
  BY DEF Help, Goto, Typed, TypeOK, history, counts, locals

<1>3. PICK i \in Nat : /\ i = n + 1 /\ i <= Len(log) /\ n \in Nat /\ Len(log) \in Nat /\ tail' = at[i] /\ i = Len(log)
  <2>1. PICK j \in pos[t]..n : assumed[t] = At(at, j) /\ j < Len(log) /\ seen[t] = at[j + 1]
    BY <1>1 DEF ListInv, AppendInv
  <2>2. j = n /\ n \in Nat
    BY <1>0, <1>1, <2>1, SameTail
  <2>3. n = Len(log) \/ n = Len(log) - 1
    BY DEF ListInv, TailInv
  <2> QED
    BY <1>1, <2>1, <2>2, <2>3, Sizes
<1>4. /\ NodeInv(at)' /\ FirstInv(at)'
      /\ \A k : Kept(k)' = Kept(k)
      /\ \A m : InList(at, m)' = InList(at, m)
  <2>1. \A c \in Consumers : Released(c)' = Released(c) /\ (pc'[c] \in Returning) = (pc[c] \in Returning)
    BY <1>0, <1>1 DEF Released, Returning
  <2> QED
    BY <1>1, <2>1, KeptStep
<1>5. Shape(at, stk, i)'
  BY <1>1, <1>3 DEF ListInv, Shape
<1>6. ReaderInv(at, i)'
  BY <1>0, <1>1, <1>3, <1>4, Sizes DEF ListInv, ReaderInv, Returning, Shape, At
<1>7. TailInv(at, i)'
  BY <1>1, <1>3 DEF TailInv, At
<1>8. \A u \in Threads : Owning(u)' = Owning(u) /\ Filled(u)' = Filled(u)
  BY <1>1 DEF Owning, Filled, Filling, Returning, Pushing
<1>9. \A m : OnStack(stk, m)' = OnStack(stk, m)
  BY DEF OnStack
<1>10. OwnInv(at, stk)'
  BY <1>1, <1>4, <1>8, <1>9 DEF ListInv, OwnInv, Owning, Filling, Returning, Pushing
<1>11. PlaceInv(at, stk)'
  BY <1>1, <1>4, <1>8, <1>9 DEF ListInv, PlaceInv, Owning, Filling, Returning, Pushing
<1>12. ValueInv(at)'
  BY <1>1, <1>4, <1>8 DEF ListInv, ValueInv, Returning, Filled, Filling
<1>13. FillInv'
  BY <1>1, <1>8 DEF ListInv, FillInv, Publishing, Filled, Filling
<1>14. StackInv(stk)' /\ PushInv'
  BY <1>1 DEF ListInv, StackInv, PushInv
<1>15. PopInv(at, stk)'
  BY <1>1, <1>9 DEF ListInv, PopInv, Filling
<1>16. AppendInv(at, i)'
  BY <1>1, <1>3, <1>0, Sizes DEF ListInv, AppendInv, Shape
<1>17. AloneInv(at, i)'
  <2>1. alone # Null => alone \in Threads
    BY DEF Typed, TypeOK, Threads
  <2>2. ~(\E u \in Threads : u # t /\ pc[u] = "storetail")
    <3> SUFFICES ASSUME NEW u \in Threads, u # t, pc[u] = "storetail" PROVE FALSE
      OBVIOUS
    <3>1. alone = u /\ u # Null
      BY QueueAssumption DEF ListInv, AloneInv, Threads
    <3>2. Publishing(t)
      BY <1>1 DEF Publishing
    <3> QED
      BY <3>1, <3>2 DEF ListInv, AloneInv
  <2> QED
    BY <1>1, <1>3, <2>1, <2>2 DEF ListInv, AloneInv, Publishing
<1> QED
  BY <1>4, <1>5, <1>6, <1>7, <1>10, <1>11, <1>12, <1>13, <1>14, <1>15, <1>16, <1>17 DEF ListInv

LEMMA SwingKeeps ==
  ASSUME NEW at, NEW stk, NEW n, NEW t \in Threads, ProducersRead, Typed, ListInv(at, stk, n), Swing(t)
  PROVE  \E i \in Nat : ListInv(at, stk, i)'
<1>0. Threads = Consumers
  BY ThreadsRead
<1>1. /\ pc[t] = "swing" /\ pc'[t] = "idle" /\ tail' = IF tail = assumed[t] THEN mine[t] ELSE tail
      /\ \A u \in Threads \ {t} : /\ pc'[u] = pc[u] /\ mine'[u] = mine[u] /\ assumed'[u] = assumed[u]
                                /\ seen'[u] = seen[u] /\ msg'[u] = msg[u]
      /\ UNCHANGED <<next, refs, value, top, heap, id, pos, log, alone>>
  BY DEF Swing, Return, Goto, Typed, TypeOK, history, counts

<1>3. PICK i \in Nat : /\ i >= n /\ i <= Len(log) /\ n \in Nat /\ Len(log) \in Nat /\ tail' = At(at, i)
                    /\ (i = n + 1 => i = Len(log))
                    /\ (i # n => i = n + 1)
                    /\ (i = n => i = Len(log) \/ ~Swinging(at, t))
  <2>1. PICK j \in pos[t]..n : assumed[t] = At(at, j) /\ j < Len(log) /\ mine[t] = at[j + 1]
    BY <1>1 DEF ListInv, AppendInv
  <2>2. /\ (tail = assumed[t]) = (j = n) /\ n \in Nat /\ j \in Nat /\ pos[t] <= j /\ n <= Len(log)
        /\ Len(log) \in Nat /\ pos[t] \in Nat
    BY <1>0, <2>1, SameTail, Sizes
  <2>3. tail = At(at, n) /\ (n = Len(log) \/ n = Len(log) - 1)
    BY DEF ListInv, TailInv
  <2>4. CASE j = n
    BY <1>1, <2>1, <2>2, <2>3, <2>4 DEF At
  <2>5. CASE j # n
    <3>1. ASSUME Swinging(at, t), n # Len(log) PROVE FALSE
      <4>1. At(at, j + 1) = At(at, Len(log))
        BY <2>1, <2>2, <3>1 DEF Swinging, At
      <4>2. j + 1 = Len(log)
        BY <1>0, <2>1, <2>2, <4>1, AtOnce DEF ListInv
      <4> QED
        BY <2>2, <2>3, <2>5, <3>1, <4>2
    <3> QED
      BY <1>1, <2>2, <2>3, <2>5, <3>1
  <2> QED
    BY <2>4, <2>5
<1>4. /\ NodeInv(at)' /\ FirstInv(at)'
      /\ \A k : Kept(k)' = Kept(k)
      /\ \A m : InList(at, m)' = InList(at, m)
  <2>1. \A c \in Consumers : Released(c)' = Released(c) /\ (pc'[c] \in Returning) = (pc[c] \in Returning)
    BY <1>0, <1>1 DEF Released, Returning
  <2> QED
    BY <1>1, <2>1, KeptStep
<1>5. Shape(at, stk, i)'
  BY <1>1, <1>3 DEF ListInv, Shape
<1>6. ReaderInv(at, i)'
  BY <1>0, <1>1, <1>3, <1>4, Sizes DEF ListInv, ReaderInv, Returning, Shape, At
<1>7. TailInv(at, i)'
  <2>1. CASE i = Len(log)
    BY <1>1, <1>3, <2>1 DEF TailInv
  <2>2. CASE i # Len(log)
    <3>1. i = n /\ n = Len(log) - 1 /\ \E u \in Threads : u # t /\ Swinging(at, u)
      BY <1>3, <2>2 DEF ListInv, TailInv
    <3> QED
      BY <1>1, <1>3, <3>1 DEF TailInv, Swinging
  <2> QED
    BY <2>1, <2>2
<1>8. \A u \in Threads : Owning(u)' = Owning(u) /\ Filled(u)' = Filled(u)
  BY <1>1 DEF Owning, Filled, Filling, Returning, Pushing
<1>9. \A m : OnStack(stk, m)' = OnStack(stk, m)
  BY DEF OnStack
<1>10. OwnInv(at, stk)'
  BY <1>1, <1>4, <1>8, <1>9 DEF ListInv, OwnInv, Owning, Filling, Returning, Pushing
<1>11. PlaceInv(at, stk)'
  BY <1>1, <1>4, <1>8, <1>9 DEF ListInv, PlaceInv, Owning, Filling, Returning, Pushing
<1>12. ValueInv(at)'
  BY <1>1, <1>4, <1>8 DEF ListInv, ValueInv, Returning, Filled, Filling
<1>13. FillInv'
  BY <1>1, <1>8 DEF ListInv, FillInv, Publishing, Filled, Filling
<1>14. StackInv(stk)' /\ PushInv'
  BY <1>1 DEF ListInv, StackInv, PushInv
<1>15. PopInv(at, stk)'
  BY <1>1, <1>9 DEF ListInv, PopInv, Filling
<1>16. AppendInv(at, i)'
  <2> SUFFICES ASSUME NEW u \in Threads, pc'[u] \in {"next", "check", "help", "link", "swing"}
               PROVE  \E j \in pos[u]..i :
                        /\ assumed'[u] = At(at, j)
                        /\ pc'[u] = "check" => seen'[u] = Null \/ (j < Len(log) /\ seen'[u] = at[j + 1])
                        /\ pc'[u] = "help"  => j < Len(log) /\ seen'[u] = at[j + 1]
                        /\ pc'[u] = "swing" => j < Len(log) /\ mine'[u] = at[j + 1]
    BY <1>1 DEF AppendInv, At
  <2>1. u # t /\ pc'[u] = pc[u] /\ mine'[u] = mine[u] /\ assumed'[u] = assumed[u] /\ seen'[u] = seen[u]
    BY <1>1
  <2>2. PICK j \in pos[u]..n :
              /\ assumed[u] = At(at, j)
              /\ pc[u] = "check" => seen[u] = Null \/ (j < Len(log) /\ seen[u] = at[j + 1])
              /\ pc[u] = "help"  => j < Len(log) /\ seen[u] = at[j + 1]
              /\ pc[u] = "swing" => j < Len(log) /\ mine[u] = at[j + 1]
    BY <2>1 DEF ListInv, AppendInv
  <2>3. pos[u] \in Nat
    BY <1>0, Sizes
  <2>4. j \in pos[u]..i
    BY <1>3, <2>2, <2>3
  <2> QED
    BY <2>1, <2>2, <2>4
<1>17. AloneInv(at, i)'
  <2>1. alone # Null => alone \in Threads
    BY DEF Typed, TypeOK, Threads
  <2>2. ~(\E u \in Threads : u # t /\ pc[u] = "storetail")
    <3> SUFFICES ASSUME NEW u \in Threads, u # t, pc[u] = "storetail" PROVE FALSE
      OBVIOUS
    <3>1. alone = u /\ u # Null
      BY QueueAssumption DEF ListInv, AloneInv, Threads
    <3>2. Publishing(t)
      BY <1>1 DEF Publishing
    <3> QED
      BY <3>1, <3>2 DEF ListInv, AloneInv
  <2> QED
    BY <1>1, <1>3, <2>1, <2>2 DEF ListInv, AloneInv, Publishing
<1> QED
  BY <1>4, <1>5, <1>6, <1>7, <1>10, <1>11, <1>12, <1>13, <1>14, <1>15, <1>16, <1>17 DEF ListInv

LEMMA UnsafeTailKeeps ==
  ASSUME NEW at, NEW stk, NEW n, NEW t \in Threads, ProducersRead, Typed, ListInv(at, stk, n), UnsafeTail(t)
  PROVE  \E i \in Nat : ListInv(at, stk, i)'
<1>0. Threads = Consumers
  BY ThreadsRead
<1>1. /\ pc[t] = "storetail" /\ pc'[t] = "idle" /\ tail' = mine[t] /\ alone' = Null
      /\ \A u \in Threads \ {t} : /\ pc'[u] = pc[u] /\ mine'[u] = mine[u] /\ assumed'[u] = assumed[u]
                                /\ seen'[u] = seen[u] /\ msg'[u] = msg[u]
      /\ UNCHANGED <<next, refs, value, top, heap, id, pos, log>>
  BY DEF UnsafeTail, Return, Goto, Typed, TypeOK, history

<1>3. PICK i \in Nat : /\ i = n + 1 /\ n \in Nat /\ i = Len(log) /\ Len(log) \in Nat /\ tail' = at[i]
  BY <1>1, Sizes DEF ListInv, AloneInv, Shape
<1>4. /\ NodeInv(at)' /\ FirstInv(at)'
      /\ \A k : Kept(k)' = Kept(k)
      /\ \A m : InList(at, m)' = InList(at, m)
  <2>1. \A c \in Consumers : Released(c)' = Released(c) /\ (pc'[c] \in Returning) = (pc[c] \in Returning)
    BY <1>0, <1>1 DEF Released, Returning
  <2> QED
    BY <1>1, <2>1, KeptStep
<1>5. Shape(at, stk, i)'
  BY <1>1, <1>3 DEF ListInv, Shape
<1>6. ReaderInv(at, i)'
  BY <1>0, <1>1, <1>3, <1>4, Sizes DEF ListInv, ReaderInv, Returning, Shape, At
<1>7. TailInv(at, i)'
  BY <1>1, <1>3 DEF TailInv, At
<1>8. \A u \in Threads : Owning(u)' = Owning(u) /\ Filled(u)' = Filled(u)
  BY <1>1 DEF Owning, Filled, Filling, Returning, Pushing
<1>9. \A m : OnStack(stk, m)' = OnStack(stk, m)
  BY DEF OnStack
<1>10. OwnInv(at, stk)'
  BY <1>1, <1>4, <1>8, <1>9 DEF ListInv, OwnInv, Owning, Filling, Returning, Pushing
<1>11. PlaceInv(at, stk)'
  BY <1>1, <1>4, <1>8, <1>9 DEF ListInv, PlaceInv, Owning, Filling, Returning, Pushing
<1>12. ValueInv(at)'
  BY <1>1, <1>4, <1>8 DEF ListInv, ValueInv, Returning, Filled, Filling
<1>13. FillInv'
  BY <1>1, <1>8 DEF ListInv, FillInv, Publishing, Filled, Filling
<1>14. StackInv(stk)' /\ PushInv'
  BY <1>1 DEF ListInv, StackInv, PushInv
<1>15. PopInv(at, stk)'
  BY <1>1, <1>9 DEF ListInv, PopInv, Filling
<1>16. AppendInv(at, i)'
  BY <1>1, <1>3, <1>0, Sizes DEF ListInv, AppendInv, Shape
<1>17. AloneInv(at, i)'
  <2>2. t # Null /\ alone = t
    BY <1>1, QueueAssumption DEF ListInv, AloneInv, Threads
  <2>1. \A u \in Threads \ {t} : ~Publishing(u)
    BY <2>2 DEF ListInv, AloneInv
  <2> QED
    BY <1>1, <2>1, <2>2 DEF AloneInv, Publishing
<1> QED
  BY <1>4, <1>5, <1>6, <1>7, <1>10, <1>11, <1>12, <1>13, <1>14, <1>15, <1>16, <1>17 DEF ListInv

(***************************************************************************)
(* Appending a node.                                                       *)
(***************************************************************************)
LEMMA LinkStep ==
  ASSUME NEW at, NEW stk, NEW n, NEW t \in Threads, ProducersRead, Typed, ListInv(at, stk, n),
         \/ pc[t] = "link" /\ pc'[t] = "swing" /\ assumed[t] = At(at, Len(log))
         \/ pc[t] = "store" /\ pc'[t] = "storetail",
         \A u \in Threads \ {t} : pc'[u] = pc[u],
         n = Len(log), log' = Append(log, msg[t]),
         next' = [next EXCEPT ![At(at, Len(log))] = mine[t]],
         UNCHANGED <<refs, value, tail, top, heap, id, assumed, seen, mine, msg, pos, alone>>
  PROVE  \E st \in Seq(Nodes) : ListInv(st, stk, n)'
<1>0. Threads = Consumers /\ n \in Nat
  BY ThreadsRead DEF ListInv, Shape
<1>1. PICK m : m = mine[t]
  OBVIOUS
<1>2. PICK p : p = Len(log) + 1
  OBVIOUS
<1>3. PICK st : st = Append(at, m)
  OBVIOUS
<1>4. PICK a : a = At(at, Len(log))
  OBVIOUS
<1>5. /\ m \in Nodes \ heap /\ ~OnStack(stk, m) /\ ~InList(at, m)
      /\ \A u \in Threads : Owning(u) /\ mine[u] = m => u = t
      /\ next[m] = Null /\ refs[m] = MaxQ /\ value[m] = msg[t] /\ msg[t] \in Messages
      /\ Owning(t) /\ Filled(t) /\ Publishing(t)
  <2>1. Owning(t) /\ Filled(t) /\ Publishing(t)
    BY DEF Owning, Filled, Publishing, Filling
  <2> QED
    BY <1>1, <2>1 DEF ListInv, OwnInv, FillInv
<1>6. /\ st \in Seq(Nodes) /\ Len(st) = p /\ st[p] = m /\ p \in Nat /\ p = n + 1
      /\ \A i \in 1..n : st[i] = at[i]
      /\ \A i \in 0..n : At(st, i) = At(at, i)
  <2>1. at \in Seq(Nodes) /\ Len(at) = Len(log)
    BY DEF ListInv, Shape
  <2>2. /\ st \in Seq(Nodes) /\ Len(st) = p /\ st[p] = m /\ p \in Nat /\ p = n + 1
        /\ \A i \in 1..n : st[i] = at[i]
    BY <1>0, <1>2, <1>3, <1>5, <2>1, AppendSeq
  <2>3. \A i \in 0..n : At(st, i) = At(at, i)
    BY <1>0, <2>2 DEF At
  <2> QED
    BY <2>2, <2>3
<1>7. Len(log') = p /\ log'[p] = msg[t] /\ \A i \in 1..n : log'[i] = log[i]
  BY <1>0, <1>2, <1>5, AppendSeq DEF Typed, TypeOK
<1>8. /\ \A c \in Consumers : Released(c)' = Released(c) /\ Released(c) < p
      /\ \A k : Readers(k)' = Readers(k)
      /\ Readers(p) = Consumers
  <2>1. \A c \in Consumers : Released(c)' = Released(c)
    BY <1>0 DEF Released
  <2>2. \A c \in Consumers : Released(c) < p
    <3>1. \A c \in Consumers : pos[c] <= n
      BY DEF ListInv, ReaderInv
    <3> QED
      BY <1>0, <1>6, <3>1, Sizes
  <2>3. \A k : Readers(k)' = Readers(k)
    BY <2>1 DEF Readers
  <2>4. Readers(p) = Consumers
    BY <2>2 DEF Readers
  <2> QED
    BY <2>1, <2>2, <2>3, <2>4
<1>9. \A k : Kept(k)' <=> Kept(k) \/ k = p
  BY <1>0, <1>6, <1>7, <1>8, QueueAssumption DEF Kept
<1>10. ~Kept(p) /\ \A k \in Nat : Kept(k) => k \in 1..n
  BY <1>0, <1>6 DEF Kept
<1>11. \A x : InList(st, x)' <=> InList(at, x) \/ x = m
  BY <1>6, <1>9, <1>10 DEF InList
<1>12. /\ n > 0 => Kept(n) /\ a = at[n] /\ a \in Nodes
       /\ n = 0 => a = Sentinel
       /\ ~(a \in Nodes) \/ InList(at, a)
       /\ a # m
  <2>1. n > 0 => Kept(n)
    <3>1. PICK c \in Consumers : pos[c] <= n
      BY QueueAssumption DEF ListInv, ReaderInv
    <3> QED
      BY <1>0, <3>1, KeptAhead
  <2>2. n > 0 => a = at[n] /\ a \in Nodes
    BY <1>0, <1>4 DEF At, ListInv, Shape
  <2>3. n = 0 => a = Sentinel
    BY <1>4 DEF At
  <2>4. n > 0 => InList(at, a)
    BY <1>0, <2>1, <2>2 DEF InList
  <2>5. a # m
    BY <1>0, <1>5, <2>2, <2>3, <2>4, QueueAssumption
  <2> QED
    BY <1>0, <2>1, <2>2, <2>3, <2>4, <2>5, QueueAssumption
<1>13. /\ next'[a] = m
       /\ \A x \in Nodes \cup {Sentinel} : x # a => next'[x] = next[x]
       /\ \A x \in Nodes : ~InList(at, x) => next'[x] = next[x]
  <2>1. next' = [next EXCEPT ![a] = m] /\ a \in Nodes \cup {Sentinel}
    BY <1>0, <1>1, <1>4, <1>12
  <2>2. /\ next'[a] = m
        /\ \A x \in Nodes \cup {Sentinel} : x # a => next'[x] = next[x]
    BY <2>1 DEF Typed, TypeOK
  <2>3. \A x \in Nodes : ~InList(at, x) => x # a
    BY <1>12
  <2> QED
    BY <2>2, <2>3
<1>14. Shape(st, stk, n)'
  BY <1>0, <1>6, <1>7 DEF ListInv, Shape
<1>15. NodeInv(st)'
  <2> SUFFICES ASSUME NEW k \in Nat, Kept(k)'
               PROVE  /\ value[st[k]] = log'[k] /\ refs[st[k]] = Cardinality(Readers(k)')
                      /\ next'[st[k]] = IF k < Len(log') THEN st[k + 1] ELSE Null
                      /\ \A j \in Nat : Kept(j)' /\ st[j] = st[k] => j = k
    BY DEF NodeInv
  <2>1. CASE k = p
    <3>1. value[st[k]] = log'[k] /\ refs[st[k]] = Cardinality(Readers(k)')
      BY <1>5, <1>6, <1>7, <1>8, <2>1 DEF MaxQ
    <3>2. next'[st[k]] = Null /\ ~(k < Len(log'))
      BY <1>5, <1>6, <1>7, <1>13, <2>1
    <3>3. \A j \in Nat : Kept(j) => st[j] = at[j] /\ InList(at, at[j])
      BY <1>6, <1>10 DEF InList
    <3>4. \A j \in Nat : Kept(j)' /\ st[j] = st[k] => j = k
      BY <1>5, <1>6, <1>9, <2>1, <3>3
    <3> QED
      BY <3>1, <3>2, <3>4
  <2>2. CASE k # p
    <3>1. Kept(k) /\ k \in 1..n /\ st[k] = at[k] /\ at[k] \in Nodes
      BY <1>6, <1>9, <1>10, <2>2 DEF ListInv, Shape
    <3>2. value[st[k]] = log'[k] /\ refs[st[k]] = Cardinality(Readers(k)')
      BY <1>7, <1>8, <3>1 DEF ListInv, NodeInv
    <3>3. ASSUME k = n PROVE next'[st[k]] = IF k < Len(log') THEN st[k + 1] ELSE Null
      BY <1>0, <1>6, <1>7, <1>12, <1>13, <3>1, <3>3
    <3>4. ASSUME k < n PROVE next'[st[k]] = IF k < Len(log') THEN st[k + 1] ELSE Null
      <4>1. at[k] # a
        BY <1>0, <1>12, <3>1, <3>4 DEF ListInv, NodeInv
      <4>2. next'[at[k]] = at[k + 1]
        BY <1>13, <3>1, <3>4, <4>1 DEF ListInv, NodeInv
      <4> QED
        BY <1>0, <1>6, <1>7, <3>1, <3>4, <4>2
    <3>5. next'[st[k]] = IF k < Len(log') THEN st[k + 1] ELSE Null
      BY <1>0, <3>1, <3>3, <3>4
    <3>6. \A j \in Nat : Kept(j) /\ at[j] = at[k] => j = k
      BY <3>1 DEF ListInv, NodeInv
    <3>7. at[k] # m
      BY <1>5, <3>1 DEF InList
    <3>8. \A j \in Nat : Kept(j)' /\ st[j] = st[k] => j = k
      BY <1>6, <1>9, <1>10, <3>1, <3>6, <3>7
    <3> QED
      BY <3>2, <3>5, <3>8
  <2> QED
    BY <2>1, <2>2
<1>16. FirstInv(st)'
  <2> SUFFICES ASSUME \A c \in Consumers : pc'[c] \notin Returning
               PROVE  \E k \in Nat : Kept(k)' /\ ~Kept(k - 1)' /\ next'[Sentinel] = st[k]
    BY <1>6, <1>7 DEF FirstInv
  <2>1. CASE n = 0
    <3>1. p = 1 /\ Kept(p)' /\ ~Kept(p - 1)' /\ next'[Sentinel] = st[p]
      BY <1>6, <1>9, <1>10, <1>12, <1>13, <2>1 DEF Kept
    <3> QED
      BY <3>1
  <2>2. CASE n > 0
    <3>1. \A c \in Consumers : pc[c] \notin Returning
      BY <1>0 DEF Returning
    <3>2. PICK k \in Nat : Kept(k) /\ ~Kept(k - 1) /\ next[Sentinel] = at[k]
      BY <2>2, <3>1 DEF ListInv, FirstInv
    <3>3. k \in 1..n /\ k - 1 # p
      BY <1>6, <1>10, <3>2
    <3>4. next'[Sentinel] = next[Sentinel]
      BY <1>12, <1>13, <2>2, QueueAssumption
    <3> QED
      BY <1>6, <1>9, <3>2, <3>3, <3>4
  <2> QED
    BY <1>0, <2>1, <2>2
<1>17. ReaderInv(st, n)'
  <2> SUFFICES ASSUME NEW c \in Consumers
               PROVE  /\ pos[c] <= n /\ id[c] = At(st, pos[c])
                      /\ pc'[c] = "advance" => pos[c] < n
                      /\ pc'[c] \in {"release"} \cup Returning => pos[c] >= 2 /\ mine[c] = st[pos[c] - 1]
                      /\ pc'[c] \in Returning => ~Kept(pos[c] - 1)' /\ next'[mine[c]] = st[pos[c]]
                      /\ pc'[c] = "sethead" => seen[c] = st[pos[c]]
    BY DEF ReaderInv
  <2>1. pos[c] \in 0..n /\ At(st, pos[c]) = At(at, pos[c]) /\ id[c] = At(at, pos[c])
    BY <1>0, <1>6, Sizes DEF ListInv, ReaderInv
  <2>2. pos[c] >= 2 => st[pos[c]] = at[pos[c]] /\ st[pos[c] - 1] = at[pos[c] - 1] /\ pos[c] - 1 # p
    BY <1>0, <1>6, <2>1
  <2>3. pc'[c] \in {"release", "advance"} \cup Returning => pc'[c] = pc[c]
    BY <1>0 DEF Returning
  <2>4. pc[c] \in Returning => next'[mine[c]] = next[mine[c]]
    <3> SUFFICES ASSUME pc[c] \in Returning PROVE next'[mine[c]] = next[mine[c]]
      OBVIOUS
    <3>1. mine[c] \in Nodes /\ ~InList(at, mine[c])
      BY <1>0 DEF ListInv, OwnInv, Owning
    <3> QED
      BY <1>13, <3>1
  <2>5. "sethead" \in Returning
    BY DEF Returning
  <2>6. /\ pc[c] = "advance" => pos[c] < n
        /\ pc[c] \in {"release"} \cup Returning => pos[c] >= 2 /\ mine[c] = at[pos[c] - 1]
        /\ pc[c] \in Returning => ~Kept(pos[c] - 1) /\ next[mine[c]] = at[pos[c]]
        /\ pc[c] = "sethead" => seen[c] = at[pos[c]]
    BY DEF ListInv, ReaderInv
  <2> QED
    BY <1>0, <1>9, <2>1, <2>2, <2>3, <2>4, <2>5, <2>6
<1>18. TailInv(st, n)'
  <2>1. tail' = At(st, n)
    BY <1>0, <1>6 DEF ListInv, TailInv
  <2>2. Swinging(st, t)'
    BY <1>1, <1>6, <1>7 DEF Swinging
  <2> QED
    BY <1>6, <1>7, <2>1, <2>2 DEF TailInv
<1>19. /\ \A u \in Threads \ {t} : Owning(u)' = Owning(u) /\ Filled(u)' = Filled(u)
       /\ ~Owning(t)' /\ ~Filled(t)'
  BY DEF Owning, Filled, Filling, Returning, Pushing
<1>20. \A x : OnStack(stk, x)' = OnStack(stk, x)
  BY DEF OnStack
<1>21. OwnInv(st, stk)'
  BY <1>5, <1>11, <1>19, <1>20 DEF ListInv, OwnInv
<1>22. PlaceInv(st, stk)'
  BY <1>1, <1>5, <1>11, <1>19, <1>20 DEF ListInv, PlaceInv
<1>23. ValueInv(st)'
  <2>1. \A u \in Threads : u # t => (pc'[u] \in Returning) = (pc[u] \in Returning)
    OBVIOUS
  <2>2. pc[t] \notin Returning
    BY DEF Returning
  <2> QED
    BY <1>1, <1>11, <1>19, <2>1, <2>2 DEF ListInv, ValueInv
<1>24. FillInv'
  <2>1. \A u \in Threads : Publishing(u)' = Publishing(u)
    BY DEF Publishing
  <2>2. \A u \in Threads : Filled(u) => mine[u] \in Nodes /\ ~InList(at, mine[u])
    BY DEF ListInv, OwnInv, Owning, Filled
  <2> QED
    BY <1>13, <1>19, <2>1, <2>2 DEF ListInv, FillInv
<1>25. StackInv(stk)'
  <2>1. \A i \in 1..Len(stk) : stk[i] \in Nodes /\ ~InList(at, stk[i])
    BY DEF ListInv, Shape, PlaceInv, OnStack
  <2> QED
    BY <1>13, <2>1 DEF ListInv, StackInv
<1>26. PushInv'
  <2>1. \A u \in Threads : pc[u] = "pushcas" => mine[u] \in Nodes /\ ~InList(at, mine[u])
    BY DEF ListInv, OwnInv, Owning, Pushing
  <2>2. \A u \in Threads : pc'[u] = "pushcas" => pc[u] = "pushcas"
    OBVIOUS
  <2> QED
    BY <1>13, <2>1, <2>2 DEF ListInv, PushInv
<1>27. PopInv(st, stk)'
  <2> SUFFICES ASSUME NEW u \in Threads, pc'[u] \in {"pop", "popcas"}
               PROVE  /\ pc'[u] = "popcas" => assumed[u] # Null
                      /\ \/ assumed[u] = Null \/ OnStack(stk, assumed[u])
                         \/ \E w \in Threads : pc'[w] \in Filling /\ mine[w] = assumed[u]
                         \/ \E k \in pos[u] + 1..Len(log') : st[k] = assumed[u]
                      /\ pc'[u] = "popcas" =>
                           \A i \in 1..Len(stk) : stk[i] = assumed[u] => seen[u] = Below(stk, i)
    BY <1>20 DEF PopInv
  <2>1. u # t /\ pc'[u] = pc[u] /\ pos[u] \in Nat /\ pos[u] <= n
    BY <1>0, Sizes DEF ListInv, ReaderInv
  <2>2. /\ pc[u] = "popcas" => assumed[u] # Null
        /\ \/ assumed[u] = Null \/ OnStack(stk, assumed[u])
           \/ \E w \in Threads : pc[w] \in Filling /\ mine[w] = assumed[u]
           \/ \E k \in pos[u] + 1..Len(log) : at[k] = assumed[u]
        /\ pc[u] = "popcas" =>
             \A i \in 1..Len(stk) : stk[i] = assumed[u] => seen[u] = Below(stk, i)
    BY <2>1 DEF ListInv, PopInv
  <2>3. CASE \E w \in Threads : pc[w] \in Filling /\ mine[w] = assumed[u]
    <3>1. PICK w \in Threads : pc[w] \in Filling /\ mine[w] = assumed[u]
      BY <2>3
    <3>2. CASE w = t
      <4>1. p \in pos[u] + 1..Len(log') /\ st[p] = assumed[u]
        BY <1>0, <1>1, <1>6, <1>7, <2>1, <3>1, <3>2
      <4> QED
        BY <2>1, <2>2, <4>1
    <3>3. CASE w # t
      BY <2>1, <2>2, <3>1, <3>3
    <3> QED
      BY <3>2, <3>3
  <2>4. CASE \E k \in pos[u] + 1..Len(log) : at[k] = assumed[u]
    <3>1. PICK k \in pos[u] + 1..n : at[k] = assumed[u]
      BY <2>4
    <3>2. k \in pos[u] + 1..Len(log') /\ st[k] = assumed[u]
      BY <1>0, <1>6, <1>7, <2>1, <3>1
    <3> QED
      BY <2>1, <2>2, <3>2
  <2> QED
    BY <2>1, <2>2, <2>3, <2>4
<1>28. AppendInv(st, n)'
  <2> SUFFICES ASSUME NEW u \in Threads, pc'[u] \in {"next", "check", "help", "link", "swing"}
               PROVE  \E j \in pos[u]..n :
                        /\ assumed[u] = At(st, j)
                        /\ pc'[u] = "check" => seen[u] = Null \/ (j < Len(log') /\ seen[u] = st[j + 1])
                        /\ pc'[u] = "help"  => j < Len(log') /\ seen[u] = st[j + 1]
                        /\ pc'[u] = "swing" => j < Len(log') /\ mine[u] = st[j + 1]
    BY DEF AppendInv
  <2>0. pos[u] \in Nat /\ pos[u] <= n
    BY <1>0, Sizes DEF ListInv, ReaderInv
  <2>1. CASE u = t
    <3>1. pc'[u] = "swing" /\ assumed[u] = At(st, n) /\ n < Len(log') /\ mine[u] = st[n + 1] /\ n \in pos[u]..n
      BY <1>0, <1>1, <1>6, <1>7, <2>0, <2>1
    <3> QED
      BY <3>1
  <2>2. CASE u # t
    <3>1. PICK j \in pos[u]..n :
            /\ assumed[u] = At(at, j)
            /\ pc[u] = "check" => seen[u] = Null \/ (j < Len(log) /\ seen[u] = at[j + 1])
            /\ pc[u] = "help"  => j < Len(log) /\ seen[u] = at[j + 1]
            /\ pc[u] = "swing" => j < Len(log) /\ mine[u] = at[j + 1]
      BY <2>2 DEF ListInv, AppendInv
    <3>2. j \in 0..n /\ At(st, j) = At(at, j) /\ (j < n => st[j + 1] = at[j + 1]) /\ n < Len(log')
      BY <1>0, <1>6, <1>7, <2>0, <3>1
    <3>3. pc'[u] = pc[u] /\ (j < n => j < Len(log'))
      BY <1>0, <2>2, <3>2
    <3> QED
      BY <3>1, <3>2, <3>3
  <2> QED
    BY <2>1, <2>2
<1>29. AloneInv(st, n)'
  <2>1. \A u \in Threads : Publishing(u)' = Publishing(u)
    BY DEF Publishing
  <2>2. alone # Null => alone \in Threads
    BY DEF Typed, TypeOK, Threads
  <2>3. pc[t] = "store" => alone = t
    BY DEF ListInv, AloneInv
  <2>4. pc[t] = "link" => alone # t
    BY DEF ListInv, AloneInv
  <2>5. \A u \in Threads \ {t} : pc[u] # "storetail"
    <3> SUFFICES ASSUME NEW u \in Threads, u # t, pc[u] = "storetail" PROVE FALSE
      OBVIOUS
    <3>1. alone = u /\ u # Null
      BY QueueAssumption DEF ListInv, AloneInv, Threads
    <3> QED
      BY <1>5, <3>1 DEF ListInv, AloneInv
  <2>6. n = Len(log') - 1 /\ mine[t] = st[Len(log')]
    BY <1>0, <1>1, <1>6, <1>7
  <2>7. alone # Null => Publishing(alone)' /\ \A u \in Threads : Publishing(u)' => u = alone
    BY <2>1, <2>2 DEF ListInv, AloneInv
  <2>8. \A u \in Threads :
          /\ pc'[u] \in {"store", "storetail"} => alone = u
          /\ pc'[u] \in {"tail", "next", "check", "help", "link", "swing"} => alone # u
    BY <2>3, <2>4 DEF ListInv, AloneInv
  <2>9. \A u \in Threads : pc'[u] = "storetail" => n = Len(log') - 1 /\ mine[u] = st[Len(log')]
    BY <2>5, <2>6
  <2> QED
    BY <2>7, <2>8, <2>9 DEF AloneInv
<1>30. ListInv(st, stk, n)'
  BY <1>14, <1>15, <1>16, <1>17, <1>18, <1>21, <1>22, <1>23, <1>24, <1>25, <1>26, <1>27, <1>28, <1>29
  DEF ListInv
<1> QED
  BY <1>6, <1>30

LEMMA LinkKeeps ==
  ASSUME NEW at, NEW stk, NEW n, NEW t \in Threads, ProducersRead, Typed, ListInv(at, stk, n), Link(t)
  PROVE  n = Len(log) /\ \E st \in Seq(Nodes) : ListInv(st, stk, n)'
<1>0. Threads = Consumers
  BY ThreadsRead
<1>1. /\ pc[t] = "link" /\ pc'[t] = "swing" /\ \A u \in Threads \ {t} : pc'[u] = pc[u]
      /\ next[assumed[t]] = Null /\ next' = [next EXCEPT ![assumed[t]] = mine[t]] /\ log' = Append(log, msg[t])
      /\ UNCHANGED <<refs, value, tail, top, heap, id, assumed, seen, mine, msg, pos, alone>>
  BY DEF Link, Goto, Typed, TypeOK, counts, locals
<1>2. PICK j \in pos[t]..n : assumed[t] = At(at, j)
  BY <1>1 DEF ListInv, AppendInv
<1>3. j \in Nat /\ n \in Nat /\ pos[t] <= j /\ j <= n /\ n <= Len(log) /\ Len(log) \in Nat
  BY <1>0, <1>2, SameTail, Sizes
<1>4. j = Len(log)
  <2> SUFFICES ASSUME j < Len(log) PROVE FALSE
    BY <1>3
  <2>1. next[At(at, j)] = at[j + 1]
    BY <1>0, <1>3, NextAt DEF ListInv
  <2>2. at[j + 1] \in Nodes
    BY <1>3 DEF ListInv, Shape
  <2> QED
    BY <1>1, <1>2, <2>1, <2>2, QueueAssumption
<1>5. n = Len(log) /\ assumed[t] = At(at, Len(log))
  BY <1>2, <1>3, <1>4
<1> QED
  BY <1>1, <1>5, LinkStep

LEMMA UnsafeLinkKeeps ==
  ASSUME NEW at, NEW stk, NEW n, NEW t \in Threads, ProducersRead, Typed, ListInv(at, stk, n), UnsafeLink(t)
  PROVE  n = Len(log) /\ \E st \in Seq(Nodes) : ListInv(st, stk, n)'
<1>1. /\ pc[t] = "store" /\ pc'[t] = "storetail" /\ \A u \in Threads \ {t} : pc'[u] = pc[u]
      /\ next' = [next EXCEPT ![tail] = mine[t]] /\ log' = Append(log, msg[t])
      /\ UNCHANGED <<refs, value, tail, top, heap, id, assumed, seen, mine, msg, pos, alone>>
  BY DEF UnsafeLink, Goto, Typed, TypeOK, counts, locals
<1>2. alone = t /\ t # Null
  BY <1>1, QueueAssumption DEF ListInv, AloneInv, Threads
<1>3. \A u \in Threads : pc[u] \notin {"swing", "storetail"}
  <2> SUFFICES ASSUME NEW u \in Threads, pc[u] \in {"swing", "storetail"} PROVE FALSE
    OBVIOUS
  <2>1. u = t
    BY <1>2 DEF ListInv, AloneInv, Publishing
  <2> QED
    BY <1>1, <2>1
<1>4. n = Len(log) /\ tail = At(at, n)
  BY <1>3 DEF ListInv, TailInv, Swinging
<1>5. next' = [next EXCEPT ![At(at, Len(log))] = mine[t]]
  BY <1>1, <1>4
<1> QED
  BY <1>1, <1>4, <1>5, LinkStep
(***************************************************************************)
(* The consumers.                                                          *)
(***************************************************************************)
LEMMA AdvanceKeeps ==
  ASSUME NEW at, NEW stk, NEW n, NEW t \in Threads, ProducersRead, Typed, ListInv(at, stk, n), Advance(t)
  PROVE  ListInv(at, stk, n)'
<1>0. Threads = Consumers /\ n \in Nat /\ n <= Len(log)
  BY ThreadsRead DEF ListInv, Shape
<1>1. /\ pc[t] = "advance" /\ pos'[t] = pos[t] + 1 /\ id'[t] = next[id[t]]
      /\ (id[t] = Sentinel /\ pc'[t] = "idle" /\ mine'[t] = mine[t])
         \/ (id[t] # Sentinel /\ pc'[t] = "release" /\ mine'[t] = id[t])
      /\ \A u \in Threads \ {t} : pc'[u] = pc[u] /\ mine'[u] = mine[u] /\ pos'[u] = pos[u] /\ id'[u] = id[u]
      /\ UNCHANGED <<next, refs, value, tail, top, heap, assumed, seen, msg, log, alone>>
  BY <1>0 DEF Advance, Goto, Typed, TypeOK, counts
<1>2. pos[t] \in Nat /\ pos[t] < n /\ id[t] = At(at, pos[t])
  BY <1>0, <1>1, Sizes DEF ListInv, ReaderInv
<1>3. id'[t] = at[pos[t] + 1] /\ id'[t] = At(at, pos'[t])
  <2>1. next[At(at, pos[t])] = at[pos[t] + 1]
    BY <1>0, <1>2, NextAt DEF ListInv
  <2> QED
    BY <1>1, <1>2, <2>1 DEF At
<1>4. \/ pos[t] = 0 /\ pc'[t] = "idle" /\ mine'[t] = mine[t]
      \/ pos[t] > 0 /\ pc'[t] = "release" /\ mine'[t] = at[pos[t]]
  <2>1. CASE pos[t] = 0
    BY <1>1, <1>2, <2>1 DEF At
  <2>2. CASE pos[t] > 0
    <3>1. id[t] = at[pos[t]] /\ at[pos[t]] \in Nodes
      BY <1>0, <1>2, <2>2 DEF At, ListInv, Shape
    <3> QED
      BY <1>1, <2>2, <3>1, QueueAssumption
  <2> QED
    BY <1>2, <2>1, <2>2
<1>5. /\ NodeInv(at)' /\ FirstInv(at)'
      /\ \A k : Kept(k)' = Kept(k)
      /\ \A m : InList(at, m)' = InList(at, m)
  <2>1. \A c \in Consumers : (pc'[c] \in Returning) = (pc[c] \in Returning)
    BY <1>0, <1>1 DEF Returning
  <2>2. \A c \in Consumers \ {t} : Released(c)' = Released(c)
    BY <1>0, <1>1 DEF Released
  <2>3. Released(t)' = Released(t)
    BY <1>1, <1>2, <1>4 DEF Released
  <2>4. \A c \in Consumers : /\ Released(c)' = Released(c)
                             /\ (pc'[c] \in Returning) = (pc[c] \in Returning)
    BY <2>1, <2>2, <2>3
  <2> QED
    BY <1>1, <2>4, KeptStep
<1>6. Shape(at, stk, n)'
  BY <1>1 DEF ListInv, Shape
<1>7. ReaderInv(at, n)'
  <2> SUFFICES ASSUME NEW c \in Consumers
               PROVE  /\ pos'[c] <= n /\ id'[c] = At(at, pos'[c])
                      /\ pc'[c] = "advance" => pos'[c] < n
                      /\ pc'[c] \in {"release"} \cup Returning => pos'[c] >= 2 /\ mine'[c] = at[pos'[c] - 1]
                      /\ pc'[c] \in Returning => ~Kept(pos[c] - 1)' /\ next'[mine'[c]] = at[pos'[c]]
                      /\ pc'[c] = "sethead" => seen'[c] = at[pos'[c]]
    BY DEF ReaderInv
  <2>1. CASE c = t
    <3>1. pos'[t] = pos[t] + 1 /\ pos'[t] - 1 = pos[t] /\ pos'[t] <= n
      BY <1>0, <1>1, <1>2
    <3>2. pc'[t] = "release" => pos'[t] >= 2 /\ mine'[t] = at[pos'[t] - 1]
      BY <1>2, <1>4, <3>1
    <3> QED
      BY <1>1, <1>3, <2>1, <3>1, <3>2 DEF Returning
  <2>2. CASE c # t
    BY <1>0, <1>1, <1>5, <2>2 DEF ListInv, ReaderInv
  <2> QED
    BY <2>1, <2>2
<1>8. TailInv(at, n)'
  <2>1. \A u \in Threads : Swinging(at, u)' = Swinging(at, u)
    BY <1>1 DEF Swinging
  <2> QED
    BY <1>1, <2>1 DEF ListInv, TailInv
<1>9. /\ \A u \in Threads : Owning(u)' = Owning(u) /\ Filled(u)' = Filled(u)
                            /\ (pc'[u] \in Returning) = (pc[u] \in Returning)
                            /\ (pc'[u] \in Filling) = (pc[u] \in Filling)
      /\ \A u \in Threads : Owning(u) \/ Filled(u) \/ pc[u] \in Returning \/ pc[u] \in Filling =>
                              u # t /\ mine'[u] = mine[u]
  BY <1>1 DEF Owning, Filled, Filling, Returning, Pushing
<1>10. \A m : OnStack(stk, m)' = OnStack(stk, m)
  BY DEF OnStack
<1>11. OwnInv(at, stk)'
  BY <1>1, <1>5, <1>9, <1>10 DEF ListInv, OwnInv
<1>12. PlaceInv(at, stk)'
  BY <1>1, <1>5, <1>9, <1>10 DEF ListInv, PlaceInv
<1>13. ValueInv(at)'
  BY <1>1, <1>5, <1>9 DEF ListInv, ValueInv
<1>14. FillInv'
  BY <1>1, <1>9 DEF ListInv, FillInv, Publishing
<1>15. StackInv(stk)'
  BY <1>1 DEF ListInv, StackInv
<1>16. PushInv'
  BY <1>1 DEF ListInv, PushInv
<1>17. PopInv(at, stk)'
  <2>1. \A u \in Threads : pc'[u] \in {"pop", "popcas"} => u # t /\ pc[u] = pc'[u] /\ pos'[u] = pos[u]
    BY <1>1
  <2>2. \A x : (\E w \in Threads : pc[w] \in Filling /\ mine[w] = x)
                 => (\E w \in Threads : pc'[w] \in Filling /\ mine'[w] = x)
    BY <1>9
  <2> QED
    BY <1>1, <1>10, <2>1, <2>2 DEF ListInv, PopInv
<1>18. AppendInv(at, n)'
  BY <1>1 DEF ListInv, AppendInv
<1>19. AloneInv(at, n)'
  <2>1. alone # Null => alone \in Threads
    BY DEF Typed, TypeOK, Threads
  <2> QED
    BY <1>1, <2>1 DEF ListInv, AloneInv, Publishing
<1> QED
  BY <1>5, <1>6, <1>7, <1>8, <1>11, <1>12, <1>13, <1>14, <1>15, <1>16, <1>17, <1>18, <1>19 DEF ListInv

(* A release takes one reader from the node, and it is the last one        *)
(* exactly if one reference was left.                                      *)
Leaves(at, t, q) ==
  /\ q = pos[t] - 1 /\ q >= 1 /\ q < Len(log) /\ Kept(q) /\ mine[t] = at[q] /\ mine[t] \in Nodes
  /\ refs[at[q]] = Cardinality(Readers(q))
  /\ \A k \in Nat : Readers(k)' = IF k = q THEN Readers(q) \ {t} ELSE Readers(k)
  /\ t \in Readers(q) /\ IsFiniteSet(Readers(q))
  /\ Cardinality(Readers(q) \ {t}) = Cardinality(Readers(q)) - 1
  /\ (Readers(q) \ {t} = {}) = (refs[at[q]] = 1)

LEMMA ReleaseStep ==
  ASSUME NEW at, NEW stk, NEW n, NEW t \in Threads, ProducersRead, Typed, ListInv(at, stk, n), Release(t)
  PROVE  \E q \in Nat : Leaves(at, t, q)
<1>0. Threads = Consumers /\ n \in Nat /\ n <= Len(log)
  BY ThreadsRead DEF ListInv, Shape
<1>1. /\ pc[t] = "release" /\ pc'[t] \in {"last", "idle"}
      /\ \A u \in Threads \ {t} : pc'[u] = pc[u]
      /\ UNCHANGED <<pos, log>>
  BY DEF Release, Return, Goto, Typed, TypeOK, history
<1>2. PICK q : q = pos[t] - 1
  OBVIOUS
<1>3. pos[t] \in Nat /\ pos[t] >= 2 /\ pos[t] <= n /\ mine[t] = at[q] /\ Len(log) \in Nat
  BY <1>0, <1>1, <1>2, Sizes DEF ListInv, ReaderInv
<1>4. q \in Nat /\ q >= 1 /\ q < Len(log)
  BY <1>0, <1>2, <1>3
<1>5. mine[t] \in Nodes
  BY <1>0, <1>3, <1>4 DEF ListInv, Shape
<1>6. Released(t) = q - 1 /\ Released(t)' = q
  BY <1>1, <1>2, <1>3 DEF Released
<1>7. t \in Readers(q) /\ Kept(q)
  BY <1>0, <1>3, <1>4, <1>6 DEF Readers, Kept
<1>8. refs[at[q]] = Cardinality(Readers(q))
  BY <1>4, <1>7 DEF ListInv, NodeInv
<1>9. \A k \in Nat : Readers(k)' = IF k = q THEN Readers(q) \ {t} ELSE Readers(k)
  <2>1. \A c \in Consumers \ {t} : Released(c)' = Released(c)
    BY <1>0, <1>1 DEF Released
  <2>2. \A k \in Nat : (q < k) = (q - 1 < k /\ k # q)
    BY <1>4
  <2> QED
    BY <1>0, <1>6, <2>1, <2>2 DEF Readers
<1>10. IsFiniteSet(Readers(q)) /\ Cardinality(Readers(q)) \in Nat
  <2>1. Readers(q) \subseteq Consumers
    BY DEF Readers
  <2> QED
    BY <2>1, QueueAssumption, FS_Subset, FS_CardinalityType
<1>11. Cardinality(Readers(q) \ {t}) = Cardinality(Readers(q)) - 1 /\ IsFiniteSet(Readers(q) \ {t})
  BY <1>7, <1>10, FS_RemoveElement
<1>12. (Readers(q) \ {t} = {}) = (refs[at[q]] = 1)
  BY <1>8, <1>10, <1>11, FS_EmptySet
<1>13. Leaves(at, t, q)
  BY <1>2, <1>3, <1>4, <1>5, <1>7, <1>8, <1>9, <1>10, <1>11, <1>12 DEF Leaves
<1> QED
  BY <1>4, <1>13

LEMMA ReleaseLastKeeps ==
  ASSUME NEW at, NEW stk, NEW n, NEW t \in Threads, ProducersRead, Typed, ListInv(at, stk, n), Release(t),
         refs[mine[t]] = 1
  PROVE  ListInv(at, stk, n)'
<1>0. Threads = Consumers /\ n \in Nat /\ n <= Len(log)
  BY ThreadsRead DEF ListInv, Shape
<1>q. PICK q \in Nat : Leaves(at, t, q)
  BY ReleaseStep
<1>1. /\ q = pos[t] - 1 /\ q >= 1 /\ q < Len(log) /\ Kept(q) /\ mine[t] = at[q] /\ mine[t] \in Nodes
      /\ refs[at[q]] = Cardinality(Readers(q))
      /\ \A k \in Nat : Readers(k)' = IF k = q THEN Readers(q) \ {t} ELSE Readers(k)
      /\ t \in Readers(q) /\ IsFiniteSet(Readers(q))
      /\ Cardinality(Readers(q) \ {t}) = Cardinality(Readers(q)) - 1
      /\ (Readers(q) \ {t} = {}) = (refs[at[q]] = 1)
  BY <1>q DEF Leaves
<1>2. /\ pc[t] = "release" /\ pc'[t] = "last"
      /\ \A u \in Threads \ {t} : pc'[u] = pc[u]
      /\ \A m \in Nodes : m # mine[t] => refs'[m] = refs[m]
      /\ UNCHANGED <<next, value, tail, top, heap, id, assumed, seen, mine, msg, pos, log, alone>>
  BY <1>1 DEF Release, Return, Goto, Typed, TypeOK, history, counts, locals
<1>3. \A k \in Nat : Kept(k)' = (Kept(k) /\ k # q)
  BY <1>1, <1>2 DEF Kept
<1>4. \A m : InList(at, m)' = (InList(at, m) /\ m # mine[t])
  <2>1. \A j \in Nat : Kept(j) /\ at[j] = mine[t] => j = q
    BY <1>1 DEF ListInv, NodeInv
  <2>2. \A k \in Nat : Kept(k) /\ k # q => at[k] # mine[t]
    BY <2>1
  <2>3. at[q] = mine[t]
    BY <1>1
  <2> QED
    BY <1>3, <2>2, <2>3 DEF InList
<1>5. InList(at, mine[t])
  BY <1>1 DEF InList
<1>6. NodeInv(at)'
  <2> SUFFICES ASSUME NEW k \in Nat, Kept(k), k # q
               PROVE  /\ value[at[k]] = log[k] /\ refs'[at[k]] = Cardinality(Readers(k)')
                      /\ next[at[k]] = IF k < Len(log) THEN at[k + 1] ELSE Null
                      /\ \A j \in Nat : Kept(j) /\ j # q /\ at[j] = at[k] => j = k
    BY <1>2, <1>3 DEF NodeInv
  <2>1. /\ value[at[k]] = log[k] /\ refs[at[k]] = Cardinality(Readers(k))
        /\ next[at[k]] = IF k < Len(log) THEN at[k + 1] ELSE Null
        /\ \A j \in Nat : Kept(j) /\ at[j] = at[k] => j = k
    BY DEF ListInv, NodeInv
  <2>2. at[k] \in Nodes /\ at[k] # mine[t]
    BY <1>1, <2>1 DEF ListInv, Shape, Kept
  <2>3. refs'[at[k]] = refs[at[k]] /\ Readers(k)' = Readers(k)
    BY <1>1, <1>2, <2>2
  <2> QED
    BY <2>1, <2>3
<1>7. FirstInv(at)'
  BY <1>0, <1>1, <1>2 DEF FirstInv, Returning
<1>8. Shape(at, stk, n)'
  BY <1>2 DEF ListInv, Shape
<1>9. ReaderInv(at, n)'
  <2>1. next[mine[t]] = at[pos[t]] /\ pos[t] >= 2 /\ mine[t] = at[pos[t] - 1] /\ pos[t] - 1 = q
    <3>1. next[at[q]] = at[q + 1] /\ pos[t] \in Nat /\ q + 1 = pos[t]
      BY <1>0, <1>1, Sizes DEF ListInv, NodeInv
    <3> QED
      BY <1>1, <3>1
  <2>2. \A k : ~Kept(k) => ~Kept(k)'
    BY <1>3, <1>2 DEF Kept
  <2>3. ~Kept(q)'
    BY <1>3
  <2>4. \A c \in Consumers :
          /\ pos[c] <= n /\ id[c] = At(at, pos[c])
          /\ pc'[c] = "advance" => pos[c] < n
          /\ pc'[c] \in {"release"} \cup Returning => pos[c] >= 2 /\ mine[c] = at[pos[c] - 1]
          /\ pc'[c] \in Returning => ~Kept(pos[c] - 1)' /\ next[mine[c]] = at[pos[c]]
          /\ pc'[c] = "sethead" => seen[c] = at[pos[c]]
    <3> SUFFICES ASSUME NEW c \in Consumers
                 PROVE  /\ pos[c] <= n /\ id[c] = At(at, pos[c])
                        /\ pc'[c] = "advance" => pos[c] < n
                        /\ pc'[c] \in {"release"} \cup Returning => pos[c] >= 2 /\ mine[c] = at[pos[c] - 1]
                        /\ pc'[c] \in Returning => ~Kept(pos[c] - 1)' /\ next[mine[c]] = at[pos[c]]
                        /\ pc'[c] = "sethead" => seen[c] = at[pos[c]]
      OBVIOUS
    <3>1. CASE c = t
      BY <1>2, <2>1, <2>3, <3>1 DEF ListInv, ReaderInv
    <3>2. CASE c # t
      BY <1>0, <1>2, <2>2, <3>2 DEF ListInv, ReaderInv
    <3> QED
      BY <3>1, <3>2
  <2> QED
    BY <1>2, <2>4 DEF ReaderInv
<1>10. TailInv(at, n)'
  BY <1>2 DEF ListInv, TailInv, Swinging
<1>11. /\ \A u \in Threads \ {t} : Owning(u)' = Owning(u) /\ (pc'[u] \in Returning) = (pc[u] \in Returning)
       /\ ~Owning(t) /\ Owning(t)' /\ pc[t] \notin Returning /\ pc'[t] \in Returning
       /\ \A u \in Threads : Filled(u)' = Filled(u) /\ (pc'[u] \in Filling) = (pc[u] \in Filling)
       /\ ~Filled(t)
  BY <1>2 DEF Owning, Filled, Filling, Returning, Pushing
<1>12. \A m : OnStack(stk, m)' = OnStack(stk, m)
  BY DEF OnStack
<1>13. \A u \in Threads : Owning(u) => u # t /\ mine[u] # mine[t]
  BY <1>5, <1>11 DEF ListInv, OwnInv
<1>14. mine[t] \in Nodes \ heap /\ ~OnStack(stk, mine[t])
  BY <1>1, <1>5 DEF ListInv, PlaceInv
<1>15. OwnInv(at, stk)'
  BY <1>2, <1>4, <1>11, <1>12, <1>13, <1>14 DEF ListInv, OwnInv
<1>16. PlaceInv(at, stk)'
  BY <1>2, <1>4, <1>11, <1>12, <1>14 DEF ListInv, PlaceInv
<1>17. ValueInv(at)'
  BY <1>2, <1>4, <1>11 DEF ListInv, ValueInv
<1>18. FillInv'
  <2>1. \A u \in Threads : Filled(u) => Owning(u)
    BY DEF Owning, Filled
  <2>2. \A u \in Threads : Filled(u) => mine[u] \in Nodes /\ mine[u] # mine[t]
    BY <1>13, <2>1 DEF ListInv, OwnInv
  <2>3. \A u \in Threads : Publishing(u)' = Publishing(u)
    BY <1>2 DEF Publishing
  <2> QED
    BY <1>2, <1>11, <2>2, <2>3 DEF ListInv, FillInv
<1>19. StackInv(stk)'
  BY <1>2 DEF ListInv, StackInv
<1>20. PushInv'
  BY <1>2 DEF ListInv, PushInv
<1>21. PopInv(at, stk)'
  BY <1>2, <1>11, <1>12 DEF ListInv, PopInv
<1>22. AppendInv(at, n)'
  BY <1>2 DEF ListInv, AppendInv
<1>23. AloneInv(at, n)'
  <2>1. alone # Null => alone \in Threads
    BY DEF Typed, TypeOK, Threads
  <2> QED
    BY <1>2, <2>1 DEF ListInv, AloneInv, Publishing
<1> QED
  BY <1>6, <1>7, <1>8, <1>9, <1>10, <1>15, <1>16, <1>17, <1>18, <1>19, <1>20, <1>21, <1>22, <1>23 DEF ListInv

LEMMA ReleaseKeeps ==
  ASSUME NEW at, NEW stk, NEW n, NEW t \in Threads, ProducersRead, Typed, ListInv(at, stk, n), Release(t),
         refs[mine[t]] # 1
  PROVE  ListInv(at, stk, n)'
<1>0. Threads = Consumers /\ n \in Nat /\ n <= Len(log)
  BY ThreadsRead DEF ListInv, Shape
<1>q. PICK q \in Nat : Leaves(at, t, q)
  BY ReleaseStep
<1>1. /\ q = pos[t] - 1 /\ q >= 1 /\ q < Len(log) /\ Kept(q) /\ mine[t] = at[q] /\ mine[t] \in Nodes
      /\ refs[at[q]] = Cardinality(Readers(q))
      /\ \A k \in Nat : Readers(k)' = IF k = q THEN Readers(q) \ {t} ELSE Readers(k)
      /\ t \in Readers(q) /\ IsFiniteSet(Readers(q))
      /\ Cardinality(Readers(q) \ {t}) = Cardinality(Readers(q)) - 1
      /\ (Readers(q) \ {t} = {}) = (refs[at[q]] = 1)
  BY <1>q DEF Leaves
<1>2. /\ pc[t] = "release" /\ pc'[t] = "idle"
      /\ \A u \in Threads \ {t} : pc'[u] = pc[u] /\ mine'[u] = mine[u] /\ assumed'[u] = assumed[u]
                                  /\ seen'[u] = seen[u] /\ msg'[u] = msg[u]
      /\ refs'[mine[t]] = refs[mine[t]] - 1
      /\ \A m \in Nodes : m # mine[t] => refs'[m] = refs[m]
      /\ UNCHANGED <<next, value, tail, top, heap, id, pos, log, alone>>
  BY <1>1 DEF Release, Return, Goto, Typed, TypeOK, history, counts
<1>3. \A k : Kept(k)' = Kept(k)
  <2>1. \A k \in Nat : (Readers(k)' # {}) = (Readers(k) # {})
    BY <1>1, <1>2
  <2>2. \A k : k \in 1..Len(log) => k \in Nat
    OBVIOUS
  <2> QED
    BY <1>2, <2>1, <2>2 DEF Kept
<1>4. \A m : InList(at, m)' = InList(at, m)
  BY <1>3 DEF InList
<1>5. InList(at, mine[t])
  BY <1>1 DEF InList
<1>6. NodeInv(at)'
  <2> SUFFICES ASSUME NEW k \in Nat, Kept(k)
               PROVE  /\ value[at[k]] = log[k] /\ refs'[at[k]] = Cardinality(Readers(k)')
                      /\ next[at[k]] = IF k < Len(log) THEN at[k + 1] ELSE Null
                      /\ \A j \in Nat : Kept(j) /\ at[j] = at[k] => j = k
    BY <1>2, <1>3 DEF NodeInv
  <2>1. /\ value[at[k]] = log[k] /\ refs[at[k]] = Cardinality(Readers(k))
        /\ next[at[k]] = IF k < Len(log) THEN at[k + 1] ELSE Null
        /\ \A j \in Nat : Kept(j) /\ at[j] = at[k] => j = k
    BY DEF ListInv, NodeInv
  <2>2. CASE k = q
    <3>1. Readers(k)' = Readers(q) \ {t}
      BY <1>1, <2>2
    <3>2. refs'[at[k]] = Cardinality(Readers(q)) - 1
      BY <1>1, <1>2, <2>2
    <3> QED
      BY <1>1, <2>1, <3>1, <3>2
  <2>3. CASE k # q
    <3>1. at[k] \in Nodes /\ at[k] # mine[t]
      BY <1>1, <2>1, <2>3 DEF ListInv, Shape, Kept
    <3>2. refs'[at[k]] = refs[at[k]] /\ Readers(k)' = Readers(k)
      BY <1>1, <1>2, <2>3, <3>1
    <3> QED
      BY <2>1, <3>2
  <2> QED
    BY <2>2, <2>3
<1>7. FirstInv(at)'
  <2>1. \A c \in Consumers : (pc'[c] \in Returning) = (pc[c] \in Returning)
    BY <1>0, <1>2 DEF Returning
  <2> QED
    BY <1>2, <1>3, <2>1 DEF ListInv, FirstInv
<1>8. Shape(at, stk, n)'
  BY <1>2 DEF ListInv, Shape
<1>9. ReaderInv(at, n)'
  BY <1>0, <1>2, <1>3 DEF ListInv, ReaderInv, Returning
<1>10. TailInv(at, n)'
  BY <1>2 DEF ListInv, TailInv, Swinging
<1>11. /\ \A u \in Threads : Owning(u)' = Owning(u) /\ Filled(u)' = Filled(u)
                             /\ (pc'[u] \in Returning) = (pc[u] \in Returning)
                             /\ (pc'[u] \in Filling) = (pc[u] \in Filling)
       /\ ~Owning(t) /\ ~Filled(t) /\ pc[t] \notin Returning /\ pc[t] \notin Filling
  BY <1>2 DEF Owning, Filled, Filling, Returning, Pushing
<1>12. \A m : OnStack(stk, m)' = OnStack(stk, m)
  BY DEF OnStack
<1>13. \A u \in Threads : Owning(u) => u # t /\ mine[u] # mine[t]
  BY <1>5, <1>11 DEF ListInv, OwnInv
<1>15. OwnInv(at, stk)'
  BY <1>2, <1>4, <1>11, <1>12 DEF ListInv, OwnInv
<1>16. PlaceInv(at, stk)'
  BY <1>2, <1>4, <1>11, <1>12 DEF ListInv, PlaceInv
<1>17. ValueInv(at)'
  BY <1>2, <1>4, <1>11 DEF ListInv, ValueInv
<1>18. FillInv'
  <2>1. \A u \in Threads : Filled(u) => Owning(u) /\ u # t
    BY <1>11 DEF Owning, Filled
  <2>2. \A u \in Threads : Filled(u) => mine[u] \in Nodes /\ mine[u] # mine[t] /\ mine'[u] = mine[u]
    BY <1>2, <1>13, <2>1 DEF ListInv, OwnInv
  <2>3. \A u \in Threads : Publishing(u)' = Publishing(u) /\ (Publishing(u) => u # t)
    BY <1>2 DEF Publishing
  <2> QED
    BY <1>2, <1>11, <2>1, <2>2, <2>3 DEF ListInv, FillInv
<1>19. StackInv(stk)'
  BY <1>2 DEF ListInv, StackInv
<1>20. PushInv'
  BY <1>2 DEF ListInv, PushInv
<1>21. PopInv(at, stk)'
  <2> SUFFICES ASSUME NEW u \in Threads, pc'[u] \in {"pop", "popcas"}
               PROVE  /\ pc'[u] = "popcas" => assumed'[u] # Null
                      /\ \/ assumed'[u] = Null \/ OnStack(stk, assumed'[u])
                         \/ \E w \in Threads : pc'[w] \in Filling /\ mine'[w] = assumed'[u]
                         \/ \E k \in pos[u] + 1..Len(log) : at[k] = assumed'[u]
                      /\ pc'[u] = "popcas" =>
                           \A i \in 1..Len(stk) : stk[i] = assumed'[u] => seen'[u] = Below(stk, i)
    BY <1>2, <1>12 DEF PopInv
  <2>1. u # t /\ pc'[u] = pc[u] /\ assumed'[u] = assumed[u] /\ seen'[u] = seen[u]
    BY <1>2
  <2>2. \A w \in Threads : pc[w] \in Filling => pc'[w] \in Filling /\ mine'[w] = mine[w]
    BY <1>2, <1>11
  <2> QED
    BY <2>1, <2>2 DEF ListInv, PopInv
<1>22. AppendInv(at, n)'
  BY <1>2 DEF ListInv, AppendInv
<1>23. AloneInv(at, n)'
  <2>1. alone # Null => alone \in Threads
    BY DEF Typed, TypeOK, Threads
  <2> QED
    BY <1>2, <2>1 DEF ListInv, AloneInv, Publishing
<1> QED
  BY <1>6, <1>7, <1>8, <1>9, <1>10, <1>15, <1>16, <1>17, <1>18, <1>19, <1>20, <1>21, <1>22, <1>23 DEF ListInv

LEMMA SetHeadKeeps ==
  ASSUME NEW at, NEW stk, NEW n, NEW t \in Threads, ProducersRead, Typed, ListInv(at, stk, n), SetHead(t)
  PROVE  ListInv(at, stk, n)'
<1>0. Threads = Consumers /\ n \in Nat /\ n <= Len(log)
  BY ThreadsRead DEF ListInv, Shape
<1>1. Owning(t) /\ pc[t] = "sethead" /\ mine[t] \in Nodes
  BY DEF SetHead, Goto, Owning, Returning, ListInv, OwnInv
<1>2. /\ pc'[t] = "push" /\ next'[Sentinel] = seen[t] /\ value'[mine[t]] = 0
      /\ \A m \in Nodes : next'[m] = next[m] /\ (m # mine[t] => value'[m] = value[m])
      /\ \A u \in Threads \ {t} : pc'[u] = pc[u]
      /\ UNCHANGED <<refs, tail, top, heap, id, assumed, seen, mine, msg, pos, log, alone>>
  BY <1>1, QueueAssumption DEF SetHead, Goto, Typed, TypeOK, history, counts, locals
<1>3. /\ \A c \in Consumers : Released(c)' = Released(c)
      /\ \A k : Readers(k)' = Readers(k) /\ Kept(k)' = Kept(k)
      /\ \A m : InList(at, m)' = InList(at, m)
  <2>1. \A c \in Consumers : (pc'[c] = "release") = (pc[c] = "release")
    BY <1>0, <1>1, <1>2
  <2> QED
    BY <1>2, <2>1, SameKept
<1>4. /\ \A u \in Threads : Owning(u)' = Owning(u) /\ Filled(u)' = Filled(u)
                            /\ (pc'[u] \in Filling) = (pc[u] \in Filling)
      /\ \A u \in Threads \ {t} : (pc'[u] \in Returning) = (pc[u] \in Returning)
      /\ ~Filled(t) /\ pc'[t] \notin Returning
  BY <1>1, <1>2 DEF Owning, Filled, Filling, Returning, Pushing
<1>5. \A m : OnStack(stk, m)' = OnStack(stk, m)
  BY DEF OnStack
<1>6. /\ ~InList(at, mine[t]) /\ \A u \in Threads : Owning(u) /\ mine[u] = mine[t] => u = t
      /\ \A u \in Threads : Owning(u) => mine[u] \in Nodes
  BY <1>1 DEF ListInv, OwnInv
<1>7. NodeInv(at)'
  <2>1. \A k \in Nat : Kept(k) => at[k] \in Nodes /\ at[k] # mine[t]
    BY <1>6 DEF InList, Kept, ListInv, Shape
  <2> QED
    BY <1>2, <1>3, <2>1 DEF ListInv, NodeInv
<1>8. FirstInv(at)'
  <2>1. pos[t] \in Nat /\ pos[t] >= 2 /\ pos[t] <= n /\ ~Kept(pos[t] - 1) /\ seen[t] = at[pos[t]]
    BY <1>0, <1>1, Sizes DEF ListInv, ReaderInv, Returning
  <2>2. Kept(pos[t])
    BY <1>0, <2>1, KeptAhead, Sizes
  <2>3. PICK k \in Nat : k = pos[t]
    BY <2>1
  <2>4. Kept(k)' /\ ~Kept(k - 1)' /\ next'[Sentinel] = at[k] /\ Len(log') > 0
    BY <1>0, <1>2, <1>3, <2>1, <2>2, <2>3
  <2> QED
    BY <2>4 DEF FirstInv
<1>9. Shape(at, stk, n)'
  BY <1>2 DEF ListInv, Shape
<1>10. ReaderInv(at, n)'
  <2>1. \A c \in Consumers : pc'[c] \in Returning => c # t /\ next'[mine[c]] = next[mine[c]]
    BY <1>0, <1>2, <1>4, <1>6 DEF Owning
  <2> QED
    BY <1>0, <1>2, <1>3, <2>1 DEF ListInv, ReaderInv, Returning
<1>11. TailInv(at, n)'
  BY <1>1, <1>2 DEF ListInv, TailInv, Swinging
<1>12. OwnInv(at, stk)'
  BY <1>2, <1>3, <1>4, <1>5 DEF ListInv, OwnInv
<1>13. PlaceInv(at, stk)'
  BY <1>2, <1>3, <1>4, <1>5 DEF ListInv, PlaceInv
<1>14. ValueInv(at)'
  BY <1>2, <1>3, <1>4 DEF ListInv, ValueInv
<1>15. FillInv'
  <2>1. \A u \in Threads : Filled(u) => Owning(u) /\ u # t
    BY <1>4 DEF Owning, Filled
  <2>2. \A u \in Threads : Publishing(u)' = Publishing(u)
    BY <1>1, <1>2 DEF Publishing
  <2> QED
    BY <1>2, <1>4, <1>6, <2>1, <2>2 DEF ListInv, FillInv
<1>16. StackInv(stk)'
  BY <1>2 DEF ListInv, StackInv, Shape
<1>17. PushInv'
  <2>1. \A u \in Threads : pc'[u] = "pushcas" => pc[u] = "pushcas" /\ Owning(u)
    BY <1>2 DEF Owning, Pushing
  <2> QED
    BY <1>2, <1>6, <2>1 DEF ListInv, PushInv
<1>18. PopInv(at, stk)'
  BY <1>1, <1>2, <1>4, <1>5 DEF ListInv, PopInv
<1>19. AppendInv(at, n)'
  BY <1>1, <1>2 DEF ListInv, AppendInv
<1>20. AloneInv(at, n)'
  <2>1. alone # Null => alone \in Threads
    BY DEF Typed, TypeOK, Threads
  <2> QED
    BY <1>1, <1>2, <2>1 DEF ListInv, AloneInv, Publishing
<1> QED
  BY <1>7, <1>8, <1>9, <1>10, <1>11, <1>12, <1>13, <1>14, <1>15, <1>16, <1>17, <1>18, <1>19, <1>20 DEF ListInv

(***************************************************************************)
(* Every action keeps the types.                                           *)
(***************************************************************************)
LEMMA Pointed ==
  ASSUME NEW at, NEW stk, NEW n, NEW t \in Threads, ProducersRead, Typed, ListInv(at, stk, n)
  PROVE  /\ Owning(t) => mine[t] \in Nodes
         /\ pc[t] \in {"next", "check", "help", "link", "swing"} => assumed[t] \in Nodes \cup {Sentinel}
         /\ pc[t] = "help" => seen[t] \in Nodes
         /\ pc[t] \in {"swing", "storetail"} => mine[t] \in Nodes
         /\ Publishing(t) => msg[t] \in Messages
<1>0. /\ Threads = Consumers /\ n \in Nat /\ n <= Len(log) /\ Len(log) \in Nat
      /\ \A k \in 1..Len(log) : at[k] \in Nodes
  BY ThreadsRead, Sizes DEF ListInv, Shape
<1>1. Owning(t) => mine[t] \in Nodes
  BY DEF ListInv, OwnInv
<1>2. Publishing(t) => msg[t] \in Messages
  BY DEF ListInv, FillInv
<1>3. CASE pc[t] = "storetail"
  <2>1. mine[t] \in Nodes
    BY <1>0, <1>3 DEF ListInv, AloneInv
  <2> QED
    BY <1>1, <1>2, <1>3, <2>1
<1>4. CASE pc[t] \in {"next", "check", "help", "link", "swing"}
  <2>1. PICK j \in pos[t]..n :
          /\ assumed[t] = At(at, j)
          /\ pc[t] = "help"  => j < Len(log) /\ seen[t] = at[j + 1]
          /\ pc[t] = "swing" => j < Len(log) /\ mine[t] = at[j + 1]
    BY <1>4 DEF ListInv, AppendInv
  <2>2. j \in 0..Len(log)
    BY <1>0, Sizes
  <2>3. At(at, j) \in Nodes \cup {Sentinel}
    BY <1>0, <2>2 DEF At
  <2> QED
    BY <1>0, <1>1, <1>2, <1>4, <2>1, <2>2, <2>3
<1> QED
  BY <1>1, <1>2, <1>3, <1>4

LEMMA StepTyped ==
  ASSUME NEW at, NEW stk, NEW n, NEW t \in Threads, ProducersRead, Typed, ListInv(at, stk, n), Step(t)
  PROVE  Typed'
<1>0. Threads = Consumers /\ MaxQ \in Nat
  BY ThreadsRead, QueueAssumption, FS_CardinalityType DEF MaxQ
<1>1. /\ Owning(t) => mine[t] \in Nodes
      /\ pc[t] \in {"next", "check", "help", "link", "swing"} => assumed[t] \in Nodes \cup {Sentinel}
      /\ pc[t] = "help" => seen[t] \in Nodes
      /\ pc[t] \in {"swing", "storetail"} => mine[t] \in Nodes
      /\ Publishing(t) => msg[t] \in Messages
  BY Pointed
<1>2. Sentinel \notin Nodes \cup {Null} /\ Null \notin Nodes
  BY QueueAssumption
<1>3. CASE PopNext(t)
  BY <1>0, <1>1, <1>2, <1>3 DEF PopNext, Goto, Typed, TypeOK, Labels, Pointers, history, counts, locals
<1>4. CASE Pop(t)
  BY <1>0, <1>1, <1>2, <1>4 DEF Pop, Goto, Typed, TypeOK, Labels, Pointers, history, counts, locals
<1>5. CASE PopFails(t)
  BY <1>0, <1>1, <1>2, <1>5 DEF PopFails, Goto, Typed, TypeOK, Labels, Pointers, history, counts, locals
<1>6. CASE NewNode(t)
  BY <1>0, <1>1, <1>2, <1>6 DEF NewNode, Goto, Typed, TypeOK, Labels, Pointers, history, counts, locals
<1>7. CASE Fill(t)
  <2>1. mine[t] \in Nodes /\ msg[t] \in Messages
    BY <1>1, <1>7 DEF Fill, Goto, Owning, Filling, Publishing
  <2>2. pc' \in [Threads -> Labels] /\ \A u \in Threads : pc'[u] = "pushlink" => pc[u] = "pushlink"
    BY <1>7 DEF Fill, Goto, Typed, TypeOK, Labels
  <2>3. /\ next' = [next EXCEPT ![mine[t]] = Null] /\ refs' = [refs EXCEPT ![mine[t]] = MaxQ]
        /\ value' = [value EXCEPT ![mine[t]] = msg[t]]
        /\ UNCHANGED <<tail, top, heap, id, assumed, seen, mine, msg, pos, log, sent, closed, alone>>
    BY <1>7 DEF Fill, References, locals, history, counts
  <2> QED
    BY <1>0, <1>2, <2>1, <2>2, <2>3 DEF Typed, TypeOK
<1>8. CASE LoadTail(t)
  BY <1>0, <1>1, <1>2, <1>8 DEF LoadTail, Goto, Typed, TypeOK, Labels, Pointers, history, counts, locals
<1>9. CASE LoadNext(t)
  BY <1>0, <1>1, <1>2, <1>9 DEF LoadNext, Goto, Typed, TypeOK, Labels, Pointers, history, counts, locals
<1>10. CASE Recheck(t)
  <2>1. pc' \in [Threads -> Labels] /\ \A u \in Threads : pc'[u] = "pushlink" => pc[u] = "pushlink"
    BY <1>10 DEF Recheck, Goto, Typed, TypeOK, Labels
  <2>2. UNCHANGED <<next, refs, value, tail, top, heap, id, assumed, seen, mine, msg, pos, log, sent, closed, alone>>
    BY <1>10 DEF Recheck, locals, history, counts
  <2> QED
    BY <2>1, <2>2 DEF Typed, TypeOK
<1>11. CASE Help(t)
  BY <1>0, <1>1, <1>2, <1>11 DEF Help, Goto, Typed, TypeOK, Labels, Pointers, history, counts, locals
<1>12. CASE Link(t)
  <2>1. mine[t] \in Nodes
    BY <1>1, <1>12 DEF Link, Goto, Return, Owning, Filling, Returning, Pushing
  <2>2. msg[t] \in Messages
    BY <1>1, <1>12 DEF Link, Goto, Publishing
  <2>3. Append(log, msg[t]) \in Seq(Messages)
    BY <2>2 DEF Typed, TypeOK
  <2> QED
    BY <1>0, <1>1, <1>2, <1>12, <2>1, <2>2, <2>3 DEF Link, Goto, Typed, TypeOK, Labels, Pointers, history, counts, locals
<1>13. CASE LinkFails(t)
  <2>1. pc' \in [Threads -> Labels] /\ \A u \in Threads : pc'[u] = "pushlink" => pc[u] = "pushlink"
    BY <1>13 DEF LinkFails, Goto, Typed, TypeOK, Labels
  <2>2. UNCHANGED <<next, refs, value, tail, top, heap, id, assumed, seen, mine, msg, pos, log, sent, closed, alone>>
    BY <1>13 DEF LinkFails, locals, history, counts
  <2> QED
    BY <2>1, <2>2 DEF Typed, TypeOK
<1>14. CASE Swing(t)
  BY <1>0, <1>1, <1>2, <1>14 DEF Swing, Goto, Return, Typed, TypeOK, Labels, Pointers, history, counts, locals
<1>15. CASE UnsafeLink(t)
  <2>1. mine[t] \in Nodes
    BY <1>1, <1>15 DEF UnsafeLink, Goto, Return, Owning, Filling, Returning, Pushing
  <2>2. msg[t] \in Messages
    BY <1>1, <1>15 DEF UnsafeLink, Goto, Publishing
  <2>3. Append(log, msg[t]) \in Seq(Messages)
    BY <2>2 DEF Typed, TypeOK
  <2> QED
    BY <1>0, <1>1, <1>2, <1>15, <2>1, <2>2, <2>3 DEF UnsafeLink, Goto, Typed, TypeOK, Labels, Pointers, history, counts, locals
<1>16. CASE UnsafeTail(t)
  BY <1>0, <1>1, <1>2, <1>16 DEF UnsafeTail, Goto, Return, Typed, TypeOK, Labels, Pointers, history, counts, locals
<1>17. CASE Advance(t)
  <2>1. pc' \in [Threads -> Labels] /\ \A u \in Threads : pc'[u] = "pushlink" => pc[u] = "pushlink"
    BY <1>17 DEF Advance, Goto, Typed, TypeOK, Labels
  <2>2. id[t] \in Nodes \cup {Sentinel} /\ next[id[t]] \in Nodes
    BY <1>0, <1>17 DEF Advance, Typed, TypeOK
  <2>3. /\ id' = [id EXCEPT ![t] = next[id[t]]] /\ pos' = [pos EXCEPT ![t] = @ + 1]
        /\ mine' = mine \/ (id[t] \in Nodes /\ mine' = [mine EXCEPT ![t] = id[t]])
        /\ UNCHANGED <<next, refs, value, tail, top, heap, assumed, seen, msg, log, sent, closed, alone>>
    BY <1>17, <2>2 DEF Advance, counts
  <2>4. id' \in [Consumers -> Nodes \cup {Sentinel}]
    BY <1>0, <2>2, <2>3 DEF Typed, TypeOK
  <2>5. pos' \in [Consumers -> Nat]
    BY <1>0, <2>3 DEF Typed, TypeOK
  <2>6. mine' \in [Threads -> Nodes \cup {Null}]
    BY <2>3 DEF Typed, TypeOK
  <2> QED
    BY <2>1, <2>3, <2>4, <2>5, <2>6 DEF Typed, TypeOK
<1>18. CASE Release(t)
  <2>1. PICK q \in Nat : Leaves(at, t, q)
    BY <1>18, ReleaseStep
  <2>2. refs[mine[t]] - 1 \in 0..MaxQ
    <3>1. t \in Readers(q) /\ IsFiniteSet(Readers(q)) /\ mine[t] \in Nodes /\ refs[mine[t]] = Cardinality(Readers(q))
      BY <2>1 DEF Leaves
    <3>2. Cardinality(Readers(q)) # 0
      BY <3>1, FS_EmptySet
    <3>3. refs[mine[t]] \in 0..MaxQ
      BY <3>1 DEF Typed, TypeOK
    <3> QED
      BY <1>0, <3>1, <3>2, <3>3
  <2>3. pc' \in [Threads -> Labels] /\ \A u \in Threads : pc'[u] = "pushlink" => pc[u] = "pushlink"
    BY <1>18 DEF Release, Goto, Return, Typed, TypeOK, Labels
  <2>4. /\ mine[t] \in Nodes /\ refs' = [refs EXCEPT ![mine[t]] = refs[mine[t]] - 1]
        /\ UNCHANGED <<next, value, tail, top, heap, id, pos, log, sent, closed, alone>>
    BY <1>18, <2>1 DEF Release, Leaves, history, counts
  <2>5. refs' \in [Nodes -> 0..MaxQ]
    BY <2>2, <2>4 DEF Typed, TypeOK
  <2>6. /\ assumed' \in [Threads -> Pointers] /\ seen' \in [Threads -> Nodes \cup {Null}]
        /\ mine' \in [Threads -> Nodes \cup {Null}] /\ msg' \in [Threads -> Messages \cup {0}]
        /\ \A u \in Threads : assumed'[u] = assumed[u] \/ assumed'[u] = Null
    BY <1>18 DEF Release, Return, locals, Typed, TypeOK, Pointers
  <2> QED
    BY <1>2, <2>3, <2>4, <2>5, <2>6 DEF Typed, TypeOK
<1>19. CASE LastNext(t)
  <2>1. mine[t] \in Nodes
    BY <1>1, <1>19 DEF LastNext, Goto, Return, Owning, Filling, Returning, Pushing
  <2> QED
    BY <1>0, <1>1, <1>2, <1>19, <2>1 DEF LastNext, Goto, Typed, TypeOK, Labels, Pointers, history, counts, locals
<1>20. CASE SetHead(t)
  <2>1. mine[t] \in Nodes
    BY <1>1, <1>20 DEF SetHead, Goto, Return, Owning, Filling, Returning, Pushing
  <2> QED
    BY <1>0, <1>1, <1>2, <1>20, <2>1 DEF SetHead, Goto, Typed, TypeOK, Labels, Pointers, history, counts, locals
<1>21. CASE PushLoad(t)
  BY <1>0, <1>1, <1>2, <1>21 DEF PushLoad, Goto, Typed, TypeOK, Labels, Pointers, history, counts, locals
<1>22. CASE PushLink(t)
  <2>1. mine[t] \in Nodes
    BY <1>1, <1>22 DEF PushLink, Goto, Return, Owning, Filling, Returning, Pushing
  <2> QED
    BY <1>0, <1>1, <1>2, <1>22, <2>1 DEF PushLink, Goto, Typed, TypeOK, Labels, Pointers, history, counts, locals
<1>23. CASE Push(t)
  <2>1. mine[t] \in Nodes
    BY <1>1, <1>23 DEF Push, Goto, Return, Owning, Filling, Returning, Pushing
  <2> QED
    BY <1>0, <1>1, <1>2, <1>23, <2>1 DEF Push, Goto, Return, Typed, TypeOK, Labels, Pointers, history, counts, locals
<1>24. CASE PushFails(t)
  BY <1>0, <1>1, <1>2, <1>24 DEF PushFails, Goto, Typed, TypeOK, Labels, Pointers, history, counts, locals
<1> QED
  BY <1>3, <1>4, <1>5, <1>6, <1>7, <1>8, <1>9, <1>10, <1>11, <1>12, <1>13, <1>14, <1>15, <1>16, <1>17, <1>18, <1>19, <1>20, <1>21, <1>22, <1>23, <1>24 DEF Step

(***************************************************************************)
(* What the chain of successors reaches.                                   *)
(***************************************************************************)
(* Induction on a set of numbers, from the well-foundedness of <.          *)
LEMMA NatSetInduction ==
  ASSUME NEW S, 0 \in S, \A i \in Nat : i \in S => i + 1 \in S
  PROVE  Nat \subseteq S
<1> SUFFICES ASSUME Nat \ S # {} PROVE FALSE
  OBVIOUS
<1>1. PICK i \in Nat \ S : \A j \in Nat \ S : ~(<<j, i>> \in OpToRel(<, Nat))
  BY NatLessThanWellFounded, WFMin
<1>2. i # 0
  OBVIOUS
<1>3. i - 1 \in S
  <2>1. i - 1 \in Nat
    BY <1>2
  <2>2. <<i - 1, i>> \in OpToRel(<, Nat)
    BY <2>1 DEF OpToRel
  <2> QED
    BY <1>1, <2>1, <2>2
<1> QED
  BY <1>2, <1>3

(* The nodes within k steps, as the recursion of ListFrom counts them.     *)
Beyond(S) == S \cup ({next[m] : m \in S} \ {Null})
Reaches(first, k, f) ==
  f = [i \in 0..k |-> IF i = 0 THEN {first} \ {Null}
                      ELSE f[i - 1] \cup ({next[m] : m \in f[i - 1]} \ {Null})]

LEMMA ReachesExists ==
  ASSUME NEW first, NEW k \in Nat
  PROVE  \E f : Reaches(first, k, f)
<1> DEFINE S == {i \in Nat : \E f : Reaches(first, i, f)}
<1>1. 0 \in S
  <2> DEFINE f == [i \in 0..0 |-> {first} \ {Null}]
  <2>1. Reaches(first, 0, f)
    BY DEF Reaches
  <2> QED
    BY <2>1
<1>2. \A i \in Nat : i \in S => i + 1 \in S
  <2> SUFFICES ASSUME NEW i \in Nat, NEW f, Reaches(first, i, f) PROVE \E g : Reaches(first, i + 1, g)
    OBVIOUS
  <2> DEFINE g == [j \in 0..(i + 1) |-> IF j <= i THEN f[j] ELSE Beyond(f[i])]
  <2>1. \A j \in 0..i : f[j] = IF j = 0 THEN {first} \ {Null} ELSE Beyond(f[j - 1])
    BY DEF Reaches, Beyond
  <2>2. \A j \in 0..i : g[j] = f[j]
    OBVIOUS
  <2>3. g[i + 1] = Beyond(g[i])
    BY <2>2
  <2>4. ASSUME NEW j \in 0..(i + 1)
        PROVE  g[j] = IF j = 0 THEN {first} \ {Null} ELSE Beyond(g[j - 1])
    <3>1. CASE j = i + 1
      BY <3>1, <2>3
    <3>2. CASE j = 0
      BY <3>2, <2>1, <2>2
    <3>3. CASE j \in 1..i
      <4>1. j \in 0..i /\ j - 1 \in 0..i /\ j # 0
        BY <3>3
      <4> HIDE DEF g
      <4> QED
        BY <4>1, <2>1, <2>2
    <3> QED
      BY <3>1, <3>2, <3>3
  <2>5. g = [j \in 0..(i + 1) |-> g[j]]
    OBVIOUS
  <2> HIDE DEF g
  <2>6. Reaches(first, i + 1, g)
    BY <2>4, <2>5 DEF Reaches, Beyond
  <2> QED
    BY <2>6
<1> HIDE DEF S
<1>3. Nat \subseteq S
  BY <1>1, <1>2, NatSetInduction
<1> QED
  BY <1>3 DEF S

(* If the nodes c[1], ..., c[l] are chained and there are not too many of  *)
(* them, they are what ListFrom finds.                                     *)
LEMMA ListFromChain ==
  ASSUME NEW first, NEW c, NEW l \in Nat, l <= Cardinality(Nodes) + 1,
         l = 0 => first = Null, l > 0 => first = c[1],
         \A i \in 1..l : c[i] # Null /\ next[c[i]] = IF i < l THEN c[i + 1] ELSE Null
  PROVE  \A m : m \in ListFrom(first) <=> \E i \in 1..l : m = c[i]
<1> DEFINE K == Cardinality(Nodes)
           f == CHOOSE g : Reaches(first, K, g)
           Upto(k) == {c[i] : i \in {j \in 1..l : j <= k + 1}}
<1>1. K \in Nat
  BY QueueAssumption, FS_CardinalityType
<1>2. Reaches(first, K, f)
  BY <1>1, ReachesExists
<1>3. ListFrom(first) = f[K]
  BY DEF ListFrom, Reaches
<1> HIDE DEF K, f
<1>4. \A i \in 0..K : f[i] = IF i = 0 THEN {first} \ {Null} ELSE Beyond(f[i - 1])
  BY <1>2 DEF Reaches, Beyond
<1>5. f[0] = Upto(0)
  <2>1. f[0] = {first} \ {Null}
    BY <1>1, <1>4
  <2>2. CASE l = 0
    BY <2>1, <2>2
  <2>3. CASE l > 0
    <3>1. {j \in 1..l : j <= 0 + 1} = {1} /\ c[1] # Null
      BY <2>3
    <3> QED
      BY <2>1, <2>3, <3>1
  <2> QED
    BY <2>2, <2>3
<1>6. \A k \in Nat : Beyond(Upto(k)) = Upto(k + 1)
  <2> SUFFICES ASSUME NEW k \in Nat PROVE Beyond(Upto(k)) = Upto(k + 1)
    OBVIOUS
  <2>1. \A x : x \in Beyond(Upto(k)) => x \in Upto(k + 1)
    <3> SUFFICES ASSUME NEW x \in Beyond(Upto(k)) PROVE x \in Upto(k + 1)
      OBVIOUS
    <3>1. CASE x \in Upto(k)
      <4>1. PICK i \in 1..l : i <= k + 1 /\ x = c[i]
        BY <3>1
      <4>2. i <= k + 1 + 1
        BY <4>1
      <4> QED
        BY <4>1, <4>2
    <3>2. CASE x \notin Upto(k)
      <4>1. PICK m \in Upto(k) : x = next[m] /\ x # Null
        BY <3>2 DEF Beyond
      <4>2. PICK i \in 1..l : i <= k + 1 /\ m = c[i]
        BY <4>1
      <4>3. i < l /\ x = c[i + 1]
        BY <4>1, <4>2
      <4>4. i + 1 \in 1..l /\ i + 1 <= k + 1 + 1
        BY <4>2, <4>3
      <4> QED
        BY <4>3, <4>4
    <3> QED
      BY <3>1, <3>2
  <2>2. \A x : x \in Upto(k + 1) => x \in Beyond(Upto(k))
    <3> SUFFICES ASSUME NEW i \in 1..l, i <= k + 1 + 1 PROVE c[i] \in Beyond(Upto(k))
      OBVIOUS
    <3>1. CASE i <= k + 1
      <4>1. c[i] \in Upto(k)
        BY <3>1
      <4> QED
        BY <4>1 DEF Beyond
    <3>2. CASE i = k + 2
      <4>1. i - 1 \in 1..l /\ i - 1 <= k + 1 /\ i - 1 < l /\ (i - 1) + 1 = i
        BY <3>2
      <4>2. c[i - 1] \in Upto(k) /\ next[c[i - 1]] = c[i] /\ c[i] # Null
        BY <4>1
      <4> HIDE DEF Upto
      <4> QED
        BY <4>2 DEF Beyond
    <3> QED
      BY <3>1, <3>2
  <2> QED
    BY <2>1, <2>2
<1> HIDE DEF Upto
<1> DEFINE S == {k \in Nat : k <= K => f[k] = Upto(k)}
<1>7. 0 \in S
  BY <1>5
<1>8. \A k \in Nat : k \in S => k + 1 \in S
  <2> SUFFICES ASSUME NEW k \in Nat, k \in S, k + 1 <= K PROVE f[k + 1] = Upto(k + 1)
    OBVIOUS
  <2>1. k + 1 \in 0..K /\ k + 1 # 0 /\ (k + 1) - 1 = k /\ f[k] = Upto(k)
    BY <1>1
  <2>2. f[k + 1] = Beyond(f[k])
    BY <1>4, <2>1
  <2> QED
    BY <1>6, <2>1, <2>2
<1>9. Nat \subseteq S
  <2> HIDE DEF S
  <2> QED
    BY <1>7, <1>8, NatSetInduction
<1>10. f[K] = Upto(K)
  BY <1>1, <1>9
<1>11. Upto(K) = {c[i] : i \in 1..l}
  <2>1. \A i \in 1..l : i <= K + 1
    BY <1>1 DEF K
  <2> QED
    BY <2>1 DEF Upto
<1> QED
  BY <1>3, <1>10, <1>11

(* There are at most as many of them as there are nodes.                   *)
LEMMA FewNodes ==
  ASSUME NEW c, NEW l \in Nat, \A i \in 1..l : c[i] \in Nodes,
         \A i, j \in 1..l : c[i] = c[j] => i = j
  PROVE  l <= Cardinality(Nodes)
<1> DEFINE g == [i \in 1..l |-> c[i]]
<1>1. g \in Injection(1..l, Nodes)
  BY DEF Injection, IsInjective
<1>2. Cardinality(1..l) <= Cardinality(Nodes)
  <2> HIDE DEF g
  <2> QED
    BY <1>1, QueueAssumption, FS_Injection
<1>3. Cardinality(1..l) = l
  BY FS_Interval
<1> QED
  BY <1>2, <1>3

LEMMA ListFromAt ==
  ASSUME NEW at, NEW stk, NEW n, Typed, ListInv(at, stk, n), NEW p \in Nat, p <= Len(log),
         Kept(p) \/ (p = 0 /\ \E c \in Consumers : pos[c] = 0)
  PROVE  ListFrom(At(at, p)) = {At(at, j) : j \in p..Len(log)}
<1>0. Len(log) \in Nat /\ \A k \in 1..Len(log) : at[k] \in Nodes
  BY Sizes DEF ListInv, Shape
<1>1. \A j \in p..Len(log) : j > 0 => Kept(j)
  <2> SUFFICES ASSUME NEW j \in p..Len(log), j > 0 PROVE Kept(j)
    OBVIOUS
  <2>1. CASE Kept(p)
    BY <1>0, <2>1, KeptUp
  <2>2. CASE p = 0 /\ \E c \in Consumers : pos[c] = 0
    <3>1. PICK c \in Consumers : pos[c] = 0
      BY <2>2
    <3> QED
      BY <1>0, <3>1, KeptAhead
  <2> QED
    BY <2>1, <2>2
<1>2. \A j \in p..Len(log) : At(at, j) \in Nodes \cup {Sentinel} /\ (j > 0 => At(at, j) = at[j])
  BY <1>0 DEF At
<1>3. \A j \in p..Len(log) : next[At(at, j)] = IF j < Len(log) THEN At(at, j + 1) ELSE Null
  <2> SUFFICES ASSUME NEW j \in p..Len(log)
               PROVE  next[At(at, j)] = IF j < Len(log) THEN At(at, j + 1) ELSE Null
    OBVIOUS
  <2>1. At(at, j + 1) = at[j + 1]
    BY DEF At
  <2>2. CASE j > 0
    BY <1>0, <1>1, <1>2, <2>1, <2>2 DEF ListInv, NodeInv
  <2>3. CASE j = 0
    <3>1. PICK c \in Consumers : pos[c] = 0
      BY <2>3 DEF Kept
    <3> QED
      BY <1>0, <2>1, <2>3, <3>1, NextAt DEF ListInv
  <2> QED
    BY <2>2, <2>3
<1> DEFINE l == Len(log) - p + 1
           c == [i \in 1..l |-> At(at, p + i - 1)]
<1>4. l \in Nat /\ l > 0 /\ c[1] = At(at, p)
  BY <1>0
<1>5. l <= Cardinality(Nodes) + 1
  <2> DEFINE q == IF p = 0 THEN 1 ELSE p
             m == Len(log) - q + 1
             d == [i \in 1..m |-> at[q + i - 1]]
  <2>1. m \in Nat /\ q \in Nat /\ q >= 1 /\ q >= p /\ l <= m + 1
    BY <1>0
  <2>2. \A i \in 1..m : q + i - 1 \in p..Len(log) /\ q + i - 1 > 0
    BY <1>0, <2>1
  <2>3. \A i \in 1..m : d[i] \in Nodes
    BY <1>0, <2>1, <2>2
  <2>4. \A i, j \in 1..m : d[i] = d[j] => i = j
    <3> SUFFICES ASSUME NEW i \in 1..m, NEW j \in 1..m, at[q + i - 1] = at[q + j - 1] PROVE i = j
      OBVIOUS
    <3>1. Kept(q + i - 1) /\ Kept(q + j - 1) /\ q + i - 1 \in Nat /\ q + j - 1 \in Nat
      BY <1>1, <2>1, <2>2
    <3>2. q + i - 1 = q + j - 1
      BY <3>1 DEF ListInv, NodeInv
    <3> QED
      BY <2>1, <3>2
  <2>5. m <= Cardinality(Nodes)
    <3> HIDE DEF m, d
    <3> QED
      BY <2>1, <2>3, <2>4, FewNodes
  <2> HIDE DEF m, d
  <2>6. Cardinality(Nodes) \in Nat
    BY QueueAssumption, FS_CardinalityType
  <2> HIDE DEF q, l
  <2> QED
    BY <1>4, <2>1, <2>5, <2>6
<1>6. \A i \in 1..l : c[i] # Null /\ next[c[i]] = IF i < l THEN c[i + 1] ELSE Null
  <2> SUFFICES ASSUME NEW i \in 1..l
               PROVE  c[i] # Null /\ next[c[i]] = IF i < l THEN c[i + 1] ELSE Null
    OBVIOUS
  <2>1. c[i] = At(at, p + i - 1) /\ p + i - 1 \in p..Len(log) /\ (i < l) = (p + i - 1 < Len(log))
    BY <1>0
  <2>2. i < l => c[i + 1] = At(at, (p + i - 1) + 1)
    <3> SUFFICES ASSUME i < l PROVE c[i + 1] = At(at, (p + i - 1) + 1)
      OBVIOUS
    <3>1. i + 1 \in 1..l /\ p + (i + 1) - 1 = (p + i - 1) + 1
      BY <1>4
    <3>2. c[i + 1] = At(at, p + (i + 1) - 1)
      BY <3>1
    <3> QED
      BY <3>1, <3>2
  <2> HIDE DEF c, l
  <2> QED
    BY <1>2, <1>3, <2>1, <2>2, QueueAssumption
<1>7. \A m : m \in ListFrom(At(at, p)) <=> \E i \in 1..l : m = c[i]
  <2> HIDE DEF c, l
  <2> QED
    BY ONLY <1>4, <1>5, <1>6, ListFromChain
<1>8. \A m : (\E i \in 1..l : m = c[i]) <=> m \in {At(at, j) : j \in p..Len(log)}
  <2>1. \A i \in 1..l : p + i - 1 \in p..Len(log) /\ c[i] = At(at, p + i - 1)
    BY <1>0
  <2>2. \A j \in p..Len(log) : j - p + 1 \in 1..l /\ c[j - p + 1] = At(at, j)
    <3> SUFFICES ASSUME NEW j \in p..Len(log) PROVE j - p + 1 \in 1..l /\ c[j - p + 1] = At(at, j)
      OBVIOUS
    <3>1. j - p + 1 \in 1..l /\ p + (j - p + 1) - 1 = j
      BY <1>0
    <3>2. c[j - p + 1] = At(at, p + (j - p + 1) - 1)
      BY <3>1
    <3> QED
      BY <3>1, <3>2
  <2> HIDE DEF c, l
  <2> QED
    BY <2>1, <2>2
<1> QED
  BY <1>7, <1>8

LEMMA StackFound ==
  ASSUME NEW at, NEW stk, NEW n, Typed, ListInv(at, stk, n)
  PROVE  \A m : m \in ListFrom(top) <=> OnStack(stk, m)
<1> DEFINE l == Len(stk)
           c == [i \in 1..l |-> stk[l + 1 - i]]
<1>1. l \in Nat /\ stk \in Seq(Nodes) /\ \A i \in 1..l : stk[i] \in Nodes
  BY DEF ListInv, Shape
<1>2. (l = 0 => top = Null) /\ (l > 0 => top = c[1])
  <2>1. top = Below(stk, l + 1)
    BY DEF ListInv, StackInv
  <2> QED
    BY <1>1, <2>1 DEF Below
<1>3. \A i \in 1..l : c[i] # Null /\ next[c[i]] = IF i < l THEN c[i + 1] ELSE Null
  <2> SUFFICES ASSUME NEW i \in 1..l
               PROVE  c[i] # Null /\ next[c[i]] = IF i < l THEN c[i + 1] ELSE Null
    OBVIOUS
  <2>1. c[i] = stk[l + 1 - i] /\ l + 1 - i \in 1..l
    BY <1>1
  <2>2. next[c[i]] = Below(stk, l + 1 - i)
    BY <2>1 DEF ListInv, StackInv
  <2>3. CASE i < l
    <3>1. i + 1 \in 1..l /\ l + 1 - (i + 1) = (l + 1 - i) - 1 /\ l + 1 - i # 1
      BY <1>1, <2>3
    <3>2. c[i + 1] = stk[l + 1 - (i + 1)]
      BY <3>1
    <3>3. Below(stk, l + 1 - i) = stk[(l + 1 - i) - 1]
      BY <3>1 DEF Below
    <3> QED
      BY <1>1, <2>1, <2>2, <2>3, <3>1, <3>2, <3>3, QueueAssumption
  <2>4. CASE i = l
    <3>1. Below(stk, l + 1 - i) = Null
      BY <1>1, <2>4 DEF Below
    <3> QED
      BY <1>1, <2>1, <2>2, <2>4, <3>1, QueueAssumption
  <2> QED
    BY <1>1, <2>3, <2>4
<1>4. l <= Cardinality(Nodes) + 1
  <2>1. l <= Cardinality(Nodes)
    BY <1>1, FewNodes DEF ListInv, StackInv
  <2>2. Cardinality(Nodes) \in Nat
    BY QueueAssumption, FS_CardinalityType
  <2> QED
    BY <1>1, <2>1, <2>2
<1>5. \A m : m \in ListFrom(top) <=> \E i \in 1..l : m = c[i]
  <2>1. l \in Nat
    BY <1>1
  <2> HIDE DEF c, l
  <2> QED
    BY ONLY <1>2, <1>3, <1>4, <2>1, ListFromChain
<1>6. \A i \in 1..l : l + 1 - i \in 1..l /\ c[i] = stk[l + 1 - i] /\ c[l + 1 - i] = stk[i]
  <2> SUFFICES ASSUME NEW i \in 1..l PROVE l + 1 - i \in 1..l /\ c[i] = stk[l + 1 - i] /\ c[l + 1 - i] = stk[i]
    OBVIOUS
  <2>1. l + 1 - i \in 1..l /\ l + 1 - (l + 1 - i) = i
    BY <1>1
  <2>2. c[l + 1 - i] = stk[l + 1 - (l + 1 - i)]
    BY <2>1
  <2> QED
    BY <2>1, <2>2
<1>7. \A m : m \in ListFrom(top) <=> \E i \in 1..l : m = stk[i]
  <2> HIDE DEF c, l
  <2> QED
    BY <1>5, <1>6
<1> QED
  BY <1>7 DEF OnStack

(* What a consumer will meet.                                              *)
LEMMA ReadingFound ==
  ASSUME NEW at, NEW stk, NEW n, Typed, ListInv(at, stk, n), NEW c \in Consumers
  PROVE  Reading(c) = {At(at, j) : j \in pos[c]..Len(log)}
<1>1. pos[c] \in Nat /\ pos[c] <= Len(log) /\ id[c] = At(at, pos[c]) /\ Len(log) \in Nat
  BY Sizes DEF ListInv, ReaderInv, Shape
<1>2. pos[c] > 0 => Kept(pos[c])
  BY <1>1, KeptAhead
<1> QED
  BY <1>1, <1>2, ListFromAt DEF Reading

LEMMA PublishedFound ==
  ASSUME NEW at, NEW stk, NEW n, Typed, ListInv(at, stk, n)
  PROVE  \A m : m \in Published => InList(at, m) /\ m \in Nodes
<1> SUFFICES ASSUME NEW m, m \in Published PROVE InList(at, m) /\ m \in Nodes
  OBVIOUS
<1>1. PICK c \in Consumers : m \in Reading(c) /\ m # Sentinel
  BY DEF Published
<1>2. PICK j \in pos[c]..Len(log) : m = At(at, j)
  BY <1>1, ReadingFound
<1>3. pos[c] \in Nat /\ Len(log) \in Nat
  BY Sizes
<1>4. j \in Nat /\ j > 0 /\ m = at[j] /\ pos[c] <= j /\ j <= Len(log)
  BY <1>1, <1>2, <1>3 DEF At
<1>5. Kept(j)
  BY <1>4, KeptAhead
<1> QED
  BY <1>4, <1>5 DEF InList, ListInv, Shape

(* With no thread in a call, the list behind the sentinel is what some     *)
(* consumer still has to read or has read last.                            *)
LEMMA QuietList ==
  ASSUME NEW at, NEW stk, NEW n, Typed, ListInv(at, stk, n), Quiet
  PROVE  \A m : m \in ListFrom(next[Sentinel]) <=> InList(at, m)
<1>0. Len(log) \in Nat /\ \A c \in Consumers : pc[c] \notin Returning
  BY Sizes DEF Quiet, Returning, Threads
<1>1. CASE Len(log) = 0
  <2>1. next[Sentinel] = Null /\ \A m : ~InList(at, m)
    BY <1>1 DEF ListInv, FirstInv, InList, Kept
  <2>2. \A m : m \notin ListFrom(Null)
    <3> DEFINE c == [i \in 1..0 |-> Null]
    <3>1. 0 \in Nat /\ 0 <= Cardinality(Nodes) + 1
      BY QueueAssumption, FS_CardinalityType
    <3>2. /\ 0 = 0 => Null = Null
          /\ 0 > 0 => Null = c[1]
          /\ \A i \in 1..0 : c[i] # Null /\ next[c[i]] = IF i < 0 THEN c[i + 1] ELSE Null
      OBVIOUS
    <3> HIDE DEF c
    <3>3. \A m : m \in ListFrom(Null) <=> \E i \in 1..0 : m = c[i]
      BY ONLY <3>1, <3>2, ListFromChain
    <3> QED
      BY <3>3
  <2>3. \A m : m \notin ListFrom(next[Sentinel])
    BY <2>1, <2>2
  <2> QED
    BY <2>1, <2>3
<1>2. CASE Len(log) > 0
  <2>1. PICK k \in Nat : Kept(k) /\ ~Kept(k - 1) /\ next[Sentinel] = at[k]
    BY <1>0, <1>2 DEF ListInv, FirstInv
  <2>2. k \in 1..Len(log) /\ at[k] = At(at, k)
    BY <2>1 DEF Kept, At
  <2>3. ListFrom(next[Sentinel]) = {At(at, j) : j \in k..Len(log)}
    BY <2>1, <2>2, ListFromAt
  <2>4. \A j \in k..Len(log) : Kept(j) /\ At(at, j) = at[j] /\ j \in Nat
    BY <1>0, <2>1, <2>2, KeptUp DEF At
  <2>5. \A j \in Nat : Kept(j) => j \in k..Len(log)
    <3> SUFFICES ASSUME NEW j \in Nat, Kept(j), j < k PROVE FALSE
      BY <1>0, <2>2 DEF Kept
    <3>1. j \in 1..Len(log) /\ k - 1 \in Nat /\ j <= k - 1 /\ k - 1 <= Len(log)
      BY <1>0, <2>2 DEF Kept
    <3>2. Kept(k - 1)
      BY <3>1, KeptUp
    <3> QED
      BY <2>1, <3>2
  <2> QED
    BY <2>3, <2>4, <2>5 DEF InList
<1> QED
  BY <1>0, <1>1, <1>2

(***************************************************************************)
(* The invariant holds at first, and every step keeps it.                  *)
(***************************************************************************)
LEMMA QueueInit ==
  ASSUME Init, ProducersRead
  PROVE  QueueInv
<1>0. Threads = Consumers /\ MaxQ \in Nat /\ ~closed
  BY ThreadsRead, QueueAssumption, FS_CardinalityType DEF MaxQ, Init
<1>1. Typed
  <2>1. TypeOK
    BY <1>0, QueueAssumption DEF Init, TypeOK, NoPointer, Labels, Pointers
  <2>2. sent \in 0..MaxMsgs
    BY QueueAssumption DEF Init
  <2>3. closed \in BOOLEAN
    BY DEF Init
  <2>4. \A t \in Threads : pc[t] # "pushlink"
    BY DEF Init
  <2> QED
    BY <2>1, <2>2, <2>3, <2>4 DEF Typed
<1>2. <<>> \in Seq(Nodes) /\ Len(<<>>) = 0 /\ 0 \in Nat
  OBVIOUS
<1>3. log = <<>> /\ Len(log) = 0 /\ \A t \in Threads : pc[t] = "idle" /\ ~Owning(t) /\ ~Filled(t) /\ ~Publishing(t)
  BY DEF Init, Owning, Filled, Filling, Returning, Pushing, Publishing
<1>4. \A k : ~Kept(k)
  BY <1>3 DEF Kept
<1>5. \A m : ~InList(<<>>, m) /\ ~OnStack(<<>>, m)
  BY <1>2, <1>4 DEF InList, OnStack
<1>6. Shape(<<>>, <<>>, 0) /\ NodeInv(<<>>) /\ FirstInv(<<>>)
  BY <1>2, <1>3, <1>4 DEF Shape, NodeInv, FirstInv, Init
<1>7. ReaderInv(<<>>, 0) /\ TailInv(<<>>, 0)
  BY <1>0, <1>3 DEF ReaderInv, TailInv, At, Init, Returning
<1>8. OwnInv(<<>>, <<>>) /\ PlaceInv(<<>>, <<>>) /\ ValueInv(<<>>) /\ FillInv
  BY <1>3, <1>5 DEF OwnInv, PlaceInv, ValueInv, FillInv, Init
<1>9. StackInv(<<>>) /\ PushInv /\ PopInv(<<>>, <<>>) /\ AppendInv(<<>>, 0)
  BY <1>2, <1>3 DEF StackInv, PushInv, PopInv, AppendInv, Below, Init
<1>10. AloneInv(<<>>, 0)
  BY <1>3 DEF AloneInv, Init
<1>11. ListInv(<<>>, <<>>, 0)
  BY <1>6, <1>7, <1>8, <1>9, <1>10 DEF ListInv
<1> QED
  BY <1>0, <1>1, <1>2, <1>11 DEF QueueInv, Listed

LEMMA StepKeeps ==
  ASSUME NEW at \in Seq(Nodes), NEW stk \in Seq(Nodes), NEW n \in Nat, NEW t \in Threads,
         ProducersRead, Typed, ListInv(at, stk, n), Step(t)
  PROVE  Listed'
<1>1. ASSUME PopNext(t) PROVE Listed'
  <2>1. ListInv(at, stk, n)'
    BY <1>1, PopNextKeeps
  <2> QED
    BY <2>1 DEF Listed
<1>2. ASSUME PopFails(t) PROVE Listed'
  <2>1. ListInv(at, stk, n)'
    BY <1>2, PopFailsKeeps
  <2> QED
    BY <2>1 DEF Listed
<1>3. ASSUME NewNode(t) PROVE Listed'
  <2>1. ListInv(at, stk, n)'
    BY <1>3, NewNodeKeeps
  <2> QED
    BY <2>1 DEF Listed
<1>4. ASSUME Fill(t) PROVE Listed'
  <2>1. ListInv(at, stk, n)'
    BY <1>4, FillKeeps
  <2> QED
    BY <2>1 DEF Listed
<1>5. ASSUME LoadTail(t) PROVE Listed'
  <2>1. ListInv(at, stk, n)'
    BY <1>5, LoadTailKeeps
  <2> QED
    BY <2>1 DEF Listed
<1>6. ASSUME LoadNext(t) PROVE Listed'
  <2>1. ListInv(at, stk, n)'
    BY <1>6, LoadNextKeeps
  <2> QED
    BY <2>1 DEF Listed
<1>7. ASSUME Recheck(t) PROVE Listed'
  <2>1. ListInv(at, stk, n)'
    BY <1>7, RecheckKeeps
  <2> QED
    BY <2>1 DEF Listed
<1>8. ASSUME LinkFails(t) PROVE Listed'
  <2>1. ListInv(at, stk, n)'
    BY <1>8, LinkFailsKeeps
  <2> QED
    BY <2>1 DEF Listed
<1>9. ASSUME Advance(t) PROVE Listed'
  <2>1. ListInv(at, stk, n)'
    BY <1>9, AdvanceKeeps
  <2> QED
    BY <2>1 DEF Listed
<1>10. ASSUME LastNext(t) PROVE Listed'
  <2>1. ListInv(at, stk, n)'
    BY <1>10, LastNextKeeps
  <2> QED
    BY <2>1 DEF Listed
<1>11. ASSUME SetHead(t) PROVE Listed'
  <2>1. ListInv(at, stk, n)'
    BY <1>11, SetHeadKeeps
  <2> QED
    BY <2>1 DEF Listed
<1>12. ASSUME PushLoad(t) PROVE Listed'
  <2>1. ListInv(at, stk, n)'
    BY <1>12, PushLoadKeeps
  <2> QED
    BY <2>1 DEF Listed
<1>13. ASSUME PushLink(t) PROVE Listed'
  <2>1. ListInv(at, stk, n)'
    BY <1>13, PushLinkKeeps
  <2> QED
    BY <2>1 DEF Listed
<1>14. ASSUME PushFails(t) PROVE Listed'
  <2>1. ListInv(at, stk, n)'
    BY <1>14, PushFailsKeeps
  <2> QED
    BY <2>1 DEF Listed
<1>15. ASSUME Pop(t) PROVE Listed'
  <2>1. PICK st \in Seq(Nodes) : ListInv(at, st, n)'
    BY <1>15, PopKeeps
  <2> QED
    BY <2>1 DEF Listed
<1>16. ASSUME Push(t) PROVE Listed'
  <2>1. PICK st \in Seq(Nodes) : ListInv(at, st, n)'
    BY <1>16, PushKeeps
  <2> QED
    BY <2>1 DEF Listed
<1>17. ASSUME Help(t) PROVE Listed'
  <2>1. PICK i \in Nat : ListInv(at, stk, i)'
    BY <1>17, HelpKeeps
  <2> QED
    BY <2>1 DEF Listed
<1>18. ASSUME Swing(t) PROVE Listed'
  <2>1. PICK i \in Nat : ListInv(at, stk, i)'
    BY <1>18, SwingKeeps
  <2> QED
    BY <2>1 DEF Listed
<1>19. ASSUME UnsafeTail(t) PROVE Listed'
  <2>1. PICK i \in Nat : ListInv(at, stk, i)'
    BY <1>19, UnsafeTailKeeps
  <2> QED
    BY <2>1 DEF Listed
<1>20. ASSUME Link(t) PROVE Listed'
  <2>1. PICK st \in Seq(Nodes) : ListInv(st, stk, n)'
    BY <1>20, LinkKeeps
  <2> QED
    BY <2>1 DEF Listed
<1>21. ASSUME UnsafeLink(t) PROVE Listed'
  <2>1. PICK st \in Seq(Nodes) : ListInv(st, stk, n)'
    BY <1>21, UnsafeLinkKeeps
  <2> QED
    BY <2>1 DEF Listed
<1>22. ASSUME Release(t) PROVE Listed'
  <2>1. ListInv(at, stk, n)'
    BY <1>22, ReleaseKeeps, ReleaseLastKeeps
  <2> QED
    BY <2>1 DEF Listed
<1> QED
  BY <1>1, <1>2, <1>3, <1>4, <1>5, <1>6, <1>7, <1>8, <1>9, <1>10, <1>11, <1>12, <1>13, <1>14, <1>15, <1>16, <1>17, <1>18, <1>19, <1>20, <1>21, <1>22 DEF Step

LEMMA CallKeeps ==
  ASSUME NEW at \in Seq(Nodes), NEW stk \in Seq(Nodes), NEW n \in Nat, NEW t \in Threads,
         ProducersRead, Typed, ListInv(at, stk, n),
         Publish(t) \/ UnsafePublish(t) \/ Reserve(t) \/ Consume(t)
  PROVE  Typed' /\ Listed' /\ closed' = closed
<1>1. ASSUME Publish(t) \/ UnsafePublish(t) PROVE Typed' /\ ListInv(at, stk, n)' /\ closed' = closed
  <2>1. StartPublish(t) /\ alone' \in {alone, t} /\ t \in Producers
    BY <1>1 DEF Publish, UnsafePublish, StartPublish
  <2>2. ListInv(at, stk, n)'
    BY <1>1, <2>1, StartPublishKeeps
  <2>3. sent + 1 \in Messages /\ sent' = sent + 1
    BY <2>1, QueueAssumption DEF StartPublish, Typed, Messages
  <2>4. Typed'
    BY <2>1, <2>3, QueueAssumption DEF StartPublish, Goto, Typed, TypeOK, Labels, Pointers, Messages, history
  <2> QED
    BY <2>1, <2>2, <2>4 DEF StartPublish
<1>2. ASSUME Reserve(t) PROVE Typed' /\ ListInv(at, stk, n)' /\ closed' = closed
  <2>1. Typed'
    BY <1>2 DEF Reserve, Goto, Typed, TypeOK, Labels, history
  <2> QED
    BY <1>2, <2>1, ReserveKeeps DEF Reserve
<1>3. ASSUME Consume(t) PROVE Typed' /\ ListInv(at, stk, n)' /\ closed' = closed
  <2>1. Typed'
    BY <1>3 DEF Consume, Goto, Typed, TypeOK, Labels, history, counts, locals
  <2> QED
    BY <1>3, <2>1, ConsumeKeeps DEF Consume, counts
<1> QED
  BY <1>1, <1>2, <1>3 DEF Listed

(* The drop finds every node.                                              *)
LEMMA DropKeeps ==
  ASSUME NEW at \in Seq(Nodes), NEW stk \in Seq(Nodes), NEW n \in Nat,
         ProducersRead, Typed, ListInv(at, stk, n), DropQueue
  PROVE  Typed' /\ Dropped' /\ closed'
<1>1. /\ Quiet /\ closed' = TRUE
      /\ value' = [m \in Nodes |-> IF m \in ListFrom(next[Sentinel]) THEN 0 ELSE value[m]]
      /\ heap' = heap \cup ListFrom(next[Sentinel]) \cup ListFrom(top)
      /\ UNCHANGED <<next, refs, tail, top, id, pc, assumed, seen, mine, msg, log, pos, sent, alone>>
  BY DEF DropQueue, locals, history
<1>2. /\ \A m : m \in ListFrom(next[Sentinel]) <=> InList(at, m)
      /\ \A m : m \in ListFrom(top) <=> OnStack(stk, m)
  BY <1>1, QuietList, StackFound
<1>3. \A t \in Threads : pc[t] = "idle" /\ ~Owning(t) /\ ~Filled(t) /\ pc[t] \notin Returning
  BY <1>1 DEF Quiet, Owning, Filled, Filling, Returning, Pushing
<1>4. \A m \in Nodes : m \in heap \/ InList(at, m) \/ OnStack(stk, m)
  BY <1>3 DEF ListInv, PlaceInv
<1>5. \A m : InList(at, m) \/ OnStack(stk, m) => m \in Nodes
  BY DEF InList, OnStack, Kept, ListInv, Shape
<1>6. heap' = Nodes
  <2>1. \A m : m \in heap' <=> m \in heap \/ InList(at, m) \/ OnStack(stk, m)
    BY <1>1, <1>2
  <2>2. heap \subseteq Nodes
    BY DEF Typed, TypeOK
  <2> QED
    BY <1>4, <1>5, <2>1, <2>2
<1>7. \A m \in Nodes : value'[m] = 0
  BY <1>1, <1>2, <1>3 DEF ListInv, ValueInv
<1>8. value' \in [Nodes -> Messages \cup {0}]
  BY <1>1, <1>7
<1>9. Typed'
  BY <1>1, <1>6, <1>8 DEF Typed, TypeOK
<1> QED
  BY <1>1, <1>3, <1>6, <1>7, <1>9 DEF Dropped, Quiet

LEMMA StepBusy ==
  ASSUME NEW t, Step(t)
  PROVE  pc[t] # "idle"
<1>1. PopNext(t) => pc[t] # "idle"
  BY DEF PopNext, Goto
<1>2. Pop(t) => pc[t] # "idle"
  BY DEF Pop, Goto
<1>3. PopFails(t) => pc[t] # "idle"
  BY DEF PopFails, Goto
<1>4. NewNode(t) => pc[t] # "idle"
  BY DEF NewNode, Goto
<1>5. Fill(t) => pc[t] # "idle"
  BY DEF Fill, Goto
<1>6. LoadTail(t) => pc[t] # "idle"
  BY DEF LoadTail, Goto
<1>7. LoadNext(t) => pc[t] # "idle"
  BY DEF LoadNext, Goto
<1>8. Recheck(t) => pc[t] # "idle"
  BY DEF Recheck, Goto
<1>9. Help(t) => pc[t] # "idle"
  BY DEF Help, Goto
<1>10. Link(t) => pc[t] # "idle"
  BY DEF Link, Goto
<1>11. LinkFails(t) => pc[t] # "idle"
  BY DEF LinkFails, Goto
<1>12. Swing(t) => pc[t] # "idle"
  BY DEF Swing, Goto, Return
<1>13. UnsafeLink(t) => pc[t] # "idle"
  BY DEF UnsafeLink, Goto
<1>14. UnsafeTail(t) => pc[t] # "idle"
  BY DEF UnsafeTail, Goto, Return
<1>15. Advance(t) => pc[t] # "idle"
  BY DEF Advance, Goto
<1>16. Release(t) => pc[t] # "idle"
  BY DEF Release, Goto, Return
<1>17. LastNext(t) => pc[t] # "idle"
  BY DEF LastNext, Goto
<1>18. SetHead(t) => pc[t] # "idle"
  BY DEF SetHead, Goto
<1>19. PushLoad(t) => pc[t] # "idle"
  BY DEF PushLoad, Goto
<1>20. PushLink(t) => pc[t] # "idle"
  BY DEF PushLink, Goto
<1>21. Push(t) => pc[t] # "idle"
  BY DEF Push, Goto, Return
<1>22. PushFails(t) => pc[t] # "idle"
  BY DEF PushFails, Goto
<1> QED
  BY <1>1, <1>2, <1>3, <1>4, <1>5, <1>6, <1>7, <1>8, <1>9, <1>10, <1>11, <1>12, <1>13, <1>14, <1>15, <1>16, <1>17, <1>18, <1>19, <1>20, <1>21, <1>22 DEF Step

LEMMA QueueStep ==
  ASSUME ProducersRead, QueueInv, [Next]_vars
  PROVE  QueueInv'
<1>1. ASSUME UNCHANGED vars PROVE QueueInv'
  <2>1. UNCHANGED <<next, refs, value, tail, top, heap, id, pc, assumed, seen, mine, msg, log, pos, sent, closed, alone>>
    BY <1>1 DEF vars, locals, history, counts
  <2>2. Typed'
    BY <2>1 DEF QueueInv, Typed, TypeOK
  <2>3. closed => Dropped'
    BY <2>1 DEF QueueInv, Dropped, Quiet
  <2>4. ASSUME ~closed PROVE Listed'
    <3>1. PICK at \in Seq(Nodes), stk \in Seq(Nodes), n \in Nat : ListInv(at, stk, n)
      BY <2>4 DEF QueueInv, Listed
    <3>2. Typed /\ SameRoles
      BY <2>1 DEF QueueInv, SameRoles, Owning, Filled
    <3>3. /\ Shape(at, stk, n)' /\ NodeInv(at)' /\ FirstInv(at)' /\ TailInv(at, n)'
          /\ OwnInv(at, stk)' /\ PlaceInv(at, stk)' /\ ValueInv(at)' /\ StackInv(stk)'
      BY <2>1, <3>1, <3>2, LocalStep
    <3>4. \A c \in Consumers : (pc'[c] = "release") = (pc[c] = "release")
      BY <2>1
    <3>5. \A k : Kept(k)' = Kept(k)
      BY <2>1, <3>4, SameKept
    <3>6. ReaderInv(at, n)'
      BY <2>1, <3>1, <3>5 DEF ListInv, ReaderInv
    <3>7. FillInv' /\ PushInv'
      BY <2>1, <3>1 DEF ListInv, FillInv, PushInv, Filled, Publishing
    <3>8. PopInv(at, stk)'
      BY <2>1, <3>1 DEF ListInv, PopInv, OnStack
    <3>9. AppendInv(at, n)' /\ AloneInv(at, n)'
      BY <2>1, <3>1 DEF ListInv, AppendInv, AloneInv, Publishing
    <3>10. ListInv(at, stk, n)'
      BY <3>3, <3>6, <3>7, <3>8, <3>9 DEF ListInv
    <3> QED
      BY <3>10 DEF Listed
  <2> QED
    BY <2>1, <2>2, <2>3, <2>4 DEF QueueInv
<1>2. ASSUME closed, Next PROVE FALSE
  <2>1. \A t \in Threads : pc[t] = "idle"
    BY <1>2 DEF QueueInv, Dropped, Quiet
  <2>2. \A t \in Threads : ~Step(t)
    BY <2>1, StepBusy
  <2> QED
    BY <1>2, <2>2 DEF Next, DropQueue, Publish, UnsafePublish, StartPublish, Reserve, Consume
<1>3. ASSUME ~closed, Next PROVE QueueInv'
  <2>1. PICK at \in Seq(Nodes), stk \in Seq(Nodes), n \in Nat : ListInv(at, stk, n)
    BY <1>3 DEF QueueInv, Listed
  <2>2. Typed
    BY DEF QueueInv
  <2>3. ASSUME DropQueue PROVE QueueInv'
    BY <2>1, <2>2, <2>3, DropKeeps DEF QueueInv
  <2>4. ASSUME NEW t \in Threads, Publish(t) \/ UnsafePublish(t) \/ Reserve(t) \/ Consume(t) PROVE QueueInv'
    BY <1>3, <2>1, <2>2, <2>4, CallKeeps DEF QueueInv
  <2>5. ASSUME NEW t \in Threads, Step(t) PROVE QueueInv'
    <3>1. Typed' /\ Listed'
      BY <2>1, <2>2, <2>5, StepTyped, StepKeeps
    <3>2. closed' = closed
      BY <2>5 DEF Step, PopNext, Pop, PopFails, NewNode, Fill, LoadTail, LoadNext, Recheck, Help, Link, LinkFails,
         Swing, UnsafeLink, UnsafeTail, Advance, Release, LastNext, SetHead, PushLoad, PushLink, Push, PushFails, counts
    <3> QED
      BY <1>3, <3>1, <3>2 DEF QueueInv
  <2> QED
    BY <1>3, <2>3, <2>4, <2>5 DEF Next
<1> QED
  BY <1>1, <1>2, <1>3

LEMMA QueueAlways ==
  ASSUME ProducersRead
  PROVE  Spec => []QueueInv
<1>1. Init => QueueInv
  BY QueueInit
<1>2. QueueInv /\ [Next]_vars => QueueInv'
  BY QueueStep
<1> QED
  BY <1>1, <1>2, PTL DEF Spec

(***************************************************************************)
(* What the invariant says of the queue.                                   *)
(***************************************************************************)
LEMMA OwnsMine ==
  ASSUME NEW u
  PROVE  /\ \A m : m \in Owns(u) <=> Owning(u) /\ m = mine[u]
         /\ pc[u] \in Filling => Owning(u)
BY DEF Owns, Owning, Filling, Returning, Pushing

LEMMA SafeOwned ==
  ASSUME NEW at, NEW stk, NEW n, ProducersRead, Typed, ListInv(at, stk, n)
  PROVE  UniquelyOwned
<1> SUFFICES ASSUME NEW t \in Threads, pc[t] \in Filling
             PROVE  /\ mine[t] \notin heap \cup FreeNodes \cup Published
                    /\ \A u \in Threads \ {t} : mine[t] \notin Owns(u)
  BY DEF UniquelyOwned
<1>1. /\ mine[t] \in Nodes \ heap /\ ~OnStack(stk, mine[t]) /\ ~InList(at, mine[t])
      /\ \A u \in Threads : Owning(u) /\ mine[u] = mine[t] => u = t
  BY OwnsMine DEF ListInv, OwnInv
<1>2. mine[t] \notin FreeNodes
  BY <1>1, StackFound DEF FreeNodes
<1>3. mine[t] \notin Published
  BY <1>1, PublishedFound
<1> QED
  BY <1>1, <1>2, <1>3, OwnsMine

LEMMA SafeTail ==
  ASSUME NEW at, NEW stk, NEW n, ProducersRead, Typed, ListInv(at, stk, n)
  PROVE  AssumedTailPublished
<1> SUFFICES ASSUME NEW t \in Threads, pc[t] \in {"next", "check", "help", "link"}
             PROVE  /\ assumed[t] \notin heap /\ assumed[t] \notin FreeNodes
                    /\ \A u \in Threads : assumed[t] \notin Owns(u)
  BY DEF AssumedTailPublished
<1>1. PICK j \in pos[t]..n : assumed[t] = At(at, j)
  BY DEF ListInv, AppendInv
<1>2. t \in Consumers /\ pos[t] \in Nat /\ n \in 0..Len(log) /\ Len(log) \in Nat
  BY ThreadsRead, Sizes DEF ListInv, Shape
<1>3. CASE j = 0
  <2>1. assumed[t] = Sentinel /\ Sentinel \notin Nodes
    BY <1>1, <1>3, QueueAssumption DEF At
  <2>2. heap \subseteq Nodes
    BY DEF Typed, TypeOK
  <2>3. \A m : OnStack(stk, m) => m \in Nodes
    BY DEF OnStack, ListInv, Shape
  <2>4. \A u \in Threads : Owning(u) => mine[u] \in Nodes
    BY DEF ListInv, OwnInv
  <2> QED
    BY <2>1, <2>2, <2>3, <2>4, StackFound, OwnsMine DEF FreeNodes
<1>4. CASE j > 0
  <2>1. Kept(j) /\ j \in Nat /\ assumed[t] = at[j]
    BY <1>1, <1>2, <1>4, KeptAhead DEF At
  <2>2. InList(at, assumed[t]) /\ assumed[t] \in Nodes
    BY <2>1 DEF InList, Kept, ListInv, Shape
  <2>3. assumed[t] \notin heap /\ ~OnStack(stk, assumed[t])
    BY <2>2 DEF ListInv, PlaceInv
  <2>4. \A u \in Threads : Owning(u) => mine[u] # assumed[t]
    BY <2>2 DEF ListInv, OwnInv
  <2> QED
    BY <2>3, <2>4, StackFound, OwnsMine DEF FreeNodes
<1> QED
  BY <1>1, <1>2, <1>3, <1>4

LEMMA SafeNext ==
  ASSUME NEW at, NEW stk, NEW n, Typed, ListInv(at, stk, n)
  PROVE  SuccessorThere
<1> SUFFICES ASSUME NEW c \in Consumers, pc[c] = "advance" PROVE next[id[c]] # Null
  BY DEF SuccessorThere
<1>1. pos[c] < n /\ id[c] = At(at, pos[c]) /\ pos[c] \in Nat /\ n \in 0..Len(log) /\ Len(log) \in Nat
  BY Sizes DEF ListInv, ReaderInv, Shape
<1>2. next[id[c]] = at[pos[c] + 1]
  BY <1>1, NextAt DEF ListInv
<1>3. at[pos[c] + 1] \in Nodes
  BY <1>1 DEF ListInv, Shape
<1> QED
  BY <1>2, <1>3, QueueAssumption

(* The consumers that are not past the node are those it is kept for.      *)
LEMMA SafeRefs ==
  ASSUME NEW at, NEW stk, NEW n, Typed, ListInv(at, stk, n)
  PROVE  RefsCounted
<1> SUFFICES ASSUME NEW m \in Published PROVE refs[m] = Cardinality(NotPast(m))
  BY DEF RefsCounted
<1>1. PICK k \in Nat : Kept(k) /\ m = at[k]
  BY PublishedFound DEF InList
<1>2. refs[m] = Cardinality(Readers(k)) /\ k \in 1..Len(log) /\ Len(log) \in Nat
      /\ \A j \in Nat : Kept(j) /\ at[j] = m => j = k
  BY <1>1, Sizes DEF ListInv, NodeInv, Kept
<1>3. ASSUME NEW c \in Consumers
      PROVE  (m \in Reading(c) \/ (pc[c] = "release" /\ mine[c] = m)) <=> Released(c) < k
  <2>0. pos[c] \in Nat /\ pos[c] <= Len(log)
    BY <1>2, Sizes DEF ListInv, ReaderInv, Shape
  <2>1. m \in Reading(c) <=> pos[c] <= k
    <3>1. m \in Reading(c) <=> \E j \in pos[c]..Len(log) : m = At(at, j)
      BY ReadingFound
    <3>2. ASSUME NEW j \in pos[c]..Len(log), m = At(at, j) PROVE j = k
      <4>1. m \in Nodes
        BY <1>1, <1>2 DEF ListInv, Shape
      <4>2. j \in Nat /\ j > 0 /\ m = at[j]
        BY <2>0, <3>2, <4>1, QueueAssumption DEF At
      <4>3. Kept(j)
        BY <1>2, <2>0, <4>2, KeptAhead
      <4> QED
        BY <1>2, <4>2, <4>3
    <3>3. m = At(at, k)
      BY <1>1, <1>2 DEF At
    <3> QED
      BY <1>2, <2>0, <3>1, <3>2, <3>3
  <2>2. CASE pc[c] = "release"
    <3>1. pos[c] >= 2 /\ mine[c] = at[pos[c] - 1]
      BY <2>2 DEF ListInv, ReaderInv
    <3>2. Released(c) = pos[c] - 2
      BY <2>2, <3>1 DEF Released
    <3>3. Kept(pos[c] - 1)
      <4>1. c \in Readers(pos[c] - 1)
        BY <2>0, <3>2 DEF Readers
      <4> QED
        BY <1>2, <2>0, <3>1, <4>1 DEF Kept
    <3>4. mine[c] = m <=> pos[c] - 1 = k
      BY <1>1, <1>2, <2>0, <3>1, <3>3
    <3> QED
      BY <1>2, <2>0, <2>1, <2>2, <3>1, <3>2, <3>4
  <2>3. CASE pc[c] # "release"
    <3>1. Released(c) < k <=> pos[c] <= k
      BY <1>2, <2>0, <2>3 DEF Released
    <3> QED
      BY <2>1, <2>3, <3>1
  <2> QED
    BY <2>2, <2>3
<1>4. NotPast(m) = Readers(k)
  BY <1>3 DEF NotPast, Readers
<1> QED
  BY <1>2, <1>4

LEMMA SafeDrop ==
  ASSUME NEW at, NEW stk, NEW n, Typed, ListInv(at, stk, n), Quiet
  PROVE  /\ ListFrom(next[Sentinel]) = {m \in Nodes : value[m] # 0}
         /\ FreeNodes = (Nodes \ heap) \ ListFrom(next[Sentinel])
<1>1. /\ \A m : m \in ListFrom(next[Sentinel]) <=> InList(at, m)
      /\ \A m : m \in FreeNodes <=> OnStack(stk, m)
  BY QuietList, StackFound DEF FreeNodes
<1>2. \A t \in Threads : pc[t] = "idle" /\ ~Owning(t) /\ ~Filled(t) /\ pc[t] \notin Returning
  BY DEF Quiet, Owning, Filled, Filling, Returning, Pushing
<1>3. \A m : InList(at, m) => m \in Nodes /\ value[m] # 0
  <2> SUFFICES ASSUME NEW m, InList(at, m) PROVE m \in Nodes /\ value[m] # 0
    OBVIOUS
  <2>1. PICK k \in Nat : Kept(k) /\ m = at[k]
    BY DEF InList
  <2>2. k \in 1..Len(log) /\ m \in Nodes /\ value[m] = log[k]
    BY <2>1 DEF Kept, ListInv, Shape, NodeInv
  <2>3. log[k] \in Messages
    BY <2>2 DEF Typed, TypeOK
  <2>4. 0 \notin Messages
    BY DEF Messages
  <2> QED
    BY <2>2, <2>3, <2>4
<1>4. \A m \in Nodes : value[m] # 0 => InList(at, m)
  BY <1>2 DEF ListInv, ValueInv
<1>5. \A m : OnStack(stk, m) => m \in Nodes
  BY DEF OnStack, ListInv, Shape
<1>6. \A m \in Nodes : OnStack(stk, m) <=> m \notin heap /\ ~InList(at, m)
  BY <1>2 DEF ListInv, PlaceInv
<1>7. ListFrom(next[Sentinel]) = {m \in Nodes : value[m] # 0}
  BY <1>1, <1>3, <1>4
<1>8. FreeNodes = (Nodes \ heap) \ ListFrom(next[Sentinel])
  BY <1>1, <1>5, <1>6
<1> QED
  BY <1>7, <1>8

LEMMA InvSafe ==
  ASSUME ProducersRead, QueueInv
  PROVE  QueueSafe
<1>1. Typed /\ TypeOK
  BY DEF QueueInv, Typed
<1>2. ASSUME closed PROVE QueueSafe
  <2>1. Dropped /\ \A t \in Threads : pc[t] = "idle"
    BY <1>2 DEF QueueInv, Dropped, Quiet
  <2>2. UniquelyOwned /\ AssumedTailPublished
    BY <2>1 DEF UniquelyOwned, AssumedTailPublished, Filling
  <2>3. SuccessorThere
    BY <2>1 DEF SuccessorThere, Threads
  <2>4. RefsCounted
    BY <1>2 DEF RefsCounted
  <2>5. DropExact
    BY <1>2, <2>1 DEF DropExact, Dropped
  <2> QED
    BY <1>1, <2>2, <2>3, <2>4, <2>5 DEF QueueSafe
<1>3. ASSUME ~closed PROVE QueueSafe
  <2>1. PICK at \in Seq(Nodes), stk \in Seq(Nodes), n \in Nat : ListInv(at, stk, n)
    BY <1>3 DEF QueueInv, Listed
  <2>2. UniquelyOwned /\ AssumedTailPublished /\ SuccessorThere /\ RefsCounted
    BY <1>1, <2>1, SafeOwned, SafeTail, SafeNext, SafeRefs
  <2>3. DropExact
    BY <1>1, <1>3, <2>1, SafeDrop DEF DropExact
  <2> QED
    BY <1>1, <2>2, <2>3 DEF QueueSafe
<1> QED
  BY <1>2, <1>3

(* Where the threads that publish are among those that read, a node is in  *)
(* one place, its references are counted exactly, a publisher appends to   *)
(* the list and never to a recycled node, and the drop of the queue frees  *)
(* each node once and leaves none (MultiQueue, for any number of threads,  *)
(* nodes and messages).                                                    *)
THEOREM QueueStaysSafe ==
  ASSUME ProducersRead
  PROVE  Spec => []QueueSafe
<1>1. Spec => []QueueInv
  BY QueueAlways
<1>2. QueueInv => QueueSafe
  BY InvSafe
<1> QED
  BY <1>1, <1>2, PTL

(***************************************************************************)
(* What the consumers see.                                                 *)
(***************************************************************************)
Held(c) == IF closed \/ pos[c] = 0 THEN 0 ELSE value[id[c]]

(* A consumer holds the message it has read last.                          *)
LEMMA HeldIsLast ==
  ASSUME QueueInv, NEW c \in Consumers
  PROVE  /\ Held(c) = IF closed \/ pos[c] = 0 THEN 0 ELSE log[pos[c]]
         /\ pos[c] \in Nat /\ Len(log) \in Nat /\ (~closed => pos[c] <= Len(log))
<1>1. Typed /\ pos[c] \in Nat /\ Len(log) \in Nat
  BY Sizes DEF QueueInv
<1>2. CASE closed
  BY <1>1, <1>2 DEF Held
<1>3. CASE ~closed
  <2>1. PICK at \in Seq(Nodes), stk \in Seq(Nodes), n \in Nat : ListInv(at, stk, n)
    BY <1>3 DEF QueueInv, Listed
  <2>2. pos[c] <= Len(log) /\ id[c] = At(at, pos[c])
    BY <1>1, <2>1 DEF ListInv, ReaderInv, Shape
  <2>3. pos[c] > 0 => value[id[c]] = log[pos[c]]
    <3> SUFFICES ASSUME pos[c] > 0 PROVE value[id[c]] = log[pos[c]]
      OBVIOUS
    <3>1. Kept(pos[c]) /\ id[c] = at[pos[c]]
      BY <1>1, <2>2, KeptAhead DEF At
    <3> QED
      BY <1>1, <2>1, <3>1 DEF ListInv, NodeInv
  <2> QED
    BY <1>1, <1>3, <2>2, <2>3 DEF Held
<1> QED
  BY <1>2, <1>3

HeldInv == \A c \in Consumers : Held(c) = IF closed \/ pos[c] = 0 THEN 0 ELSE log[pos[c]]

(* A step leaves what the consumers see alone, or it publishes, consumes   *)
(* or closes.                                                              *)
LEMMA SeenStep ==
  ASSUME ProducersRead, QueueInv, Next
  PROVE  ~closed /\ \/ UNCHANGED <<log, pos, closed>>
                    \/ /\ UNCHANGED <<pos, closed>>
                       /\ \E m \in Messages : log' = Append(log, m)
                    \/ /\ UNCHANGED <<log, closed>>
                       /\ \E t \in Consumers : pos[t] < Len(log) /\ pos' = [pos EXCEPT ![t] = @ + 1]
                    \/ UNCHANGED <<log, pos>> /\ closed' = TRUE
<1>1. ~closed /\ Typed
  <2>1. closed => \A t \in Threads : pc[t] = "idle"
    BY DEF QueueInv, Dropped, Quiet
  <2>2. closed => \A t \in Threads : ~Step(t)
    BY <2>1, StepBusy
  <2> QED
    BY <2>2 DEF QueueInv, Next, DropQueue, Publish, UnsafePublish, StartPublish, Reserve, Consume
<1>2. PICK at \in Seq(Nodes), stk \in Seq(Nodes), n \in Nat : ListInv(at, stk, n)
  BY <1>1 DEF QueueInv, Listed
<1>3. CASE DropQueue
  BY <1>1, <1>3 DEF DropQueue, history
<1>4. ASSUME NEW t \in Threads, Publish(t) \/ UnsafePublish(t) \/ Reserve(t) \/ Consume(t)
      PROVE  UNCHANGED <<log, pos, closed>>
  BY <1>4 DEF Publish, UnsafePublish, StartPublish, Reserve, Consume, history, counts
<1>5. ASSUME NEW t \in Threads, Link(t) \/ UnsafeLink(t)
      PROVE  UNCHANGED <<pos, closed>> /\ \E m \in Messages : log' = Append(log, m)
  <2>1. Publishing(t)
    BY <1>5 DEF Link, UnsafeLink, Goto, Publishing
  <2>2. msg[t] \in Messages
    BY <1>1, <1>2, <2>1, Pointed
  <2>3. UNCHANGED <<pos, closed>> /\ log' = Append(log, msg[t])
    BY <1>5 DEF Link, UnsafeLink, counts
  <2> QED
    BY <2>2, <2>3
<1>6. ASSUME NEW t \in Threads, Advance(t)
      PROVE  UNCHANGED <<log, closed>> /\ t \in Consumers /\ pos[t] < Len(log) /\ pos' = [pos EXCEPT ![t] = @ + 1]
  <2>1. t \in Consumers /\ pos[t] < n
    BY <1>2, <1>6, ThreadsRead DEF Advance, ListInv, ReaderInv
  <2>2. n <= Len(log) /\ pos[t] \in Nat /\ Len(log) \in Nat
    BY <1>1, <1>2, <2>1, Sizes DEF ListInv, Shape
  <2> QED
    BY <1>6, <2>1, <2>2 DEF Advance, counts
<1>7. ASSUME NEW t \in Threads, Step(t), ~Link(t), ~UnsafeLink(t), ~Advance(t)
      PROVE  UNCHANGED <<log, pos, closed>>
  BY <1>7 DEF Step, PopNext, Pop, PopFails, NewNode, Fill, LoadTail, LoadNext, Recheck, Help, LinkFails,
     Swing, UnsafeTail, Release, LastNext, SetHead, PushLoad, PushLink, Push, PushFails, history, counts
<1> QED
  BY <1>1, <1>3, <1>4, <1>5, <1>6, <1>7 DEF Next

LEMMA ShownInit ==
  ASSUME Init
  PROVE  Service!Init
BY DEF Init, Service!Init

LEMMA ShownStep ==
  ASSUME ProducersRead, QueueInv, HeldInv', [Next]_vars
  PROVE  [Service!Next]_Service!vars
<1> DEFINE shown == [c \in Consumers |-> Held(c)]
<1>0. /\ \A c \in Consumers :
             /\ Held(c) = (IF closed \/ pos[c] = 0 THEN 0 ELSE log[pos[c]])
             /\ pos[c] \in Nat /\ Len(log) \in Nat /\ (~closed => pos[c] <= Len(log))
      /\ \A c \in Consumers : Held(c)' = (IF closed' \/ pos'[c] = 0 THEN 0 ELSE log'[pos'[c]])
      /\ pos \in [Consumers -> Nat] /\ log \in Seq(Messages)
  BY HeldIsLast DEF HeldInv, QueueInv, Typed, TypeOK
<1>1. CASE UNCHANGED vars
  <2>1. UNCHANGED <<log, pos, closed, value, id>>
    BY <1>1 DEF vars, history, counts
  <2> QED
    BY <2>1 DEF Service!vars
<1>2. CASE Next
  <2>1. CASE UNCHANGED <<log, pos, closed>>
    <3>1. \A c \in Consumers : Held(c)' = Held(c)
      BY <1>0, <2>1
    <3>2. shown' = shown
      BY <3>1
    <3> QED
      BY <2>1, <3>2 DEF Service!vars, Held
  <2>2. CASE UNCHANGED <<pos, closed>> /\ \E m \in Messages : log' = Append(log, m)
    <3>1. PICK m \in Messages : log' = Append(log, m)
      BY <2>2
    <3>2. ~closed
      BY <1>2, SeenStep
    <3>3. \A c \in Consumers : Held(c)' = Held(c)
      <4>1. \A c \in Consumers : pos[c] # 0 => pos[c] \in 1..Len(log) /\ log'[pos[c]] = log[pos[c]]
        BY <1>0, <3>1, <3>2
      <4> QED
        BY <1>0, <2>2, <4>1
    <3>4. shown' = shown
      BY <3>3
    <3> QED
      BY <2>2, <3>1, <3>2, <3>4 DEF Service!Next, Service!Publish, Held
  <2>3. CASE UNCHANGED <<log, closed>> /\ \E t \in Consumers : pos[t] < Len(log) /\ pos' = [pos EXCEPT ![t] = @ + 1]
    <3>1. PICK t \in Consumers : pos[t] < Len(log) /\ pos' = [pos EXCEPT ![t] = @ + 1]
      BY <2>3
    <3>2. ~closed
      BY <1>2, SeenStep
    <3>3. pos'[t] = pos[t] + 1 /\ \A c \in Consumers \ {t} : pos'[c] = pos[c]
      BY <1>0, <3>1
    <3>4. Held(t)' = log[pos[t] + 1] /\ \A c \in Consumers \ {t} : Held(c)' = Held(c)
      BY <1>0, <2>3, <3>2, <3>3
    <3>5. shown' = [shown EXCEPT ![t] = log[pos[t] + 1]]
      <4>1. shown' = [c \in Consumers |-> IF c = t THEN log[pos[t] + 1] ELSE Held(c)]
        BY <3>4
      <4>2. [shown EXCEPT ![t] = log[pos[t] + 1]] = [c \in Consumers |-> IF c = t THEN log[pos[t] + 1] ELSE Held(c)]
        OBVIOUS
      <4> QED
        BY <4>1, <4>2
    <3>6. Service!Consume(t)
      BY <2>3, <3>1, <3>2, <3>5 DEF Service!Consume, Held
    <3> QED
      BY <3>6 DEF Service!Next
  <2>4. CASE UNCHANGED <<log, pos>> /\ closed' = TRUE
    <3>1. ~closed
      BY <1>2, SeenStep
    <3>2. shown' = [c \in Consumers |-> 0]
      BY <1>0, <2>4
    <3>3. Service!Close
      BY <2>4, <3>1, <3>2 DEF Service!Close, Held
    <3> QED
      BY <3>3 DEF Service!Next
  <2> QED
    BY <1>2, <2>1, <2>2, <2>3, <2>4, SeenStep
<1> QED
  BY <1>1, <1>2

(* The queue is the log it promises: where publishers are consumers, each  *)
(* consumer reads the messages in the order they were linked, none twice   *)
(* and none left out, and what it has read last stays in place until its   *)
(* next read (MultiQueue refines BroadcastLog).                            *)
THEOREM QueueIsALog ==
  ASSUME ProducersRead
  PROVE  Spec => ImplementsLog
<1>1. Spec => []QueueInv
  BY QueueAlways
<1>2. Init => Service!Init
  BY ShownInit
<1>3. QueueInv => HeldInv
  BY HeldIsLast DEF HeldInv
<1>4. QueueInv /\ HeldInv' /\ [Next]_vars => [Service!Next]_Service!vars
  BY ShownStep
<1> QED
  BY <1>1, <1>2, <1>3, <1>4, PTL DEF Spec, ImplementsLog, Service!Spec
=============================================================================

------------------------------ MODULE Containers ------------------------------
(***************************************************************************)
(* Two containers of clasp/util.                                           *)
(*                                                                         *)
(* The indexed priority queue that orders variables by a score, and the    *)
(* free functions for heaps in a slice (indexed_priority_queue.rs).        *)
(* Positions count from 1 here, so that the parent of i is i \div 2; 0 is  *)
(* NO_POS. The queue compares keys by a score that lives outside of it     *)
(* (compare is a closure over a score table): a caller that changes the    *)
(* score of a queued key must tell the queue, and does so here.            *)
(*                                                                         *)
(* LeftRightSequence keeps the watches of a literal: two stacks that grow  *)
(* towards each other in one buffer, which is inside the object until it   *)
(* is too small and on the heap from then on (left_right_sequence.rs).     *)
(* Memory is cells. An element of the left takes LeftCells of them, one of *)
(* the right RightCells; a cell holds the element and which part of it.    *)
(***************************************************************************)
EXTENDS Integers, Sequences, SequencesExt

CONSTANTS Keys,     \* the keys, 1..Keys
          ScoreMax, \* bound on the scores
          HeapLen,  \* bound on the slices of the heap functions
          LeftCells, RightCells, \* sizes of the elements
          InlineCells,           \* what the object has room for
          LrSteps                \* bound on the operations

-----------------------------------------------------------------------------
(* The priority queue                                                      *)

VARIABLES heap,     \* the queued keys, the best one first
          indices,  \* the position of each key below the largest one pushed
          score     \* the score of each key

queueVars == <<heap, indices, score>>

NoPos == 0
KeySet == 1..Keys
IsBetter(a, b) == score'[a] > score'[b]

\* index: a key past the end of the table has no position
IndexOf(k) == IF k \in DOMAIN indices THEN indices[k] ELSE NoPos
Queued(k) == IndexOf(k) # NoPos

-----------------------------------------------------------------------------
(* A queue value q has the fields heap and indices. assign(pos, key)       *)

AssignPos(q, pos, k) == [heap |-> [q.heap EXCEPT ![pos] = k],
                      indices |-> [q.indices EXCEPT ![k] = pos]]
SwapPos(q, i, j) == AssignPos(AssignPos(q, i, q.heap[j]), j, q.heap[i])

RECURSIVE SiftUp(_, _)
SiftUp(q, i) ==
  IF i = 1 \/ ~IsBetter(q.heap[i], q.heap[i \div 2]) THEN AssignPos(q, i, q.heap[i])
  ELSE SiftUp(SwapPos(q, i, i \div 2), i \div 2)

RECURSIVE SiftDown(_, _)
SiftDown(q, i) ==
  LET size == Len(q.heap)
      right == 2 * i + 1
      child == IF right <= size /\ IsBetter(q.heap[right], q.heap[2 * i])
               THEN right ELSE 2 * i
  IN IF 2 * i > size \/ ~IsBetter(q.heap[child], q.heap[i]) THEN AssignPos(q, i, q.heap[i])
     ELSE SiftDown(SwapPos(q, i, child), child)

QueueNow == [heap |-> heap, indices |-> indices]
QueueBecomes(q) == heap' = q.heap /\ indices' = q.indices

\* push(key): the table grows to hold the key
Pushed(k) ==
  LET grown == [i \in 1..(IF k > Len(indices) THEN k ELSE Len(indices)) |-> IndexOf(i)]
      pos == Len(heap) + 1
  IN SiftUp([heap |-> Append(heap, k), indices |-> [grown EXCEPT ![k] = pos]], pos)

FilledPosForgetFirst(pos, forgotten) ==
  AssignPos([QueueNow EXCEPT !.indices[forgotten] = NoPos], pos, Last(heap))
\* the last key takes position pos and the end is cut off; forgotten is the
\* key that was there
FilledPos(pos, forgotten) ==
  LET moved == AssignPos(QueueNow, pos, Last(heap))
  IN [heap |-> Front(moved.heap), indices |-> [moved.indices EXCEPT ![forgotten] = NoPos]]

Resettled(q, pos) == SiftDown(SiftUp(q, pos), pos)

QueueInit ==
  /\ heap = <<>>
  /\ indices = <<>>
  /\ score = [k \in KeySet |-> 0]

PushKey(k) ==
  /\ ~Queued(k)
  /\ UNCHANGED score
  /\ QueueBecomes(Pushed(k))

PopKey ==
  /\ heap # <<>>
  /\ UNCHANGED score
  /\ LET q == FilledPos(1, Head(heap))
     IN QueueBecomes(IF Len(q.heap) > 1 THEN SiftDown(q, 1) ELSE q)

DropKey(k) ==
  /\ Queued(k)
  /\ UNCHANGED score
  /\ LET pos == IndexOf(k)
         q == FilledPos(pos, k)
     IN QueueBecomes(IF pos <= Len(q.heap) THEN Resettled(q, pos) ELSE q)

\* the score of k changes and the queue is told in the way that fits
UpdateKey(k) ==
  \E s \in 0..ScoreMax :
    /\ score' = [score EXCEPT ![k] = s]
    /\ QueueBecomes(IF Queued(k) THEN Resettled(QueueNow, IndexOf(k)) ELSE Pushed(k))

IncreaseKey(k) ==
  /\ Queued(k)
  /\ \E s \in score[k]..ScoreMax : score' = [score EXCEPT ![k] = s]
  /\ QueueBecomes(SiftUp(QueueNow, IndexOf(k)))

DecreaseKey(k) ==
  /\ Queued(k)
  /\ \E s \in 0..score[k] : score' = [score EXCEPT ![k] = s]
  /\ QueueBecomes(SiftDown(QueueNow, IndexOf(k)))

ClearQueue ==
  /\ heap' = <<>>
  /\ indices' = <<>>
  /\ UNCHANGED score

QueueNext ==
  \/ PopKey \/ ClearQueue
  \/ \E k \in KeySet : PushKey(k) \/ DropKey(k) \/ UpdateKey(k) \/ IncreaseKey(k) \/ DecreaseKey(k)

-----------------------------------------------------------------------------
(* push_heap, pop_heap, replace_heap, make_heap and sort_heap on a slice   *)
(* whose first `heaped' entries form a heap                                *)

VARIABLES slice, heaped, content

heapVars == <<slice, heaped, content>>

RECURSIVE PushHole(_, _, _, _)
\* detail::push_heap: value rises from the hole, but not above top
PushHole(s, top, value, hole) ==
  IF hole > top /\ s[hole \div 2] < value
  THEN PushHole([s EXCEPT ![hole] = s[hole \div 2]], top, value, hole \div 2)
  ELSE [s EXCEPT ![hole] = value]

RECURSIVE AdjustHole(_, _, _, _, _)
\* detail::adjust_heap on the first n entries: the hole sinks along the
\* larger children to a leaf (a last left child is a leaf of its own), from
\* where value rises
AdjustHole(s, n, top, value, hole) ==
  LET right == 2 * hole + 1
      child == IF s[right] < s[right - 1] THEN right - 1 ELSE right
  IN IF right <= n
     THEN AdjustHole([s EXCEPT ![hole] = s[child]], n, top, value, child)
     ELSE IF right - 1 = n
     THEN PushHole([s EXCEPT ![hole] = s[n]], top, value, n)
     ELSE PushHole(s, top, value, hole)

AdjustHeapNoLast(s, n, value, hole) ==
  IF n % 2 = 0 THEN AdjustHole(s, n - 1, hole, value, hole) ELSE AdjustHole(s, n, hole, value, hole)
AdjustHeap(s, n, value, hole) == AdjustHole(s, n, hole, value, hole)

\* the largest of the first n entries goes to the end of them
PopTop(s, n) ==
  IF n <= 1 THEN s ELSE AdjustHeap([s EXCEPT ![n] = s[1]], n - 1, s[n], 1)

HeapInit ==
  /\ slice \in UNION {[1..n -> 0..HeapLen] : n \in 1..HeapLen}
  /\ heaped = 0
  /\ content = slice

MakeHeap ==
  /\ heaped = 0
  /\ slice' = FoldLeft(LAMBDA s, parent : AdjustHeap(s, Len(s), s[parent], parent), slice,
                       [i \in 1..Len(slice) \div 2 |-> Len(slice) \div 2 + 1 - i])
  /\ heaped' = Len(slice)
  /\ UNCHANGED content

\* push_heap takes the next entry into the heap
PushHeap ==
  /\ heaped < Len(slice)
  /\ slice' = PushHole(slice, 1, slice[heaped + 1], heaped + 1)
  /\ heaped' = heaped + 1
  /\ UNCHANGED content

PopHeap ==
  /\ heaped > 0
  /\ slice' = PopTop(slice, heaped)
  /\ heaped' = heaped - 1
  /\ UNCHANGED content

ReplaceHeap ==
  /\ heaped > 0 /\ heaped = Len(slice)
  /\ \E v \in 0..HeapLen :
       /\ slice' = AdjustHeap(slice, heaped, v, 1)
       /\ content' = [content EXCEPT ![CHOOSE i \in DOMAIN content : content[i] = slice[1]] = v]
  /\ UNCHANGED heaped

SortHeap ==
  /\ heaped > 0 /\ heaped = Len(slice)
  /\ slice' = FoldLeft(PopTop, slice, [i \in 1..heaped |-> heaped + 1 - i])
  /\ heaped' = 0
  /\ UNCHANGED content

HeapNext == MakeHeap \/ PushHeap \/ PopHeap \/ ReplaceHeap \/ SortHeap

-----------------------------------------------------------------------------
(* The queue and its table say the same (the position of every queued key  *)
(* is where it is, and no other key has one), no key is better than its    *)
(* parent, and hence top is a best key, through every mix of pushes,       *)
(* removals in the middle and changes of scores.                           *)
QueueOrdered ==
  /\ \A i \in DOMAIN heap : indices[heap[i]] = i
  /\ \A k \in DOMAIN indices : indices[k] # NoPos => heap[indices[k]] = k
  /\ \A i \in 2..Len(heap) : score[heap[i]] <= score[heap[i \div 2]]

(* The heap functions keep the values they were given, their prefix is a   *)
(* heap, and sort_heap on a heap, even one that was pushed together, leaves *)
(* the slice sorted.                                                       *)
HeapsSortStep ==
  /\ \A v \in 0..HeapLen :
       Len(SelectSeq(slice', LAMBDA x : x = v)) = Len(SelectSeq(content', LAMBDA x : x = v))
  /\ \A i \in 2..heaped' : slice'[i] <= slice'[i \div 2]
  /\ heaped = Len(slice) /\ heaped' = 0 =>
       \A i \in 1..Len(slice) - 1 : slice'[i] <= slice'[i + 1]
HeapsSort == [][HeapsSortStep]_heapVars

-----------------------------------------------------------------------------
(* The two stacks                                                          *)

VARIABLES lrSeq,     \* the object: on the heap or not, capacity, left_bytes, right_offset;
                     \* and whether an operation has aborted the process
          cells,   \* the buffer
          lefts,   \* what the left should hold
          rights,  \* what the right should hold, in the order of its pushes
          lrSteps  \* operations so far

lrVars == <<lrSeq, cells, lefts, rights, lrSteps>>

BlockSize == IF LeftCells > RightCells THEN LeftCells ELSE RightCells
AlignUp(n) == ((n + BlockSize - 1) \div BlockSize) * BlockSize
InlineCap == (InlineCells \div BlockSize) * BlockSize
Garbage == <<"none", 0, 0>>
Blank(n) == [i \in 1..n |-> Garbage]

LrInit ==
  /\ lrSeq = [heap |-> FALSE, cap |-> InlineCap, left |-> 0, right |-> InlineCap, aborted |-> FALSE]
  /\ cells = Blank(InlineCap)
  /\ lefts = <<>> /\ rights = <<>> /\ lrSteps = 0

-----------------------------------------------------------------------------
(* the buffer *)

RightBytes(s) == s.cap - s.right
LeftSize(s) == s.left \div LeftCells
RightSize(s) == RightBytes(s) \div RightCells

Part(side, v, n) == [i \in 1..n |-> <<side, v, i>>]
WriteAt(mem, at, part) ==
  [i \in DOMAIN mem |-> IF i > at /\ i <= at + Len(part) THEN part[i - at] ELSE mem[i]]
\* ptr::copy and ptr::copy_nonoverlapping
CopyCells(mem, from, to, n) == WriteAt(mem, to, SubSeq(mem, from + 1, from + n))

MovedInPlace(mem, s, cap) ==
  WriteAt(WriteAt(Blank(cap), 0, SubSeq(mem, 1, s.left)), s.right, SubSeq(mem, s.right + 1, s.cap))
\* both ends move: the left to the start, the right to the end
Moved(mem, s, cap) ==
  WriteAt(WriteAt(Blank(cap), 0, SubSeq(mem, 1, s.left)),
          cap - RightBytes(s), SubSeq(mem, s.right + 1, s.cap))
At(s, away, cap) == [s EXCEPT !.heap = away, !.cap = cap, !.right = cap - RightBytes(s)]

\* half as much again, at least four blocks, at least what is needed
Grown(s, required) ==
  LET half == (((s.cap \div BlockSize) * 3) \div 2) * BlockSize
      least == IF half < 4 * BlockSize THEN 4 * BlockSize ELSE half
  IN IF least < AlignUp(required) THEN AlignUp(required) ELSE least

NeedsRoom(s, more) == s.left + RightBytes(s) + more > s.cap
EnsureSpace(more) ==
  LET needed == lrSeq.left + RightBytes(lrSeq) + more
      cap == Grown(lrSeq, needed)
  IN IF NeedsRoom(lrSeq, more) THEN [s |-> At(lrSeq, TRUE, cap), mem |-> Moved(cells, lrSeq, cap)]
     ELSE [s |-> lrSeq, mem |-> cells]

-----------------------------------------------------------------------------
(* operations *)

Step == ~lrSeq.aborted /\ lrSteps < LrSteps /\ lrSteps' = lrSteps + 1

PushLeft(v) ==
  LET room == EnsureSpace(LeftCells)
  IN /\ Step
     /\ cells' = WriteAt(room.mem, room.s.left, Part("L", v, LeftCells))
     /\ lrSeq' = [room.s EXCEPT !.left = @ + LeftCells]
     /\ lefts' = Append(lefts, v) /\ UNCHANGED rights
PushRight(v) ==
  LET room == EnsureSpace(RightCells)
      at == room.s.right - RightCells
  IN /\ Step
     /\ cells' = WriteAt(room.mem, at, Part("R", v, RightCells))
     /\ lrSeq' = [room.s EXCEPT !.right = at]
     /\ rights' = Append(rights, v) /\ UNCHANGED lefts

\* shrinking keeps the first n; popping shrinks by one
ShrinkLeft(n) ==
  /\ Step /\ n < LeftSize(lrSeq)
  /\ lrSeq' = [lrSeq EXCEPT !.left = n * LeftCells]
  /\ lefts' = SubSeq(lefts, 1, n) /\ UNCHANGED <<cells, rights>>
ShrinkRight(n) ==
  /\ Step /\ n < RightSize(lrSeq)
  /\ lrSeq' = [lrSeq EXCEPT !.right = lrSeq.cap - n * RightCells]
  /\ rights' = SubSeq(rights, 1, n) /\ UNCHANGED <<cells, lefts>>

EraseLeft(i) ==
  /\ Step /\ i < LeftSize(lrSeq)
  /\ cells' = CopyCells(cells, (i + 1) * LeftCells, i * LeftCells,
                        (LeftSize(lrSeq) - i - 1) * LeftCells)
  /\ lrSeq' = [lrSeq EXCEPT !.left = @ - LeftCells]
  /\ lefts' = RemoveAt(lefts, i + 1) /\ UNCHANGED rights
\* the right lies backwards: what was pushed after the element moves up
EraseRight(i) ==
  /\ Step /\ i < RightSize(lrSeq)
  /\ cells' = CopyCells(cells, lrSeq.right, lrSeq.right + RightCells,
                        (RightSize(lrSeq) - 1 - i) * RightCells)
  /\ lrSeq' = [lrSeq EXCEPT !.right = @ + RightCells]
  /\ rights' = RemoveAt(rights, i + 1) /\ UNCHANGED lefts

Swapped(s, i) == IF i = Len(s) THEN SubSeq(s, 1, Len(s) - 1)
                 ELSE [SubSeq(s, 1, Len(s) - 1) EXCEPT ![i] = s[Len(s)]]
\* the last one takes the place of the element
EraseLeftUnordered(i) ==
  /\ Step /\ i < LeftSize(lrSeq)
  /\ cells' = CopyCells(cells, (LeftSize(lrSeq) - 1) * LeftCells, i * LeftCells, LeftCells)
  /\ lrSeq' = [lrSeq EXCEPT !.left = @ - LeftCells]
  /\ lefts' = Swapped(lefts, i + 1) /\ UNCHANGED rights
\* on the right it is copied even if it is the element itself: source and
\* destination of copy_nonoverlapping are then the same, which is undefined. A
\* build with checks aborts, one without leaves the cells as they are.
OntoItself(i) == i = RightSize(lrSeq) - 1
EraseRightUnordered(i) ==
  /\ Step /\ i < RightSize(lrSeq)
  /\ \/ /\ cells' = CopyCells(cells, lrSeq.right,
                              lrSeq.right + (RightSize(lrSeq) - 1 - i) * RightCells, RightCells)
        /\ lrSeq' = [lrSeq EXCEPT !.right = @ + RightCells]
        /\ rights' = Swapped(rights, i + 1)
     \/ /\ OntoItself(i)
        /\ lrSeq' = [lrSeq EXCEPT !.aborted = TRUE]
        /\ UNCHANGED <<cells, rights>>
  /\ UNCHANGED lefts

Clear ==
  /\ Step /\ lefts \o rights # <<>>
  /\ lrSeq' = [lrSeq EXCEPT !.left = 0, !.right = lrSeq.cap]
  /\ lefts' = <<>> /\ rights' = <<>> /\ UNCHANGED cells
Reset ==
  /\ Step /\ lrSeq.heap
  /\ lrSeq' = [lrSeq EXCEPT !.heap = FALSE, !.cap = InlineCap, !.left = 0, !.right = InlineCap]
  /\ cells' = Blank(InlineCap)
  /\ lefts' = <<>> /\ rights' = <<>>
TryShrink ==
  /\ Step /\ InlineCap > 0 /\ lrSeq.heap /\ lrSeq.left + RightBytes(lrSeq) <= InlineCap
  /\ cells' = Moved(cells, lrSeq, InlineCap)
  /\ lrSeq' = At(lrSeq, FALSE, InlineCap)
  /\ UNCHANGED <<lefts, rights>>
\* the copy is in the object if it fits there, and has no spare room otherwise
CloneSeq ==
  LET raw == lrSeq.left + RightBytes(lrSeq)
      away == raw > InlineCap
      cap == IF away THEN AlignUp(raw) ELSE InlineCap
  IN /\ Step
     /\ cells' = Moved(cells, lrSeq, cap)
     /\ lrSeq' = At(lrSeq, away, cap)
     /\ UNCHANGED <<lefts, rights>>

LrNext ==
  \/ \E v \in {1, 2} : PushLeft(v) \/ PushRight(v)
  \/ \E i \in 0..LrSteps :
       ShrinkLeft(i) \/ ShrinkRight(i) \/ EraseLeft(i) \/ EraseRight(i)
       \/ EraseLeftUnordered(i) \/ EraseRightUnordered(i)
  \/ Clear \/ Reset \/ TryShrink \/ CloneSeq

-----------------------------------------------------------------------------
(* Property *)

LeftAt(i) == SubSeq(cells, (i - 1) * LeftCells + 1, i * LeftCells)
RightAt(i) == SubSeq(cells, lrSeq.cap - i * RightCells + 1, lrSeq.cap - (i - 1) * RightCells)

\* Whatever is pushed, erased, shrunk, moved to the heap or back or copied: the
\* two ends never meet, and each holds its own elements, whole and in order,
\* for as long as no operation has aborted the process.
BothKept == ~lrSeq.aborted =>
  /\ lrSeq.left <= lrSeq.right /\ Len(cells) = lrSeq.cap
  /\ LeftSize(lrSeq) = Len(lefts) /\ RightSize(lrSeq) = Len(rights)
  /\ \A i \in DOMAIN lefts : LeftAt(i) = Part("L", lefts[i], LeftCells)
  /\ \A i \in DOMAIN rights : RightAt(i) = Part("R", rights[i], RightCells)

\* What the comment on erase_right_unordered promises, "both pointers are within
\* the initialized right region", is not enough: the regions that are copied must
\* not overlap. Erasing the newest right element copies it onto itself.
CopiesApart == ~lrSeq.aborted
=============================================================================

------------------------------ MODULE PostProofs ------------------------------
(***************************************************************************)
(* What the list of post propagators promises, for any number of           *)
(* propagators and literals and any calls: CheapFirst and FixpointReached. *)
(*                                                                         *)
(* The nested passes are places in a list that changes. `at' gives the     *)
(* propagator at each position of the list, `n' their number, and `pl' the *)
(* position behind which each pass has come to (0 in front of the list).   *)
(***************************************************************************)
EXTENDS PostList, SequenceTheorems, WellFoundedInduction, TLAPS

Sizes == PostNum \in Nat

Ends == PostIds \union {0}
Frames == [phase : {"unit", "loop", "run"}, stop : Ends, max : Prios \union {NoMax}, link : Ends]
TypeOK ==
  /\ next \in [Ends -> Ends \union {Unlisted}]
  /\ prio \in [PostIds -> Prios \union {0}]
  /\ queue \in Nat
  /\ frames \in Seq(Frames)

(* The links lead through the list, which is sorted and holds all there is.*)
PlaceInv(at, n) ==
  /\ n \in Nat /\ at \in [Nat -> Ends] /\ at[0] = 0
  /\ \A i \in 1..n : at[i] \in PostIds
  /\ \A i, j \in 0..n : at[i] = at[j] => i = j
  /\ \A i \in 0..n - 1 : next[at[i]] = at[i + 1]
  /\ next[at[n]] = 0
  /\ \A p \in PostIds : next[p] # Unlisted => \E i \in 1..n : p = at[i]
SortInv(at, n) == \A i, j \in 1..n : i <= j => prio[at[i]] <= prio[at[j]]
TodoInv == \A p \in todo : p \in PostIds /\ next[p] # Unlisted

(* A pass is at a link of the list, and what it stops at lies ahead.       *)
FrameInv(at, n, pl) ==
  \A i \in 1..Len(frames) :
    /\ pl[i] \in 0..n /\ frames[i].link = at[pl[i]]
    /\ frames[i].stop # 0 => \E k \in pl[i] + 1..n : frames[i].stop = at[k]
    /\ frames[i].phase = "run" =>
         pl[i] < n /\ at[pl[i] + 1] # frames[i].stop /\ posts = "active"

(* The passes inside others run before the propagator that called them.    *)
NestInv(at, pl) ==
  /\ \A i \in 1..Len(frames) - 1 :
       /\ frames[i].phase = "run" /\ frames[i + 1].max = NoMax
       /\ frames[i + 1].stop = at[pl[i] + 1]
  /\ \A i, k \in 1..Len(frames) : i <= k => pl[k] <= pl[i]

(* The innermost pass has left no work behind.                             *)
Depth(pl) == pl[Len(frames)]
TopInv(at, pl) ==
  ~Idle =>
    /\ Top.phase = "unit" => Depth(pl) = 0
    /\ Top.phase # "unit" => queue = 0 /\ \A m \in 1..Depth(pl) : at[m] \notin todo

PassInv(at, n, pl) == FrameInv(at, n, pl) /\ NestInv(at, pl) /\ TopInv(at, pl)
PostInv ==
  /\ TypeOK /\ TodoInv
  /\ \E at, n : /\ PlaceInv(at, n) /\ SortInv(at, n)
                /\ \E pl \in [Nat -> Nat] : PassInv(at, n, pl)

-----------------------------------------------------------------------------
(* The list                                                                *)

(* Induction on a set of numbers, from the well-foundedness of <.          *)
LEMMA NatSetInduction ==
  ASSUME NEW S, 0 \in S, \A n \in Nat : n \in S => n + 1 \in S
  PROVE  Nat \subseteq S
<1> SUFFICES ASSUME Nat \ S # {} PROVE FALSE
  OBVIOUS
<1>1. PICK n \in Nat \ S : \A m \in Nat \ S : ~(<<m, n>> \in OpToRel(<, Nat))
  BY NatLessThanWellFounded, WFMin
<1>2. n # 0
  OBVIOUS
<1>3. n - 1 \in S
  <2>1. n - 1 \in Nat
    BY <1>2
  <2>2. <<n - 1, n>> \in OpToRel(<, Nat)
    BY <2>1 DEF OpToRel
  <2> QED
    BY <1>1, <2>1, <2>2
<1> QED
  BY <1>3, <1>2

LEMMA InPlace ==
  ASSUME Sizes, TypeOK, NEW at, NEW n, PlaceInv(at, n)
  PROVE  /\ n \in Nat /\ at[0] = 0 /\ 0 \notin PostIds /\ Unlisted \notin Ends
         /\ \A i \in 1..n : at[i] \in PostIds /\ at[i] \in Listed /\ at[i] # 0
         /\ \A p \in Listed : p \in PostIds /\ \E i \in 1..n : p = at[i]
         /\ \A i \in 0..n : next[at[i]] = IF i < n THEN at[i + 1] ELSE 0
<1>1. 0 \notin PostIds /\ Unlisted \notin Ends
  BY DEF Sizes, PostIds, Ends, Unlisted
<1>2. n \in Nat /\ at[0] = 0 /\ \A i \in 1..n : at[i] \in PostIds
  BY DEF PlaceInv
<1>3. \A i \in 0..n : next[at[i]] = IF i < n THEN at[i + 1] ELSE 0
  BY <1>2 DEF PlaceInv
<1>4. \A i \in 1..n : at[i] \in Listed
  <2> SUFFICES ASSUME NEW i \in 1..n PROVE at[i] \in Listed
    OBVIOUS
  <2>1. i \in 0..n /\ (i < n => i + 1 \in 1..n)
    BY <1>2
  <2>2. next[at[i]] \in Ends
    BY <1>2, <1>3, <2>1 DEF Ends
  <2> QED
    BY <1>1, <1>2, <2>2 DEF Listed
<1>5. \A p \in Listed : p \in PostIds /\ \E i \in 1..n : p = at[i]
  BY DEF Listed, PlaceInv
<1> QED
  BY <1>1, <1>2, <1>3, <1>4, <1>5

(* What is behind a link are the later positions.                          *)
LEMMA BehindIs ==
  ASSUME Sizes, TypeOK, NEW at, NEW n, PlaceInv(at, n), NEW i \in 0..n, NEW j \in 1..n
  PROVE  at[j] \in Behind(at[i]) <=> i < j
<1>0. /\ n \in Nat /\ 0 \notin PostIds
      /\ \A k \in 1..n : at[k] \in PostIds /\ at[k] \in Listed /\ at[k] # 0
      /\ \A k \in 0..n : next[at[k]] = IF k < n THEN at[k + 1] ELSE 0
  BY InPlace
<1>1. ASSUME at[j] \in Behind(at[i]) PROVE i < j
  <2> DEFINE S == {at[k] : k \in i + 1..n}
  <2>1. S \subseteq Listed
    BY <1>0
  <2>2. next[at[i]] \in S \union {0}
    BY <1>0
  <2>3. \A q \in S : next[q] \in S \union {0}
    <3> SUFFICES ASSUME NEW k \in i + 1..n PROVE next[at[k]] \in S \union {0}
      OBVIOUS
    <3>1. k \in 0..n /\ (k < n => k + 1 \in i + 1..n)
      BY <1>0
    <3> QED
      BY <1>0, <3>1
  <2> HIDE DEF S
  <2>4. at[j] \in S
    BY <1>1, <2>1, <2>2, <2>3 DEF Behind
  <2>5. PICK k \in i + 1..n : at[j] = at[k]
    BY <2>4 DEF S
  <2>6. j = k
    BY <1>0, <2>5 DEF PlaceInv
  <2> QED
    BY <1>0, <2>6
<1>2. ASSUME i < j, NEW S \in SUBSET Listed, next[at[i]] \in S \union {0},
             \A q \in S : next[q] \in S \union {0}
      PROVE  at[j] \in S
  <2> DEFINE R == {m \in Nat : i + 1 + m <= n => at[i + 1 + m] \in S}
  <2>1. 0 \in R
    <3> SUFFICES ASSUME i + 1 <= n PROVE at[i + 1] \in S
      BY <1>0
    <3>1. next[at[i]] = at[i + 1] /\ at[i + 1] # 0
      BY <1>0
    <3> QED
      BY <1>2, <3>1
  <2>2. ASSUME NEW m \in Nat, m \in R PROVE m + 1 \in R
    <3> SUFFICES ASSUME i + 1 + (m + 1) <= n PROVE at[i + 1 + (m + 1)] \in S
      OBVIOUS
    <3>1. /\ i + 1 + m <= n /\ i + 1 + m \in 0..n /\ i + 1 + m < n
          /\ i + 1 + (m + 1) = (i + 1 + m) + 1 /\ (i + 1 + m) + 1 \in 1..n
      BY <1>0
    <3>2. next[at[i + 1 + m]] = at[i + 1 + (m + 1)] /\ at[i + 1 + (m + 1)] # 0
      BY <1>0, <3>1
    <3>3. at[i + 1 + m] \in S
      BY <2>2, <3>1
    <3> QED
      BY <1>2, <3>2, <3>3
  <2>3. Nat \subseteq R
    <3> HIDE DEF R
    <3> QED
      BY <2>1, <2>2, NatSetInduction
  <2>4. j - i - 1 \in Nat /\ i + 1 + (j - i - 1) = j /\ j <= n
    BY <1>0, <1>2
  <2>5. j - i - 1 \in R
    BY <2>3, <2>4
  <2> QED
    BY <2>4, <2>5
<1>3. ASSUME i < j PROVE at[j] \in Behind(at[i])
  BY <1>0, <1>2, <1>3 DEF Behind
<1> QED
  BY <1>1, <1>3

(* So the order of the list is that of the positions.                      *)
LEMMA BeforeIs ==
  ASSUME Sizes, TypeOK, NEW at, NEW n, PlaceInv(at, n), NEW j \in 1..n, NEW q
  PROVE  q \in Before(at[j]) <=> \E i \in 1..n : i < j /\ q = at[i]
<1>0. /\ n \in Nat
      /\ \A k \in 1..n : at[k] \in Listed
      /\ \A p \in Listed : \E i \in 1..n : p = at[i]
  BY InPlace
<1>1. \A i \in 1..n : at[j] \in Behind(at[i]) <=> i < j
  BY <1>0, BehindIs
<1> QED
  BY <1>0, <1>1 DEF Before

LEMMA LinkToIs ==
  ASSUME Sizes, TypeOK, NEW at, NEW n, PlaceInv(at, n), NEW k \in 1..n
  PROVE  LinkTo(at[k]) = at[k - 1]
<1>0. /\ n \in Nat /\ at[0] = 0
      /\ \A i \in 1..n : at[i] \in Listed /\ at[i] # 0
      /\ \A p \in Listed : \E i \in 1..n : p = at[i]
      /\ \A i \in 0..n : next[at[i]] = IF i < n THEN at[i + 1] ELSE 0
  BY InPlace
<1>1. at[k - 1] \in Listed \union {0} /\ next[at[k - 1]] = at[k]
  <2>1. k - 1 \in 0..n /\ k - 1 < n /\ (k - 1) + 1 = k /\ (k - 1 = 0 \/ k - 1 \in 1..n)
    BY <1>0
  <2> QED
    BY <1>0, <2>1
<1>2. ASSUME NEW l \in Listed \union {0}, next[l] = at[k] PROVE l = at[k - 1]
  <2>1. PICK i \in 0..n : l = at[i]
    BY <1>0
  <2>2. i < n /\ at[i + 1] = at[k]
    BY <1>0, <1>2, <2>1
  <2>3. i + 1 = k
    BY <1>0, <2>2 DEF PlaceInv
  <2> QED
    BY <1>0, <2>1, <2>3
<1> QED
  BY <1>1, <1>2 DEF LinkTo

(* A propagator is added behind those whose priority is not higher.        *)
LEMMA InsertLinkIs ==
  ASSUME Sizes, TypeOK, NEW at, NEW n, PlaceInv(at, n), NEW pr \in Prios
  PROVE  \E k \in 0..n : /\ InsertLink(pr) = at[k]
                         /\ k < n => prio[at[k + 1]] > pr
                         /\ \A i \in 1..k : prio[at[i]] <= pr
<1> DEFINE Good(l) == /\ next[l] = 0 \/ prio[next[l]] > pr
                      /\ \A q \in Listed : q = l \/ q \in Before(l) => prio[q] <= pr
<1>0. /\ n \in Nat /\ at[0] = 0 /\ 0 \notin PostIds
      /\ \A i \in 1..n : at[i] \in PostIds /\ at[i] \in Listed /\ at[i] # 0
      /\ \A p \in Listed : p \in PostIds /\ \E i \in 1..n : p = at[i]
      /\ \A i \in 0..n : next[at[i]] = IF i < n THEN at[i + 1] ELSE 0
  BY InPlace
<1>1. pr \in Int /\ \A p \in PostIds : prio[p] \in Int
  BY DEF TypeOK, Prios
<1>2. ASSUME NEW k \in 0..n
      PROVE  Good(at[k]) <=> /\ k < n => prio[at[k + 1]] > pr
                             /\ \A i \in 1..k : prio[at[i]] <= pr
  <2>1. (next[at[k]] = 0 \/ prio[next[at[k]]] > pr) <=> (k < n => prio[at[k + 1]] > pr)
    BY <1>0
  <2>2. (\A q \in Listed : q = at[k] \/ q \in Before(at[k]) => prio[q] <= pr)
          <=> \A i \in 1..k : prio[at[i]] <= pr
    <3>1. CASE k = 0
      <4>1. \A q \in Listed : q # at[k] /\ q \notin Before(at[k])
        BY <1>0, <3>1 DEF Before, Behind
      <4> QED
        BY <3>1, <4>1
    <3>2. CASE k # 0
      <4>1. k \in 1..n
        BY <1>0, <3>2
      <4>2. \A q : q \in Before(at[k]) <=> \E i \in 1..n : i < k /\ q = at[i]
        BY <4>1, BeforeIs
      <4>3. \A i \in 1..k : i \in 1..n /\ (i < k \/ i = k)
        BY <1>0
      <4>4. \A q \in Listed : q = at[k] \/ q \in Before(at[k]) <=> \E i \in 1..k : q = at[i]
        BY <1>0, <4>1, <4>2, <4>3
      <4> QED
        BY <1>0, <4>3, <4>4
    <3> QED
      BY <3>1, <3>2
  <2> QED
    BY <2>1, <2>2
<1> HIDE DEF Good
<1>3. \E k \in 0..n : Good(at[k])
  <2> SUFFICES ASSUME \A k \in 0..n : ~Good(at[k]) PROVE FALSE
    OBVIOUS
  <2> DEFINE R == {m \in Nat : m <= n => \A i \in 1..m : prio[at[i]] <= pr}
  <2>1. 0 \in R
    OBVIOUS
  <2>2. ASSUME NEW m \in Nat, m \in R PROVE m + 1 \in R
    <3> SUFFICES ASSUME m + 1 <= n, NEW i \in 1..m + 1 PROVE prio[at[i]] <= pr
      OBVIOUS
    <3>1. m \in 0..n /\ m < n /\ m + 1 \in 1..n
      BY <1>0
    <3>2. \A j \in 1..m : prio[at[j]] <= pr
      BY <2>2, <3>1
    <3>3. prio[at[m + 1]] <= pr
      <4>1. ~(prio[at[m + 1]] > pr)
        BY <1>2, <3>1, <3>2
      <4>2. at[m + 1] \in PostIds
        BY <1>0, <3>1
      <4>3. prio[at[m + 1]] \in Int
        BY <1>1, <4>2
      <4> QED
        BY <1>1, <4>1, <4>3
    <3>4. i \in 1..m \/ i = m + 1
      OBVIOUS
    <3> QED
      BY <3>2, <3>3, <3>4
  <2>3. n \in R
    <3> HIDE DEF R
    <3> QED
      BY <1>0, <2>1, <2>2, NatSetInduction
  <2>4. Good(at[n])
    BY <1>0, <1>2, <2>3
  <2> QED
    BY <1>0, <2>4
<1>4. \A k \in 0..n : at[k] \in Listed \union {0}
  <2> SUFFICES ASSUME NEW k \in 0..n PROVE at[k] \in Listed \union {0}
    OBVIOUS
  <2>1. k = 0 \/ k \in 1..n
    BY <1>0
  <2> QED
    BY <1>0, <2>1
<1>5. InsertLink(pr) = CHOOSE l \in Listed \union {0} : Good(l)
  BY DEF InsertLink, Good
<1>6. InsertLink(pr) \in Listed \union {0} /\ Good(InsertLink(pr))
  BY <1>3, <1>4, <1>5
<1>7. PICK k \in 0..n : InsertLink(pr) = at[k]
  BY <1>0, <1>6
<1> QED
  BY <1>2, <1>6, <1>7

(* The list without the propagator at position d + 1, and with one more.   *)
Shorter(at, d) == [j \in Nat |-> IF j <= d THEN at[j] ELSE at[j + 1]]
Longer(at, d, p) == [j \in Nat |-> IF j <= d THEN at[j] ELSE IF j = d + 1 THEN p ELSE at[j - 1]]

LEMMA UnlinkKeeps ==
  ASSUME Sizes, TypeOK, NEW at, NEW n, PlaceInv(at, n), SortInv(at, n), TodoInv,
         NEW d \in 0..n - 1, next' = Unlink(at[d + 1]), todo' \subseteq todo \ {at[d + 1]},
         UNCHANGED prio
  PROVE  /\ PlaceInv(Shorter(at, d), n - 1)' /\ SortInv(Shorter(at, d), n - 1)' /\ TodoInv'
         /\ next' \in [Ends -> Ends \union {Unlisted}] /\ next'[at[d]] # at[d + 1]
<1> DEFINE b == Shorter(at, d)
<1>0. /\ n \in Nat /\ at[0] = 0 /\ 0 \notin PostIds /\ Unlisted \notin Ends
      /\ \A i \in 1..n : at[i] \in PostIds /\ at[i] \in Listed /\ at[i] # 0
      /\ \A p \in Listed : p \in PostIds /\ \E i \in 1..n : p = at[i]
      /\ \A i \in 0..n : next[at[i]] = IF i < n THEN at[i + 1] ELSE 0
  BY InPlace
<1>1. at \in [Nat -> Ends] /\ \A i, j \in 0..n : at[i] = at[j] => i = j
  BY DEF PlaceInv
<1>2. d \in Nat /\ d + 1 \in 1..n /\ d \in 0..n /\ d + 1 - 1 = d /\ d < n
  BY <1>0
<1>3. LinkTo(at[d + 1]) = at[d]
  BY <1>2, LinkToIs
<1>4. /\ at[d] \in Ends /\ at[d + 1] \in Ends /\ at[d] # at[d + 1]
      /\ next \in [Ends -> Ends \union {Unlisted}]
      /\ next[at[d + 1]] = IF d + 1 < n THEN at[d + 2] ELSE 0
  <2>1. at[d] # at[d + 1]
    BY <1>1, <1>2
  <2>2. d + 1 + 1 = d + 2 /\ d + 1 \in 0..n
    BY <1>2
  <2> QED
    BY <1>0, <1>1, <1>2, <2>1, <2>2 DEF TypeOK
<1>5. next' = [next EXCEPT ![at[d]] = next[at[d + 1]], ![at[d + 1]] = Unlisted]
  BY <1>3 DEF Unlink
<1>6. /\ next'[at[d + 1]] = Unlisted /\ next'[at[d]] = next[at[d + 1]]
      /\ \A p \in Ends \ {at[d], at[d + 1]} : next'[p] = next[p]
  BY <1>4, <1>5
<1>7. next' \in [Ends -> Ends \union {Unlisted}]
  <2>1. next[at[d + 1]] \in Ends
    BY <1>0, <1>2, <1>4 DEF Ends
  <2> QED
    BY <1>4, <1>5, <2>1
<1>8. /\ b \in [Nat -> Ends] /\ \A j \in 0..d : b[j] = at[j]
      /\ \A j \in Nat : j > d => b[j] = at[j + 1]
  BY <1>1, <1>2 DEF Shorter
<1> DEFINE to(j) == IF j <= d THEN j ELSE j + 1
<1>9. \A j \in 0..n - 1 : /\ b[j] = at[to(j)] /\ to(j) \in 0..n /\ to(j) # d + 1
                          /\ (j \in 1..n - 1 => to(j) \in 1..n)
  BY <1>0, <1>2, <1>8
<1> HIDE DEF b
<1>10. PlaceInv(b, n - 1)'
  <2>1. n - 1 \in Nat /\ b[0] = 0 /\ \A i \in 1..n - 1 : b[i] \in PostIds
    BY <1>0, <1>2, <1>8, <1>9
  <2>2. \A i, j \in 0..n - 1 : b[i] = b[j] => i = j
    <3> SUFFICES ASSUME NEW i \in 0..n - 1, NEW j \in 0..n - 1, b[i] = b[j] PROVE i = j
      OBVIOUS
    <3>1. to(i) = to(j)
      BY <1>1, <1>9
    <3> QED
      BY <1>2, <3>1
  <2>3. \A i \in 0..n - 1 : next'[b[i]] = IF i < n - 1 THEN b[i + 1] ELSE 0
    <3> SUFFICES ASSUME NEW i \in 0..n - 1 PROVE next'[b[i]] = IF i < n - 1 THEN b[i + 1] ELSE 0
      OBVIOUS
    <3>1. CASE i < d
      <4>1. i \in 0..d /\ i + 1 \in 0..d /\ i \in 0..n /\ i < n - 1 /\ i < n /\ i # d /\ i # d + 1
        BY <1>0, <1>2, <3>1
      <4>2. at[i] \in Ends \ {at[d], at[d + 1]}
        BY <1>1, <1>2, <4>1
      <4> QED
        BY <1>0, <1>6, <1>8, <4>1, <4>2
    <3>2. CASE i = d
      <4>1. next'[b[i]] = IF d + 1 < n THEN at[d + 2] ELSE 0
        BY <1>2, <1>4, <1>6, <1>8, <3>2
      <4>2. i < n - 1 <=> d + 1 < n
        BY <1>0, <1>2, <3>2
      <4>3. b[i + 1] = at[d + 2]
        BY <1>2, <1>8, <3>2
      <4> QED
        BY <4>1, <4>2, <4>3
    <3>3. CASE i > d
      <4>1. /\ i \in Nat /\ i + 1 \in 0..n /\ i + 1 # d /\ i + 1 # d + 1 /\ (i + 1) + 1 = i + 2
            /\ (i < n - 1 <=> i + 1 < n) /\ i + 1 \in Nat /\ i + 1 > d
        BY <1>0, <1>2, <3>3
      <4>2. at[i + 1] \in Ends \ {at[d], at[d + 1]}
        BY <1>1, <1>2, <4>1
      <4>3. next'[b[i]] = IF i + 1 < n THEN at[(i + 1) + 1] ELSE 0
        BY <1>0, <1>6, <1>8, <3>3, <4>1, <4>2
      <4>4. b[i + 1] = at[(i + 1) + 1]
        BY <1>8, <4>1
      <4> QED
        BY <4>1, <4>3, <4>4
    <3> QED
      BY <1>2, <3>1, <3>2, <3>3
  <2>4. ASSUME NEW p \in PostIds, next'[p] # Unlisted PROVE \E i \in 1..n - 1 : p = b[i]
    <3>1. p \in Ends /\ p # at[d + 1]
      BY <1>6, <2>4 DEF Ends
    <3>2. p \in Listed
      <4>1. CASE p = at[d]
        <5>1. d \in 1..n
          BY <1>0, <1>2, <2>4, <4>1
        <5> QED
          BY <1>0, <4>1, <5>1
      <4>2. CASE p # at[d]
        BY <1>6, <2>4, <3>1, <4>2 DEF Listed
      <4> QED
        BY <4>1, <4>2
    <3>3. PICK i \in 1..n : p = at[i]
      BY <1>0, <3>2
    <3>4. CASE i <= d
      <4>1. i \in 0..d /\ i \in 1..n - 1
        BY <1>0, <1>2, <3>4
      <4> QED
        BY <1>8, <3>3, <4>1
    <3>5. CASE i > d
      <4>1. i # d + 1
        BY <3>1, <3>3
      <4>2. i - 1 \in 1..n - 1 /\ i - 1 \in Nat /\ i - 1 > d /\ (i - 1) + 1 = i
        BY <1>0, <1>2, <3>5, <4>1
      <4>3. b[i - 1] = at[i]
        BY <1>8, <4>2
      <4> QED
        BY <3>3, <4>2, <4>3
    <3> QED
      BY <1>2, <3>4, <3>5
  <2>5. /\ \A i \in 0..(n - 1) - 1 : next'[b[i]] = b[i + 1]
        /\ next'[b[n - 1]] = 0
    BY <2>1, <2>3
  <2> QED
    BY <1>8, <2>1, <2>2, <2>4, <2>5 DEF PlaceInv
<1>11. SortInv(b, n - 1)'
  <2> SUFFICES ASSUME NEW i \in 1..n - 1, NEW j \in 1..n - 1, i <= j PROVE prio[b[i]] <= prio[b[j]]
    BY DEF SortInv
  <2>1. i \in 0..n - 1 /\ j \in 0..n - 1 /\ to(i) \in 1..n /\ to(j) \in 1..n /\ to(i) <= to(j)
    BY <1>2, <1>9
  <2> QED
    BY <1>9, <2>1 DEF SortInv
<1>12. TodoInv'
  <2> SUFFICES ASSUME NEW p \in todo, p # at[d + 1] PROVE p \in PostIds /\ next'[p] # Unlisted
    BY DEF TodoInv
  <2>1. p \in PostIds /\ next[p] # Unlisted /\ p \in Ends
    BY DEF TodoInv, Ends
  <2>2. next[at[d + 1]] # Unlisted
    BY <1>0, <1>2, <1>4 DEF Ends
  <2> QED
    BY <1>6, <2>1, <2>2
<1>13. next'[at[d]] # at[d + 1]
  <2>1. CASE d + 1 < n
    <3>1. d + 2 \in 0..n /\ d + 1 \in 0..n /\ d + 2 # d + 1
      BY <1>0, <1>2, <2>1
    <3> QED
      BY <1>1, <1>4, <1>6, <2>1, <3>1
  <2>2. CASE ~(d + 1 < n)
    BY <1>0, <1>2, <1>4, <1>6, <2>2
  <2> QED
    BY <2>1, <2>2
<1> QED
  BY <1>7, <1>10, <1>11, <1>12, <1>13 DEF b

LEMMA InsertKeeps ==
  ASSUME Sizes, TypeOK, NEW at, NEW n, PlaceInv(at, n), SortInv(at, n), TodoInv,
         NEW p \in PostIds \ Listed, NEW pr \in Prios, next' = Insert(p, pr),
         prio' = [prio EXCEPT ![p] = pr], todo' \subseteq todo \union {p}
  PROVE  /\ \E b, m : PlaceInv(b, m)' /\ SortInv(b, m)'
         /\ TodoInv' /\ next' \in [Ends -> Ends \union {Unlisted}]
<1>0. /\ n \in Nat /\ at[0] = 0 /\ 0 \notin PostIds /\ Unlisted \notin Ends
      /\ \A i \in 1..n : at[i] \in PostIds /\ at[i] \in Listed /\ at[i] # 0
      /\ \A q \in Listed : q \in PostIds /\ \E i \in 1..n : q = at[i]
      /\ \A i \in 0..n : next[at[i]] = IF i < n THEN at[i + 1] ELSE 0
  BY InPlace
<1>1. at \in [Nat -> Ends] /\ \A i, j \in 0..n : at[i] = at[j] => i = j
  BY DEF PlaceInv
<1>2. PICK k \in 0..n : /\ InsertLink(pr) = at[k]
                        /\ k < n => prio[at[k + 1]] > pr
                        /\ \A i \in 1..k : prio[at[i]] <= pr
  BY InsertLinkIs
<1> DEFINE b == Longer(at, k, p)
<1>3. /\ k \in Nat /\ k \in 0..n /\ p \in Ends /\ p # 0 /\ next \in [Ends -> Ends \union {Unlisted}]
      /\ \A i \in 0..n : at[i] # p
  <2>1. \A i \in 0..n : i = 0 \/ i \in 1..n
    BY <1>0
  <2> QED
    BY <1>0, <1>2, <2>1 DEF TypeOK, Ends
<1>4. at[k] \in Ends /\ at[k] # p /\ next[at[k]] = IF k < n THEN at[k + 1] ELSE 0
  BY <1>0, <1>1, <1>3
<1>5. next' = [next EXCEPT ![p] = next[at[k]], ![at[k]] = p]
  BY <1>2 DEF Insert
<1>6. /\ next'[p] = next[at[k]] /\ next'[at[k]] = p
      /\ \A q \in Ends \ {p, at[k]} : next'[q] = next[q]
  BY <1>3, <1>4, <1>5
<1>7. next' \in [Ends -> Ends \union {Unlisted}]
  BY <1>3, <1>4, <1>5
<1>8. /\ b \in [Nat -> Ends] /\ \A j \in 0..k : b[j] = at[j]
      /\ b[k + 1] = p /\ \A j \in Nat : j > k + 1 => b[j] = at[j - 1]
  <2>1. \A j \in Nat : ~(j <= k) /\ j # k + 1 => j - 1 \in Nat
    BY <1>3
  <2>2. b \in [Nat -> Ends]
    BY <1>1, <1>3, <2>1 DEF Longer
  <2>3. k + 1 \in Nat /\ ~(k + 1 <= k) /\ \A j \in 0..k : j \in Nat /\ j <= k
    BY <1>3
  <2>4. \A j \in Nat : j > k + 1 => ~(j <= k) /\ j # k + 1
    BY <1>3
  <2> QED
    BY <2>2, <2>3, <2>4 DEF Longer
<1> DEFINE from(j) == IF j <= k THEN j ELSE j - 1
<1>9. \A j \in 0..n + 1 : j # k + 1 => /\ b[j] = at[from(j)] /\ from(j) \in 0..n
                                       /\ (j \in 1..n + 1 => from(j) \in 1..n)
  BY <1>0, <1>3, <1>8
<1> HIDE DEF b
<1>10. PlaceInv(b, n + 1)'
  <2>1. n + 1 \in Nat /\ b[0] = 0 /\ \A i \in 1..n + 1 : b[i] \in PostIds
    BY <1>0, <1>3, <1>8, <1>9
  <2>2. \A i, j \in 0..n + 1 : b[i] = b[j] => i = j
    <3> SUFFICES ASSUME NEW i \in 0..n + 1, NEW j \in 0..n + 1, b[i] = b[j] PROVE i = j
      OBVIOUS
    <3>1. CASE i = k + 1 \/ j = k + 1
      <4>1. i = k + 1 /\ j = k + 1
        BY <1>3, <1>8, <1>9, <3>1
      <4> QED
        BY <4>1
    <3>2. CASE i # k + 1 /\ j # k + 1
      <4>1. from(i) = from(j)
        BY <1>1, <1>9, <3>2
      <4> QED
        BY <1>0, <1>3, <3>2, <4>1
    <3> QED
      BY <3>1, <3>2
  <2>3. \A i \in 0..n + 1 : next'[b[i]] = IF i < n + 1 THEN b[i + 1] ELSE 0
    <3> SUFFICES ASSUME NEW i \in 0..n + 1 PROVE next'[b[i]] = IF i < n + 1 THEN b[i + 1] ELSE 0
      OBVIOUS
    <3>1. CASE i < k
      <4>1. i \in 0..k /\ i + 1 \in 0..k /\ i \in 0..n /\ i < n + 1 /\ i < n /\ i # k
        BY <1>0, <1>3, <3>1
      <4>2. at[i] \in Ends \ {p, at[k]}
        BY <1>1, <1>3, <4>1
      <4> QED
        BY <1>0, <1>6, <1>8, <4>1, <4>2
    <3>2. CASE i = k
      BY <1>0, <1>3, <1>6, <1>8, <3>2
    <3>3. CASE i = k + 1
      <4>1. next'[b[i]] = IF k < n THEN at[k + 1] ELSE 0
        BY <1>4, <1>6, <1>8, <3>3
      <4>2. (i < n + 1 <=> k < n) /\ i + 1 \in Nat /\ i + 1 > k + 1 /\ (i + 1) - 1 = k + 1
        BY <1>0, <1>3, <3>3
      <4>3. b[i + 1] = at[(i + 1) - 1]
        BY <1>8, <4>2
      <4> QED
        BY <4>1, <4>2, <4>3
    <3>4. CASE i > k + 1
      <4>1. /\ i \in Nat /\ i - 1 \in 0..n /\ i - 1 # k /\ (i < n + 1 <=> i - 1 < n)
            /\ i + 1 \in Nat /\ i + 1 > k + 1 /\ (i + 1) - 1 = (i - 1) + 1
        BY <1>0, <1>3, <3>4
      <4>2. at[i - 1] \in Ends \ {p, at[k]}
        BY <1>1, <1>3, <4>1
      <4>3. next'[b[i]] = IF i - 1 < n THEN at[(i - 1) + 1] ELSE 0
        BY <1>0, <1>6, <1>8, <3>4, <4>1, <4>2
      <4>4. b[i + 1] = at[(i + 1) - 1]
        BY <1>8, <4>1
      <4> QED
        BY <4>1, <4>3, <4>4
    <3> QED
      BY <1>3, <3>1, <3>2, <3>3, <3>4
  <2>4. ASSUME NEW q \in PostIds, next'[q] # Unlisted PROVE \E i \in 1..n + 1 : q = b[i]
    <3>1. CASE q = p
      BY <1>0, <1>3, <1>8, <3>1
    <3>2. CASE q # p
      <4>1. q \in Ends /\ next[q] # Unlisted
        <5>1. q \in Ends
          BY DEF Ends
        <5>2. next[at[k]] # Unlisted
          BY <1>0, <1>1, <1>4
        <5> QED
          BY <1>6, <2>4, <3>2, <5>1, <5>2
      <4>2. PICK i \in 1..n : q = at[i]
        BY <1>0, <4>1 DEF Listed
      <4>3. CASE i <= k
        <5>1. i \in 0..k /\ i \in 1..n + 1
          BY <1>0, <1>3, <4>3
        <5> QED
          BY <1>8, <4>2, <5>1
      <4>4. CASE i > k
        <5>1. i + 1 \in 1..n + 1 /\ i + 1 \in Nat /\ i + 1 > k + 1 /\ (i + 1) - 1 = i
          BY <1>0, <1>3, <4>4
        <5>2. b[i + 1] = at[(i + 1) - 1]
          BY <1>8, <5>1
        <5> QED
          BY <4>2, <5>1, <5>2
      <4> QED
        BY <1>3, <4>3, <4>4
    <3> QED
      BY <3>1, <3>2
  <2>5. /\ \A i \in 0..(n + 1) - 1 : next'[b[i]] = b[i + 1]
        /\ next'[b[n + 1]] = 0
    BY <2>1, <2>3
  <2> QED
    BY <1>8, <2>1, <2>2, <2>4, <2>5 DEF PlaceInv
<1>11. SortInv(b, n + 1)'
  <2> SUFFICES ASSUME NEW i \in 1..n + 1, NEW j \in 1..n + 1, i <= j PROVE prio'[b[i]] <= prio'[b[j]]
    BY DEF SortInv
  <2>1. /\ prio'[p] = pr /\ pr \in Int /\ \A q \in PostIds \ {p} : prio'[q] = prio[q]
        /\ \A q \in PostIds : prio[q] \in Int
    BY DEF TypeOK, Prios
  <2>2. \A m \in 1..n : at[m] \in PostIds \ {p} /\ prio'[at[m]] = prio[at[m]] /\ prio[at[m]] \in Int
    <3> SUFFICES ASSUME NEW m \in 1..n PROVE at[m] \in PostIds \ {p}
      BY <2>1
    <3>1. m \in 0..n
      OBVIOUS
    <3> QED
      BY <1>0, <1>3, <3>1
  <2>3. \A m \in 1..n : m > k => prio[at[m]] > pr
    <3> SUFFICES ASSUME NEW m \in 1..n, m > k PROVE prio[at[m]] > pr
      OBVIOUS
    <3>1. k < n /\ k + 1 \in 1..n /\ k + 1 <= m
      BY <1>0, <1>3
    <3>2. prio[at[k + 1]] <= prio[at[m]]
      BY <3>1 DEF SortInv
    <3> QED
      BY <1>2, <2>1, <2>2, <3>1, <3>2
  <2>4. CASE i # k + 1 /\ j # k + 1
    <3>1. from(i) \in 1..n /\ from(j) \in 1..n /\ from(i) <= from(j)
      BY <1>0, <1>3, <1>9, <2>4
    <3>2. b[i] = at[from(i)] /\ b[j] = at[from(j)]
      BY <1>9, <2>4
    <3>3. prio[at[from(i)]] <= prio[at[from(j)]]
      BY <3>1 DEF SortInv
    <3> QED
      BY <2>2, <3>1, <3>2, <3>3
  <2>5. CASE i = k + 1 /\ j = k + 1
    BY <1>8, <2>1, <2>5
  <2>6. CASE i = k + 1 /\ j # k + 1
    <3>1. j > k + 1 /\ j - 1 \in 1..n /\ j - 1 > k /\ j \in Nat
      BY <1>0, <1>3, <2>6
    <3>2. b[i] = p /\ b[j] = at[j - 1] /\ prio[at[j - 1]] > pr
      BY <1>8, <2>3, <2>6, <3>1
    <3> QED
      BY <2>1, <2>2, <3>1, <3>2
  <2>7. CASE i # k + 1 /\ j = k + 1
    <3>1. i \in 1..k /\ i \in 0..k /\ i \in 1..n
      BY <1>0, <1>3, <2>7
    <3>2. b[j] = p /\ b[i] = at[i] /\ prio[at[i]] <= pr
      BY <1>2, <1>8, <2>7, <3>1
    <3> QED
      BY <2>1, <2>2, <3>1, <3>2
  <2> QED
    BY <2>4, <2>5, <2>6, <2>7
<1>12. TodoInv'
  <2> SUFFICES ASSUME NEW q \in todo \union {p} PROVE q \in PostIds /\ next'[q] # Unlisted
    BY DEF TodoInv
  <2>1. next[at[k]] # Unlisted
    BY <1>0, <1>1, <1>4
  <2>2. q \in PostIds /\ q \in Ends /\ p # Unlisted
    BY <1>0, <1>3 DEF TodoInv, Ends
  <2> QED
    BY <1>6, <2>1, <2>2 DEF TodoInv
<1> QED
  BY <1>7, <1>10, <1>11, <1>12

-----------------------------------------------------------------------------
(* The passes                                                              *)

LEMMA TopFacts ==
  ASSUME TypeOK, ~Idle
  PROVE  /\ Len(frames) \in Nat /\ Len(frames) >= 1 /\ Len(frames) \in 1..Len(frames)
         /\ Top \in Frames /\ \A i \in 1..Len(frames) : frames[i] \in Frames
<1>1. frames \in Seq(Frames) /\ frames # <<>>
  BY DEF TypeOK, Idle
<1>2. Len(frames) \in Nat /\ Len(frames) # 0
  BY <1>1
<1>3. \A i \in 1..Len(frames) : frames[i] \in Frames
  BY <1>1
<1> QED
  BY <1>2, <1>3 DEF Top

LEMMA SetTopFacts ==
  ASSUME TypeOK, ~Idle, NEW f \in Frames, SetTop(f)
  PROVE  /\ frames' \in Seq(Frames) /\ Len(frames') = Len(frames) /\ frames' # <<>>
         /\ frames'[Len(frames)] = f
         /\ \A i \in 1..Len(frames) - 1 : frames'[i] = frames[i]
<1>1. frames \in Seq(Frames) /\ frames' = [frames EXCEPT ![Len(frames)] = f]
  BY DEF TypeOK, SetTop
<1>2. Len(frames) \in Nat /\ Len(frames) >= 1 /\ Len(frames) \in 1..Len(frames)
  BY TopFacts
<1>3. frames' \in Seq(Frames) /\ Len(frames') = Len(frames)
  BY <1>1, <1>2
<1>4. /\ frames'[Len(frames)] = f
      /\ \A i \in 1..Len(frames) - 1 : frames'[i] = frames[i]
  BY <1>1, <1>2
<1> QED
  BY <1>2, <1>3, <1>4

(* Whether a place in the list is in front of all that called a pass.      *)
InFront(d, pl) == \A i \in 1..Len(frames) - 1 : d <= pl[i]

(* A pass that runs a propagator is in front of all that called it.        *)
LEMMA InnerFirst ==
  ASSUME TypeOK, ~Idle, NEW at, NEW n, NEW pl, PlaceInv(at, n), PassInv(at, n, pl),
         Depth(pl) < n, at[Depth(pl) + 1] # Top.stop
  PROVE  InFront(Depth(pl) + 1, pl)
<1>0. PICK L : L = Len(frames) /\ Depth(pl) = pl[L]
  BY DEF Depth
<1> SUFFICES ASSUME NEW i \in 1..L - 1 PROVE pl[L] + 1 <= pl[i]
  BY <1>0 DEF InFront
<1>1. L \in Nat /\ L >= 2 /\ L - 1 \in 1..L - 1 /\ L - 1 \in 1..L /\ L \in 1..L /\ (L - 1) + 1 = L
  BY <1>0, TopFacts
<1>2. n \in Nat /\ pl[L] \in 0..n /\ pl[L - 1] \in 0..n /\ pl[i] \in 0..n
  BY <1>0, <1>1 DEF PlaceInv, PassInv, FrameInv
<1>3. Top.stop = at[pl[L - 1] + 1] /\ frames[L - 1].phase = "run"
  BY <1>0, <1>1 DEF PassInv, NestInv, Top
<1>4. pl[L] <= pl[L - 1] /\ pl[L - 1] <= pl[i]
  BY <1>0, <1>1 DEF PassInv, NestInv
<1>5. pl[L] # pl[L - 1]
  BY <1>0, <1>3
<1> QED
  BY <1>2, <1>4, <1>5

(* The innermost pass takes a step.                                        *)
LEMMA TopMoves ==
  ASSUME TypeOK, ~Idle, NEW at, NEW n, NEW pl \in [Nat -> Nat], PlaceInv(at, n), PassInv(at, n, pl),
         NEW f \in Frames, SetTop(f), f.stop = Top.stop, f.max = Top.max, UNCHANGED posts,
         NEW d \in 0..n, f.link = at[d], InFront(d, pl),
         f.stop # 0 => \E k \in d + 1..n : f.stop = at[k],
         f.phase = "run" => d < n /\ at[d + 1] # f.stop /\ posts = "active",
         f.phase # "unit", queue' = 0, \A m \in 1..d : at[m] \notin todo'
  PROVE  \E ql \in [Nat -> Nat] : PassInv(at, n, ql)'
<1>0. PICK L, ql : L = Len(frames) /\ ql = [pl EXCEPT ![L] = d]
  OBVIOUS
<1>1. /\ L \in Nat /\ L >= 1 /\ L \in 1..L /\ Len(frames') = L /\ frames' # <<>> /\ frames'[L] = f
      /\ \A i \in 1..L - 1 : frames'[i] = frames[i]
  BY <1>0, TopFacts, SetTopFacts
<1>2. d \in Nat /\ \A i \in 1..L - 1 : d <= pl[i]
  BY <1>0 DEF PlaceInv, InFront
<1>3. ql \in [Nat -> Nat] /\ ql[L] = d /\ \A i \in 1..L - 1 : ql[i] = pl[i]
  <2>1. L \in Nat /\ d \in Nat /\ pl \in [Nat -> Nat] /\ ql = [pl EXCEPT ![L] = d]
    BY <1>0, <1>1, <1>2
  <2> QED
    BY ONLY <2>1
<1>4. /\ \A i \in 1..L : i = L \/ i \in 1..L - 1
      /\ \A i \in 1..L - 1 : i + 1 = L \/ i + 1 \in 1..L - 1
  BY ONLY <1>1
<1>5. FrameInv(at, n, ql)'
  <2> SUFFICES ASSUME NEW i \in 1..L
               PROVE  /\ ql[i] \in 0..n /\ frames'[i].link = at[ql[i]]
                      /\ frames'[i].stop # 0 => \E k \in ql[i] + 1..n : frames'[i].stop = at[k]
                      /\ frames'[i].phase = "run" =>
                           ql[i] < n /\ at[ql[i] + 1] # frames'[i].stop /\ posts = "active"
    BY <1>1 DEF FrameInv
  <2>1. CASE i = L
    BY <1>1, <1>3, <2>1
  <2>2. CASE i \in 1..L - 1
    <3>1. i \in 1..Len(frames) /\ frames'[i] = frames[i] /\ ql[i] = pl[i]
      BY <1>0, <1>1, <1>3, <2>2
    <3> QED
      BY <3>1 DEF PassInv, FrameInv
  <2> QED
    BY <1>4, <2>1, <2>2
<1>6. NestInv(at, ql)'
  <2>1. ASSUME NEW i \in 1..L - 1
        PROVE  /\ frames'[i].phase = "run" /\ frames'[i + 1].max = NoMax
               /\ frames'[i + 1].stop = at[ql[i] + 1]
    <3>1. frames[i].phase = "run" /\ frames[i + 1].max = NoMax /\ frames[i + 1].stop = at[pl[i] + 1]
      BY <1>0 DEF PassInv, NestInv
    <3>2. i + 1 = L \/ i + 1 \in 1..L - 1
      BY <1>4
    <3>3. frames'[i + 1].max = frames[i + 1].max /\ frames'[i + 1].stop = frames[i + 1].stop
      BY <1>0, <1>1, <3>2 DEF Top
    <3> QED
      BY <1>1, <1>3, <3>1, <3>3
  <2>2. ASSUME NEW i \in 1..L, NEW k \in 1..L, i <= k PROVE ql[k] <= ql[i]
    <3>1. CASE k = L
      <4>1. i = L \/ d <= ql[i]
        BY <1>2, <1>3, <1>4
      <4> QED
        BY <1>2, <1>3, <3>1, <4>1
    <3>2. CASE k # L
      <4>1. i \in 1..L - 1 /\ k \in 1..L - 1
        BY ONLY <1>1, <2>2, <3>2
      <4> QED
        BY <1>0, <1>3, <2>2, <4>1 DEF PassInv, NestInv
    <3> QED
      BY <3>1, <3>2
  <2> QED
    BY <1>1, <2>1, <2>2 DEF NestInv
<1>7. TopInv(at, ql)'
  BY <1>1, <1>3 DEF TopInv, Top, Depth
<1> QED
  BY <1>3, <1>5, <1>6, <1>7 DEF PassInv

LEMMA NoPass ==
  ASSUME frames' = <<>>, NEW at, NEW n
  PROVE  \E pl \in [Nat -> Nat] : PassInv(at, n, pl)'
<1> DEFINE pl == [i \in Nat |-> 0]
<1>1. Len(frames') = 0
  OBVIOUS
<1>2. pl \in [Nat -> Nat]
  OBVIOUS
<1> HIDE DEF pl
<1>3. PassInv(at, n, pl)'
  BY <1>1 DEF PassInv, FrameInv, NestInv, TopInv, Idle
<1> QED
  BY <1>2, <1>3

(* What stays: the list, if its links and priorities do.                   *)
LEMMA SameList ==
  ASSUME UNCHANGED <<next, prio>>, NEW at, NEW n, PlaceInv(at, n), SortInv(at, n)
  PROVE  PlaceInv(at, n)' /\ SortInv(at, n)'
BY DEF PlaceInv, SortInv

LEMMA UnitKeeps == ASSUME Sizes, PostInv, UnitPropagate PROVE PostInv'
<1>1. /\ TypeOK /\ TodoInv /\ ~Idle /\ Top.phase = "unit"
      /\ UNCHANGED <<next, prio, posts>>
  BY DEF PostInv, UnitPropagate
<1>2. PICK at, n : /\ PlaceInv(at, n) /\ SortInv(at, n)
                   /\ \E pl \in [Nat -> Nat] : PassInv(at, n, pl)
  BY DEF PostInv
<1>3. PICK pl \in [Nat -> Nat] : PassInv(at, n, pl)
  BY <1>2
<1>4. PlaceInv(at, n)' /\ SortInv(at, n)'
  BY <1>1, <1>2, SameList
<1>5. CASE Fail
  <2>1. frames' = <<>> /\ queue' = 0 /\ todo' \subseteq todo
    BY <1>5 DEF Fail
  <2>2. TypeOK' /\ TodoInv'
    BY <1>1, <2>1 DEF TypeOK, TodoInv
  <2> QED
    BY <1>4, <2>1, <2>2, NoPass DEF PostInv
<1>6. CASE ~Fail
  <2> DEFINE f == [Top EXCEPT !.phase = "loop"]
  <2>1. PICK w \in SUBSET Listed : todo' = IF queue = 0 THEN todo ELSE todo \union w
    BY <1>6 DEF UnitPropagate
  <2>2. SetTop(f) /\ queue' = 0
    BY <1>6 DEF UnitPropagate
  <2>3. Top \in Frames /\ Len(frames) \in 1..Len(frames)
    BY <1>1, TopFacts
  <2>4. /\ f \in Frames /\ f.stop = Top.stop /\ f.max = Top.max /\ f.link = Top.link
        /\ f.phase = "loop"
    BY <2>3 DEF Frames
  <2> HIDE DEF f
  <2>5. frames' \in Seq(Frames)
    BY <1>1, <2>2, <2>4, SetTopFacts
  <2>6. TypeOK' /\ TodoInv'
    BY <1>1, <2>1, <2>2, <2>5 DEF TypeOK, TodoInv, Listed
  <2>7. /\ Depth(pl) = 0 /\ Top.link = at[0] /\ n \in Nat
        /\ Top.stop # 0 => \E k \in 0 + 1..n : Top.stop = at[k]
    <3>1. Depth(pl) = 0 /\ n \in Nat
      BY <1>1, <1>2, <1>3 DEF PassInv, TopInv, PlaceInv
    <3>2. /\ Top.link = at[Depth(pl)]
          /\ Top.stop # 0 => \E k \in Depth(pl) + 1..n : Top.stop = at[k]
      BY <1>3, <2>3 DEF PassInv, FrameInv, Top, Depth
    <3> QED
      BY <3>1, <3>2
  <2>8. InFront(0, pl)
    BY <1>3, <2>3, TopFacts, <1>1 DEF InFront
  <2>9. \E ql \in [Nat -> Nat] : PassInv(at, n, ql)'
    <3>1. 0 \in 0..n /\ \A m \in 1..0 : at[m] \notin todo'
      BY <2>7
    <3> QED
      BY <1>1, <1>2, <1>3, <2>2, <2>4, <2>7, <2>8, <3>1, TopMoves
  <2> QED
    BY <1>4, <2>6, <2>9 DEF PostInv
<1> QED
  BY <1>5, <1>6

(* Where the innermost pass is.                                            *)
LEMMA TopPlace ==
  ASSUME Sizes, TypeOK, ~Idle, NEW at, NEW n, NEW pl, PlaceInv(at, n), PassInv(at, n, pl)
  PROVE  /\ Depth(pl) \in Nat /\ Depth(pl) \in 0..n /\ Top.link = at[Depth(pl)] /\ n \in Nat
         /\ next[Top.link] = IF Depth(pl) < n THEN at[Depth(pl) + 1] ELSE 0
         /\ Depth(pl) < n => at[Depth(pl) + 1] \in PostIds /\ at[Depth(pl) + 1] # 0
         /\ Top.stop # 0 => \E k \in Depth(pl) + 1..n : Top.stop = at[k]
         /\ Top.phase = "run" => Depth(pl) < n /\ at[Depth(pl) + 1] # Top.stop /\ posts = "active"
         /\ Top.phase # "unit" => queue = 0 /\ \A m \in 1..Depth(pl) : at[m] \notin todo
<1>0. /\ n \in Nat /\ \A i \in 1..n : at[i] \in PostIds /\ at[i] # 0
      /\ \A i \in 0..n : next[at[i]] = IF i < n THEN at[i + 1] ELSE 0
  BY InPlace
<1>1. Len(frames) \in 1..Len(frames)
  BY TopFacts
<1>2. /\ Depth(pl) \in 0..n /\ Top.link = at[Depth(pl)]
      /\ Top.stop # 0 => \E k \in Depth(pl) + 1..n : Top.stop = at[k]
      /\ Top.phase = "run" => Depth(pl) < n /\ at[Depth(pl) + 1] # Top.stop /\ posts = "active"
  BY <1>1 DEF PassInv, FrameInv, Top, Depth
<1>3. Top.phase # "unit" => queue = 0 /\ \A m \in 1..Depth(pl) : at[m] \notin todo
  BY DEF PassInv, TopInv
<1>4. Depth(pl) \in Nat /\ (Depth(pl) < n => Depth(pl) + 1 \in 1..n)
  BY <1>0, <1>2
<1> QED
  BY <1>0, <1>2, <1>3, <1>4

(* A pass below another one, and its caller.                               *)
Inner == Len(frames) > 1
LEMMA CallerPlace ==
  ASSUME TypeOK, ~Idle, NEW at, NEW n, NEW pl, PlaceInv(at, n), PassInv(at, n, pl), Inner
  PROVE  \E l : /\ l \in Nat /\ l >= 1 /\ l + 1 = Len(frames)
                /\ frames[l].phase = "run" /\ Top.max = NoMax
                /\ Top.stop = at[pl[l] + 1] /\ posts = "active"
                /\ n \in Nat /\ pl[l] \in 0..n /\ pl[l] < n /\ pl[l] + 1 \in 1..n
                /\ at[pl[l] + 1] \in PostIds /\ \A m \in 1..l : pl[l] <= pl[m]
<1>1. PICK l : l = Len(frames) - 1
  OBVIOUS
<1>2. Len(frames) \in Nat /\ Len(frames) > 1
  BY TopFacts DEF Inner
<1>3. l \in 1..Len(frames) - 1 /\ l \in 1..Len(frames) /\ l + 1 = Len(frames) /\ l \in Nat /\ l >= 1
  BY ONLY <1>1, <1>2
<1>4. frames[l].phase = "run" /\ Top.max = NoMax /\ Top.stop = at[pl[l] + 1]
  BY <1>3 DEF PassInv, NestInv, Top
<1>5. n \in Nat /\ posts = "active" /\ pl[l] \in 0..n /\ pl[l] < n
  BY <1>3, <1>4 DEF PassInv, FrameInv, PlaceInv
<1>6. pl[l] + 1 \in 1..n
  BY ONLY <1>5
<1>7. at[pl[l] + 1] \in PostIds
  BY <1>6 DEF PlaceInv
<1>8. \A m \in 1..l : m \in 1..Len(frames) /\ m <= l
  BY ONLY <1>2, <1>3
<1>9. \A m \in 1..l : pl[l] <= pl[m]
  BY <1>3, <1>8 DEF PassInv, NestInv
<1> QED
  BY <1>3, <1>4, <1>5, <1>6, <1>7, <1>9

LEMMA ShorterSeq ==
  ASSUME NEW S, NEW s \in Seq(S), NEW k \in Nat, k + 1 = Len(s), NEW t, t = SubSeq(s, 1, k)
  PROVE  t \in Seq(S) /\ Len(t) = k /\ \A i \in 1..k : t[i] = s[i]
<1>1. 1 \in 1..Len(s) + 1 /\ k \in 1 - 1..Len(s)
  OBVIOUS
<1>2. /\ t \in Seq(S) /\ Len(t) = IF 1 <= k THEN k - 1 + 1 ELSE 0
      /\ \A i \in 1..k - 1 + 1 : t[i] = s[1 + i - 1]
  BY <1>1, SubSeqProperties
<1>3. Len(t) = k
  BY <1>2
<1>4. k - 1 + 1 = k /\ \A i \in 1..k : 1 + i - 1 = i
  OBVIOUS
<1> QED
  BY <1>2, <1>3, <1>4

(* The innermost pass ends and its caller goes on.                         *)
PopFrame == frames' = SubSeq(frames, 1, Len(frames) - 1)
LEMMA Popped ==
  ASSUME TypeOK, ~Idle, PopFrame
  PROVE  \E k \in Nat : /\ k + 1 = Len(frames) /\ (Inner <=> k > 0)
                        /\ frames' \in Seq(Frames) /\ Len(frames') = k
                        /\ \A i \in 1..k : frames'[i] = frames[i]
<1>1. PICK m : m = Len(frames) /\ m \in Nat /\ m >= 1
  BY TopFacts
<1>2. PICK k \in Nat : k + 1 = m /\ k = m - 1
  BY <1>1
<1>3. Inner = (m > 1)
  BY <1>1 DEF Inner
<1>4. (m > 1) = (k > 0)
  BY <1>1, <1>2
<1>5. frames \in Seq(Frames) /\ frames' = SubSeq(frames, 1, k)
  BY <1>1, <1>2 DEF TypeOK, PopFrame
<1>6. frames' \in Seq(Frames) /\ Len(frames') = k /\ \A i \in 1..k : frames'[i] = frames[i]
  BY <1>1, <1>2, <1>5, ShorterSeq
<1>7. Inner <=> k > 0
  BY <1>3, <1>4, Zenon
<1> QED
  BY <1>1, <1>2, <1>6, <1>7

LEMMA ReturnKeeps ==
  ASSUME Sizes, TypeOK, ~Idle, NEW at, NEW n, NEW pl \in [Nat -> Nat], PlaceInv(at, n),
         PassInv(at, n, pl), Top.phase = "loop", PopFrame, UNCHANGED <<queue, todo, posts>>,
         Inner => next[Top.link] = Top.stop
  PROVE  frames' \in Seq(Frames) /\ PassInv(at, n, pl)'
<1>1. PICK len \in Nat : /\ len + 1 = Len(frames) /\ (Inner <=> len > 0)
                         /\ frames' \in Seq(Frames) /\ Len(frames') = len
                         /\ \A i \in 1..len : frames'[i] = frames[i]
  BY Popped
<1>2. len \in Nat /\ len + 1 = Len(frames) /\ (Inner <=> len > 0)
  BY <1>1
<1>0. /\ frames' \in Seq(Frames) /\ Len(frames') = len /\ \A i \in 1..len : frames'[i] = frames[i]
  BY <1>1
<1>3. CASE ~Inner
  <2>1. Len(frames') = 0
    BY <1>0, <1>2, <1>3
  <2>2. frames' = <<>>
    BY <1>0, <2>1
  <2>3. PassInv(at, n, pl)'
    BY <2>1, <2>2 DEF PassInv, FrameInv, NestInv, TopInv, Idle
  <2> QED
    BY <1>0, <2>3
<1>4. CASE Inner
  <2>1. /\ Depth(pl) \in Nat /\ Depth(pl) \in 0..n /\ n \in Nat
        /\ next[Top.link] = IF Depth(pl) < n THEN at[Depth(pl) + 1] ELSE 0
        /\ queue = 0 /\ \A m \in 1..Depth(pl) : at[m] \notin todo
    BY TopPlace
  <2>2. PICK l : /\ l \in Nat /\ l >= 1 /\ l + 1 = Len(frames) /\ frames[l].phase = "run"
                 /\ Top.stop = at[pl[l] + 1] /\ pl[l] \in 0..n /\ pl[l] < n /\ pl[l] + 1 \in 1..n
                 /\ at[pl[l] + 1] \in PostIds
    BY <1>4, CallerPlace
  <2>3. Depth(pl) = pl[l]
    <3>1. Top.stop # 0 /\ next[Top.link] = Top.stop
      <4>1. 0 \notin PostIds
        BY InPlace
      <4> QED
        BY <1>4, <2>2, <4>1
    <3>2. Depth(pl) < n /\ at[Depth(pl) + 1] = at[pl[l] + 1]
      BY <2>1, <2>2, <3>1
    <3>3. Depth(pl) + 1 \in 0..n /\ pl[l] + 1 \in 0..n
      <4>1. PICK d : d = Depth(pl) /\ d \in Nat /\ d < n
        BY <2>1, <3>2
      <4>2. d + 1 \in 0..n
        BY <2>1, <4>1
      <4> QED
        BY <2>1, <2>2, <4>1, <4>2
    <3>4. Depth(pl) + 1 = pl[l] + 1
      BY <3>2, <3>3 DEF PlaceInv
    <3> QED
      BY <2>1, <2>2, <3>4
  <2>4. /\ Len(frames') = l /\ \A i \in 1..l : frames'[i] = frames[i] /\ i \in 1..Len(frames)
        /\ \A i \in 1..l - 1 : i \in 1..l /\ i + 1 \in 1..l /\ i \in 1..Len(frames) - 1
        /\ l \in 1..l
    <3>1. len = l
      BY <1>2, <2>2
    <3>2. l \in 1..l /\ \A i \in 1..l : i \in 1..l + 1
      BY <2>2
    <3>3. \A i \in 1..l - 1 : i \in 1..l /\ i + 1 \in 1..l /\ i \in 1..(l + 1) - 1
      BY <2>2
    <3> QED
      BY <1>0, <2>2, <3>1, <3>2, <3>3
  <2>5. FrameInv(at, n, pl)'
    <3> SUFFICES ASSUME NEW i \in 1..l
                 PROVE  /\ pl[i] \in 0..n /\ frames'[i].link = at[pl[i]]
                        /\ frames'[i].stop # 0 => \E k \in pl[i] + 1..n : frames'[i].stop = at[k]
                        /\ frames'[i].phase = "run" =>
                             pl[i] < n /\ at[pl[i] + 1] # frames'[i].stop /\ posts' = "active"
      BY <2>4 DEF FrameInv
    <3>1. frames'[i] = frames[i] /\ i \in 1..Len(frames)
      BY <2>4
    <3> QED
      BY <3>1 DEF PassInv, FrameInv
  <2>6. NestInv(at, pl)'
    <3>1. ASSUME NEW i \in 1..l - 1
          PROVE  /\ frames'[i].phase = "run" /\ frames'[i + 1].max = NoMax
                 /\ frames'[i + 1].stop = at[pl[i] + 1]
      <4>1. frames'[i] = frames[i] /\ frames'[i + 1] = frames[i + 1] /\ i \in 1..Len(frames) - 1
        BY <2>4
      <4> QED
        BY <4>1 DEF PassInv, NestInv
    <3>2. \A i, k \in 1..l : i <= k => pl[k] <= pl[i]
      BY <2>4 DEF PassInv, NestInv
    <3> QED
      BY <2>4, <3>1, <3>2 DEF NestInv
  <2>7. TopInv(at, pl)'
    <3>1. Top'.phase = "run" /\ Depth(pl)' = Depth(pl)
      BY <2>2, <2>3, <2>4 DEF Top, Depth
    <3> QED
      BY <2>1, <3>1 DEF TopInv
  <2> QED
    BY <1>0, <2>5, <2>6, <2>7 DEF PassInv
<1> QED
  BY <1>3, <1>4

LEMMA TopNests ==
  ASSUME TypeOK, ~Idle, NEW at, NEW n, NEW pl, PassInv(at, n, pl)
  PROVE  InFront(Depth(pl), pl)
<1> SUFFICES ASSUME NEW i \in 1..Len(frames) - 1 PROVE pl[Len(frames)] <= pl[i]
  BY DEF InFront, Depth
<1>1. Len(frames) \in Nat /\ Len(frames) >= 1
  BY TopFacts
<1>2. i \in 1..Len(frames) /\ Len(frames) \in 1..Len(frames) /\ i <= Len(frames)
  BY ONLY <1>1
<1> QED
  BY <1>2 DEF PassInv, NestInv

LEMMA AdvanceKeeps == ASSUME Sizes, PostInv, Advance PROVE PostInv'
<1>1. /\ TypeOK /\ TodoInv /\ ~Idle /\ Top.phase = "loop"
      /\ UNCHANGED <<next, prio, todo, queue, posts>>
  BY DEF PostInv, Advance
<1>2. PICK at, n : /\ PlaceInv(at, n) /\ SortInv(at, n)
                   /\ \E pl \in [Nat -> Nat] : PassInv(at, n, pl)
  BY DEF PostInv
<1>3. PICK pl \in [Nat -> Nat] : PassInv(at, n, pl)
  BY <1>2
<1>4. PlaceInv(at, n)' /\ SortInv(at, n)'
  BY <1>1, <1>2, SameList
<1>5. TodoInv' /\ (frames' \in Seq(Frames) => TypeOK')
  BY <1>1 DEF TodoInv, TypeOK
<1> DEFINE cur == next[Top.link]
           f == [Top EXCEPT !.phase = "run"]
<1>6. /\ Depth(pl) \in Nat /\ Depth(pl) \in 0..n /\ n \in Nat /\ Top.link = at[Depth(pl)]
      /\ cur = (IF Depth(pl) < n THEN at[Depth(pl) + 1] ELSE 0)
      /\ Depth(pl) < n => at[Depth(pl) + 1] \in PostIds /\ at[Depth(pl) + 1] # 0
      /\ Top.stop # 0 => \E k \in Depth(pl) + 1..n : Top.stop = at[k]
      /\ queue = 0 /\ \A m \in 1..Depth(pl) : at[m] \notin todo
  BY <1>1, <1>2, <1>3, TopPlace
<1>7. Top \in Frames
  BY <1>1, TopFacts
<1>8. CASE posts = "active" /\ cur # Top.stop /\ cur # 0 /\ ~(prio[cur] > Top.max)
  <2>1. SetTop(f)
    BY <1>8 DEF Advance
  <2>2. /\ f \in Frames /\ f.stop = Top.stop /\ f.max = Top.max /\ f.link = Top.link
        /\ f.phase = "run"
    BY <1>7 DEF Frames
  <2> HIDE DEF f
  <2>3. frames' \in Seq(Frames)
    BY <1>1, <2>1, <2>2, SetTopFacts
  <2>4. InFront(Depth(pl), pl)
    BY <1>1, <1>3, TopNests
  <2>5. Depth(pl) < n /\ at[Depth(pl) + 1] # Top.stop
    BY <1>6, <1>8
  <2> HIDE DEF cur
  <2>6. \E ql \in [Nat -> Nat] : PassInv(at, n, ql)'
    BY <1>1, <1>2, <1>3, <1>6, <1>8, <2>1, <2>2, <2>4, <2>5, TopMoves
  <2> QED
    BY <1>4, <1>5, <2>3, <2>6 DEF PostInv
<1>9. CASE ~(posts = "active" /\ cur # Top.stop /\ cur # 0 /\ ~(prio[cur] > Top.max))
  <2>1. PopFrame
    BY <1>9 DEF Advance, Return, PopFrame
  <2>2. ASSUME Inner PROVE cur = Top.stop
    <3>1. Top.max = NoMax /\ Top.stop # 0 /\ posts = "active"
      <4>1. Top.max = NoMax /\ Top.stop \in PostIds /\ posts = "active"
        BY <1>1, <1>2, <1>3, <2>2, CallerPlace
      <4>2. 0 \notin PostIds
        BY <1>1, <1>2, InPlace
      <4> QED
        BY <4>1, <4>2
    <3>2. cur # 0 /\ cur \in PostIds
      BY <1>6, <3>1
    <3>3. prio[cur] \in Prios \union {0}
      BY <1>1, <3>2 DEF TypeOK
    <3>4. ~(prio[cur] > Top.max)
      <4> HIDE DEF cur
      <4> QED
        BY <3>1, <3>3 DEF Prios, NoMax
    <3> QED
      BY <1>9, <3>1, <3>2, <3>4
  <2>3. frames' \in Seq(Frames) /\ PassInv(at, n, pl)'
    BY <1>1, <1>2, <1>3, <2>1, <2>2, ReturnKeeps
  <2> QED
    BY <1>3, <1>4, <1>5, <2>3 DEF PostInv
<1> QED
  BY <1>8, <1>9

(* The propagator at the link of the innermost pass.                       *)
LEMMA RunPlace ==
  ASSUME Sizes, TypeOK, ~Idle, NEW at, NEW n, NEW pl, PlaceInv(at, n), PassInv(at, n, pl),
         Top.phase = "run"
  PROVE  \E d \in Nat : /\ n \in Nat /\ d \in 0..n /\ d < n /\ d + 1 \in 1..n /\ d = Depth(pl)
                        /\ Top.link = at[d] /\ Running = at[d + 1] /\ Running \in PostIds
                        /\ Running # 0 /\ Running # Top.stop /\ InFront(d + 1, pl)
                        /\ Top.stop # 0 => \E k \in d + 2..n : Top.stop = at[k]
                        /\ queue = 0 /\ \A m \in 1..d : at[m] \notin todo
<1>1. PICK d : d = Depth(pl)
  OBVIOUS
<1>2. /\ d \in Nat /\ d \in 0..n /\ n \in Nat /\ d < n
      /\ Top.link = at[d] /\ Running = at[d + 1] /\ Running \in PostIds /\ Running # 0
      /\ Top.stop # 0 => \E k \in d + 1..n : Top.stop = at[k]
      /\ Running # Top.stop /\ queue = 0 /\ \A m \in 1..d : at[m] \notin todo
  BY <1>1, TopPlace DEF Running
<1>3. InFront(d + 1, pl)
  BY <1>1, <1>2, InnerFirst
<1>4. d + 1 \in 1..n
  BY <1>2
<1>5. Top.stop # 0 => \E k \in d + 2..n : Top.stop = at[k]
  <2> SUFFICES ASSUME Top.stop # 0 PROVE \E k \in d + 2..n : Top.stop = at[k]
    OBVIOUS
  <2>1. PICK k \in d + 1..n : Top.stop = at[k]
    BY <1>2
  <2>2. k # d + 1
    BY <1>2, <2>1
  <2>3. k \in d + 2..n
    BY <1>2, <2>2
  <2> QED
    BY <2>1, <2>3
<1> QED
  BY <1>1, <1>2, <1>3, <1>4, <1>5

(* It has nothing to do, and the pass goes on behind it.                   *)
LEMMA RunStays ==
  ASSUME Sizes, TypeOK, ~Idle, NEW at, NEW n, NEW pl \in [Nat -> Nat], PlaceInv(at, n),
         PassInv(at, n, pl), Top.phase = "run", todo' = todo \ {Running},
         SetTop(Step(Top, Running)), UNCHANGED <<next, queue, posts>>
  PROVE  frames' \in Seq(Frames) /\ \E ql \in [Nat -> Nat] : PassInv(at, n, ql)'
<1>1. PICK d \in Nat :
         /\ n \in Nat /\ d \in 0..n /\ d < n /\ d + 1 \in 1..n /\ d = Depth(pl)
         /\ Top.link = at[d] /\ Running = at[d + 1] /\ Running \in PostIds
         /\ Running # 0 /\ Running # Top.stop /\ InFront(d + 1, pl)
         /\ Top.stop # 0 => \E k \in d + 2..n : Top.stop = at[k]
         /\ queue = 0 /\ \A m \in 1..d : at[m] \notin todo
  BY RunPlace
<1> DEFINE f == Step(Top, Running)
<1>2. Top \in Frames /\ next'[Top.link] = Running
  BY TopFacts DEF Running
<1>3. /\ f \in Frames /\ f.stop = Top.stop /\ f.max = Top.max /\ f.link = Running
      /\ f.phase = "loop"
  BY <1>1, <1>2 DEF Frames, Step, Ends
<1>4. SetTop(f)
  OBVIOUS
<1> HIDE DEF f
<1>5. frames' \in Seq(Frames)
  BY <1>3, <1>4, SetTopFacts
<1>6. /\ d + 1 \in 0..n /\ d + 1 + 1 = d + 2
      /\ \A m \in 1..d + 1 : m \in 1..d \/ m = d + 1
  BY <1>1
<1>7. queue' = 0 /\ \A m \in 1..d + 1 : at[m] \notin todo'
  BY <1>1, <1>6
<1>8. f.stop # 0 => \E k \in d + 1 + 1..n : f.stop = at[k]
  BY <1>1, <1>3, <1>6
<1>9. f.phase # "run" /\ f.phase # "unit" /\ f.link = at[d + 1] /\ UNCHANGED posts
  BY <1>1, <1>3
<1>10. \E ql \in [Nat -> Nat] : PassInv(at, n, ql)'
  BY <1>1, <1>3, <1>4, <1>6, <1>7, <1>8, <1>9, TopMoves
<1> QED
  BY <1>5, <1>10

LEMMA LongerSeq ==
  ASSUME NEW S, NEW s \in Seq(S), NEW e \in S, NEW t, t = Append(s, e)
  PROVE  /\ t \in Seq(S) /\ Len(t) = Len(s) + 1 /\ t[Len(s) + 1] = e /\ t # <<>>
         /\ \A i \in 1..Len(s) : t[i] = s[i]
BY AppendProperties

LEMMA LongerNotEmpty == ASSUME NEW S, NEW s \in Seq(S), NEW e PROVE Append(s, e) # <<>>
<1>1. s \in Seq(S \union {e})
  OBVIOUS
<1> QED
  BY <1>1, AppendProperties

LEMMA OneMore ==
  ASSUME NEW L \in Nat, L >= 1
  PROVE  /\ \A i \in 1..L + 1 : i = L + 1 \/ i \in 1..L
         /\ \A i \in 1..(L + 1) - 1 : i \in 1..L /\ (i = L \/ (i \in 1..L - 1 /\ i + 1 \in 1..L))
         /\ L \in 1..L
OBVIOUS

(* It assigns something and calls a pass up to itself.                     *)
LEMMA RunNests ==
  ASSUME Sizes, TypeOK, ~Idle, NEW at, NEW n, NEW pl \in [Nat -> Nat], PlaceInv(at, n),
         PassInv(at, n, pl), Top.phase = "run", frames' = Append(frames, Nested), UNCHANGED posts
  PROVE  frames' \in Seq(Frames) /\ \E ql \in [Nat -> Nat] : PassInv(at, n, ql)'
<1>1. PICK d \in Nat :
         /\ n \in Nat /\ d \in 0..n /\ d < n /\ d + 1 \in 1..n /\ d = Depth(pl)
         /\ Running = at[d + 1] /\ Running \in PostIds
  BY RunPlace
<1>2. PICK L, ql : L = Len(frames) /\ ql = [pl EXCEPT ![L + 1] = 0]
  OBVIOUS
<1>3. L \in Nat /\ L >= 1 /\ frames \in Seq(Frames) /\ frames[L].phase = "run" /\ pl[L] = d
  BY <1>1, <1>2, TopFacts DEF TypeOK, Top, Depth
<1>4. PICK f : f = Nested
  OBVIOUS
<1>5. /\ f \in Frames /\ f.phase = "unit" /\ f.stop = at[d + 1] /\ f.max = NoMax /\ f.link = 0
  BY <1>1, <1>4 DEF Frames, Nested, Frame, Ends
<1>6. /\ frames' \in Seq(Frames) /\ Len(frames') = L + 1 /\ frames'[L + 1] = f
      /\ \A i \in 1..L : frames'[i] = frames[i]
  <2>1. frames \in Seq(Frames) /\ f \in Frames /\ frames' = Append(frames, f)
    BY <1>3, <1>4, <1>5
  <2> QED
    BY <1>2, <2>1, LongerSeq
<1>7. ql \in [Nat -> Nat] /\ ql[L + 1] = 0 /\ \A i \in 1..L : ql[i] = pl[i]
  BY <1>2, <1>3
<1>8. /\ \A i \in 1..L + 1 : i = L + 1 \/ i \in 1..L
      /\ \A i \in 1..(L + 1) - 1 : i \in 1..L /\ (i = L \/ (i \in 1..L - 1 /\ i + 1 \in 1..L))
      /\ L \in 1..L /\ frames' # <<>>
  <2>1. frames' # <<>>
    <3>1. Len(frames') # 0
      BY <1>3, <1>6
    <3> QED
      BY <3>1
  <2> QED
    BY <1>3, <2>1, OneMore
<1>9. at[0] = 0 /\ 0 \in 0..n /\ 0 + 1 = 1
  BY <1>1 DEF PlaceInv
<1>10. FrameInv(at, n, ql)'
  <2> SUFFICES ASSUME NEW i \in 1..L + 1
               PROVE  /\ ql[i] \in 0..n /\ frames'[i].link = at[ql[i]]
                      /\ frames'[i].stop # 0 => \E k \in ql[i] + 1..n : frames'[i].stop = at[k]
                      /\ frames'[i].phase = "run" =>
                           ql[i] < n /\ at[ql[i] + 1] # frames'[i].stop /\ posts' = "active"
    BY <1>6 DEF FrameInv
  <2>1. CASE i = L + 1
    BY <1>1, <1>5, <1>6, <1>7, <1>9, <2>1
  <2>2. CASE i \in 1..L
    <3>1. i \in 1..Len(frames) /\ frames'[i] = frames[i] /\ ql[i] = pl[i]
      BY <1>2, <1>6, <1>7, <2>2
    <3> QED
      BY <3>1 DEF PassInv, FrameInv
  <2> QED
    BY <1>8, <2>1, <2>2
<1>11. NestInv(at, ql)'
  <2>1. ASSUME NEW i \in 1..(L + 1) - 1
        PROVE  /\ frames'[i].phase = "run" /\ frames'[i + 1].max = NoMax
               /\ frames'[i + 1].stop = at[ql[i] + 1]
    <3>1. CASE i = L
      BY <1>3, <1>5, <1>6, <1>7, <1>8, <3>1
    <3>2. CASE i \in 1..L - 1 /\ i + 1 \in 1..L
      <4>1. /\ frames'[i] = frames[i] /\ frames'[i + 1] = frames[i + 1] /\ ql[i] = pl[i]
            /\ i \in 1..Len(frames) - 1
        BY <1>2, <1>6, <1>7, <1>8, <3>2
      <4> QED
        BY <4>1 DEF PassInv, NestInv
    <3> QED
      BY <1>8, <3>1, <3>2
  <2>2. ASSUME NEW i \in 1..L + 1, NEW k \in 1..L + 1, i <= k PROVE ql[k] <= ql[i]
    <3>1. CASE k = L + 1
      <4>1. ql[i] \in Nat
        BY <1>7
      <4> QED
        BY <1>7, <3>1, <4>1
    <3>2. CASE k # L + 1
      <4>1. i \in 1..L /\ k \in 1..L
        BY <1>3, <2>2, <3>2
      <4>2. pl[k] <= pl[i]
        BY <1>2, <2>2, <4>1 DEF PassInv, NestInv
      <4> QED
        BY <1>7, <4>1, <4>2
    <3> QED
      BY <3>1, <3>2
  <2> QED
    BY <1>6, <2>1, <2>2 DEF NestInv
<1>12. TopInv(at, ql)'
  BY <1>5, <1>6, <1>7 DEF TopInv, Top, Depth
<1> QED
  BY <1>6, <1>7, <1>10, <1>11, <1>12 DEF PassInv

LEMMA OneLess ==
  ASSUME NEW d \in Nat, NEW n \in Nat, NEW x \in d + 2..n
  PROVE  /\ x # 0 /\ x \in Nat /\ x - 1 \in Nat /\ x - 1 \in d + 1..n - 1 /\ x - 1 \in 0..n - 1
         /\ (x - 1) + 1 = x
         /\ x < n => x + 1 \in d + 2..n /\ (x + 1) - 1 = x /\ x - 1 < n - 1
         /\ \A k \in x + 1..n : k \in d + 2..n /\ k - 1 \in (x - 1) + 1..n - 1
OBVIOUS

LEMMA Inside ==
  ASSUME NEW d \in Nat, NEW n \in Nat, d < n
  PROVE  d \in 0..n - 1 /\ d \in 0..d /\ \A y \in d + 1..n - 1 : d <= y
OBVIOUS

LEMMA FewerLess == ASSUME NEW x \in Nat, NEW y \in Nat, x <= y PROVE x - 1 <= y - 1
OBVIOUS

(* It leaves the list: the passes around it are one place further in front.*)
LEMMA RunLeaves ==
  ASSUME Sizes, TypeOK, TodoInv, ~Idle, NEW at, NEW n, NEW pl \in [Nat -> Nat], PlaceInv(at, n),
         SortInv(at, n), PassInv(at, n, pl), Top.phase = "run",
         \A i \in 1..Len(frames) - 1 : frames[i].link # Running,
         next' = Unlink(Running), todo' = todo \ {Running}, SetTop(Step(Top, Running)),
         UNCHANGED <<prio, queue, posts>>
  PROVE  /\ next' \in [Ends -> Ends \union {Unlisted}] /\ TodoInv' /\ frames' \in Seq(Frames)
         /\ \E b, m : /\ PlaceInv(b, m)' /\ SortInv(b, m)'
                      /\ \E ql \in [Nat -> Nat] : PassInv(b, m, ql)'
<1>1. PICK d \in Nat :
         /\ n \in Nat /\ d \in 0..n /\ d < n /\ d + 1 \in 1..n /\ d = Depth(pl)
         /\ Top.link = at[d] /\ Running = at[d + 1] /\ Running \in PostIds
         /\ Running # 0 /\ Running # Top.stop /\ InFront(d + 1, pl)
         /\ Top.stop # 0 => \E k \in d + 2..n : Top.stop = at[k]
         /\ queue = 0 /\ \A m \in 1..d : at[m] \notin todo
  BY RunPlace
<1>0. n \in Nat /\ d < n
  BY <1>1
<1>2. PICK L, b, f : L = Len(frames) /\ b = Shorter(at, d) /\ f = Step(Top, Running)
  OBVIOUS
<1>3. /\ PlaceInv(b, n - 1)' /\ SortInv(b, n - 1)' /\ TodoInv'
      /\ next' \in [Ends -> Ends \union {Unlisted}] /\ next'[at[d]] # at[d + 1]
  <2>1. d \in 0..n - 1 /\ next' = Unlink(at[d + 1]) /\ todo' \subseteq todo \ {at[d + 1]}
    BY <1>1
  <2> QED
    BY <1>2, <2>1, UnlinkKeeps
<1>4. Top \in Frames /\ f.link = Top.link
  BY <1>1, <1>2, <1>3, TopFacts DEF Step, Frames
<1>5. f \in Frames /\ f.stop = Top.stop /\ f.max = Top.max /\ f.link = at[d] /\ f.phase = "loop"
  <2>1. Top.link \in Ends
    BY <1>4 DEF Frames
  <2>2. Running \in Ends
    BY <1>1 DEF Ends
  <2> QED
    BY <1>1, <1>2, <1>4, <2>1, <2>2 DEF Frames, Step
<1>6. SetTop(f)
  BY <1>2
<1>7. /\ L \in Nat /\ L >= 1 /\ L \in 1..L /\ Len(frames') = L /\ frames' # <<>> /\ frames'[L] = f
      /\ frames' \in Seq(Frames) /\ \A i \in 1..L - 1 : frames'[i] = frames[i]
  BY <1>2, <1>5, <1>6, TopFacts, SetTopFacts
<1>8. /\ b \in [Nat -> Ends] /\ \A j \in 0..d : b[j] = at[j]
      /\ \A j \in d + 2..n : b[j - 1] = at[j]
  <2>1. at \in [Nat -> Ends]
    BY DEF PlaceInv
  <2>2. \A j \in 0..d : j \in Nat /\ j <= d
    BY <1>1
  <2>3. \A j \in d + 2..n : j - 1 \in Nat /\ ~(j - 1 <= d) /\ (j - 1) + 1 = j
    BY <1>1
  <2>4. \A j \in Nat : j + 1 \in Nat
    OBVIOUS
  <2> QED
    BY <1>2, <2>1, <2>2, <2>3, <2>4 DEF Shorter
<1>9. PICK ql : ql = [i \in Nat |-> IF i = L THEN d ELSE IF pl[i] = 0 THEN 0 ELSE pl[i] - 1]
  OBVIOUS
<1>10. \A i \in 1..L - 1 : pl[i] \in d + 2..n
  <2> SUFFICES ASSUME NEW i \in 1..L - 1 PROVE pl[i] \in d + 2..n
    OBVIOUS
  <2>1. i \in 1..L /\ d + 1 <= pl[i]
    <3>1. i \in 1..L
      BY <1>7
    <3>2. d + 1 <= pl[i]
      BY <1>1, <1>2 DEF InFront
    <3> QED
      BY <3>1, <3>2
  <2>2. pl[i] \in 0..n /\ frames[i].link = at[pl[i]] /\ frames[i].link # Running
    BY <1>2, <2>1 DEF PassInv, FrameInv
  <2>3. pl[i] # d + 1
    BY <1>1, <2>2
  <2> QED
    BY <1>1, <2>1, <2>2, <2>3
<1>11. /\ ql \in [Nat -> Nat] /\ ql[L] = d
       /\ \A i \in 1..L - 1 : ql[i] = pl[i] - 1 /\ ql[i] \in d + 1..n - 1
  <2>1. \A i \in Nat : pl[i] # 0 => pl[i] - 1 \in Nat
    OBVIOUS
  <2>2. ql \in [Nat -> Nat] /\ ql[L] = d
    BY <1>1, <1>7, <1>9, <2>1
  <2>3. ASSUME NEW i \in 1..L - 1 PROVE ql[i] = pl[i] - 1 /\ ql[i] \in d + 1..n - 1
    <3>1. pl[i] \in d + 2..n /\ i \in Nat /\ i # L
      BY <1>7, <1>10
    <3>2. pl[i] # 0 /\ pl[i] - 1 \in d + 1..n - 1
      BY <1>1, <3>1, OneLess
    <3> QED
      BY <1>9, <3>1, <3>2
  <2> QED
    BY <2>2, <2>3
<1>12. /\ \A i \in 1..L : i = L \/ i \in 1..L - 1
       /\ \A i \in 1..L - 1 : i \in 1..L /\ (i + 1 = L \/ i + 1 \in 1..L - 1)
  BY ONLY <1>7
<1>13. FrameInv(b, n - 1, ql)'
  <2> SUFFICES ASSUME NEW i \in 1..L
               PROVE  /\ ql[i] \in 0..n - 1 /\ frames'[i].link = b[ql[i]]
                      /\ frames'[i].stop # 0 => \E k \in ql[i] + 1..n - 1 : frames'[i].stop = b[k]
                      /\ frames'[i].phase = "run" =>
                           ql[i] < n - 1 /\ b[ql[i] + 1] # frames'[i].stop /\ posts' = "active"
    BY <1>7 DEF FrameInv
  <2>1. CASE i = L
    <3>1. ql[i] = d /\ d \in 0..n - 1 /\ d \in 0..d /\ frames'[i] = f
      <4>1. d \in 0..n - 1 /\ d \in 0..d
        BY <1>0, Inside
      <4> QED
        BY <1>7, <1>11, <2>1, <4>1
    <3>2. frames'[i].link = b[ql[i]] /\ frames'[i].phase # "run"
      BY <1>5, <1>8, <3>1
    <3>3. ASSUME f.stop # 0 PROVE \E k \in d + 1..n - 1 : f.stop = b[k]
      <4>1. PICK k \in d + 2..n : f.stop = at[k]
        BY <1>1, <1>5, <3>3
      <4>2. k - 1 \in d + 1..n - 1 /\ b[k - 1] = at[k]
        BY <1>1, <1>8, OneLess
      <4> QED
        BY <4>1, <4>2
    <3> QED
      BY <3>1, <3>2, <3>3
  <2>2. CASE i \in 1..L - 1
    <3>1. PICK x : x = pl[i]
      OBVIOUS
    <3>2. x \in d + 2..n /\ ql[i] = x - 1 /\ x \in Nat
      BY <1>10, <1>11, <2>2, <3>1
    <3>3. frames'[i] = frames[i] /\ i \in 1..Len(frames)
      BY <1>2, <1>7, <2>2
    <3>4. /\ frames[i].link = at[x]
          /\ frames[i].stop # 0 => \E k \in x + 1..n : frames[i].stop = at[k]
          /\ frames[i].phase = "run" => x < n /\ at[x + 1] # frames[i].stop /\ posts = "active"
      BY <3>1, <3>3 DEF PassInv, FrameInv
    <3>5. b[x - 1] = at[x] /\ x - 1 \in 0..n - 1 /\ (x - 1) + 1 = x
      BY <1>0, <1>8, <3>2, OneLess
    <3>6. ASSUME frames[i].stop # 0 PROVE \E k \in (x - 1) + 1..n - 1 : frames[i].stop = b[k]
      <4>1. PICK k \in x + 1..n : frames[i].stop = at[k]
        BY <3>4, <3>6
      <4>2. k \in d + 2..n /\ k - 1 \in (x - 1) + 1..n - 1
        BY <1>0, <3>2, OneLess
      <4>3. b[k - 1] = at[k]
        BY <1>8, <4>2
      <4> QED
        BY <4>1, <4>2, <4>3
    <3>7. ASSUME frames[i].phase = "run"
          PROVE  x - 1 < n - 1 /\ b[(x - 1) + 1] # frames[i].stop /\ posts' = "active"
      <4>1. x < n /\ x + 1 \in d + 2..n /\ (x + 1) - 1 = x /\ x - 1 < n - 1
        BY <1>0, <3>2, <3>4, <3>7, OneLess
      <4>2. b[(x + 1) - 1] = at[x + 1]
        BY <1>8, <4>1
      <4>3. b[(x - 1) + 1] = at[x + 1]
        BY <3>5, <4>1, <4>2
      <4> QED
        BY <3>4, <3>7, <4>1, <4>3
    <3> QED
      BY <3>2, <3>3, <3>4, <3>5, <3>6, <3>7
  <2> QED
    BY <1>12, <2>1, <2>2
<1>14. NestInv(b, ql)'
  <2>1. ASSUME NEW i \in 1..L - 1
        PROVE  /\ frames'[i].phase = "run" /\ frames'[i + 1].max = NoMax
               /\ frames'[i + 1].stop = b[ql[i] + 1]
    <3>1. frames[i].phase = "run" /\ frames[i + 1].max = NoMax /\ frames[i + 1].stop = at[pl[i] + 1]
      BY <1>2 DEF PassInv, NestInv
    <3>2. frames'[i + 1].max = frames[i + 1].max /\ frames'[i + 1].stop = frames[i + 1].stop
      <4>1. CASE i + 1 = L
        BY <1>2, <1>5, <1>7, <4>1 DEF Top
      <4>2. CASE i + 1 \in 1..L - 1
        BY <1>7, <4>2
      <4> QED
        BY <1>12, <4>1, <4>2
    <3>3. b[ql[i] + 1] = at[pl[i] + 1]
      <4>1. PICK x : x = pl[i]
        OBVIOUS
      <4>2. x \in d + 2..n /\ ql[i] = x - 1
        BY <1>10, <1>11, <4>1
      <4>3. i \in 1..Len(frames) /\ x < n
        BY <1>2, <1>12, <3>1, <4>1 DEF PassInv, FrameInv
      <4>4. x + 1 \in d + 2..n /\ (x + 1) - 1 = x /\ (x - 1) + 1 = x
        BY <1>0, <4>2, <4>3, OneLess
      <4>5. b[(x + 1) - 1] = at[x + 1]
        BY <1>8, <4>4
      <4> QED
        BY <4>1, <4>2, <4>4, <4>5
    <3> QED
      BY <1>7, <3>1, <3>2, <3>3
  <2>2. ASSUME NEW i \in 1..L, NEW k \in 1..L, i <= k PROVE ql[k] <= ql[i]
    <3>1. CASE i = L
      <4>1. k = L
        BY <1>7, <2>2, <3>1
      <4> QED
        BY <1>1, <1>11, <3>1, <4>1
    <3>2. CASE i \in 1..L - 1 /\ k = L
      <4>1. ql[i] \in d + 1..n - 1 /\ ql[k] = d
        BY <1>11, <3>2
      <4> QED
        BY <1>0, <4>1, Inside
    <3>3. CASE i \in 1..L - 1 /\ k \in 1..L - 1
      <4>1. PICK x, y : x = pl[k] /\ y = pl[i]
        OBVIOUS
      <4>2. pl[k] <= pl[i]
        BY <1>2, <2>2 DEF PassInv, NestInv
      <4>3. x \in Nat /\ y \in Nat
        BY <1>0, <1>10, <3>3, <4>1, OneLess
      <4>4. ql[k] = x - 1 /\ ql[i] = y - 1
        BY <1>11, <3>3, <4>1
      <4>5. x - 1 <= y - 1
        BY <4>1, <4>2, <4>3, FewerLess
      <4> QED
        BY <4>4, <4>5
    <3> QED
      BY <1>12, <3>1, <3>2, <3>3
  <2> QED
    BY <1>7, <2>1, <2>2 DEF NestInv
<1>15. TopInv(b, ql)'
  <2>1. \A m \in 1..d : m \in 0..d /\ b[m] \notin todo'
    <3> SUFFICES ASSUME NEW m \in 1..d PROVE m \in 0..d /\ b[m] \notin todo'
      OBVIOUS
    <3>1. m \in 0..d
      BY <1>1
    <3> QED
      BY <1>1, <1>8, <3>1
  <2> QED
    BY <1>1, <1>5, <1>7, <1>11, <2>1 DEF TopInv, Top, Depth
<1> QED
  BY <1>3, <1>7, <1>11, <1>13, <1>14, <1>15 DEF PassInv

LEMMA RunKeeps == ASSUME Sizes, PostInv, RunPost PROVE PostInv'
<1>1. /\ TypeOK /\ TodoInv /\ ~Idle /\ Top.phase = "run"
      /\ UNCHANGED <<prio, posts>>
  BY DEF PostInv, RunPost
<1>2. PICK at, n : /\ PlaceInv(at, n) /\ SortInv(at, n)
                   /\ \E pl \in [Nat -> Nat] : PassInv(at, n, pl)
  BY DEF PostInv
<1>3. PICK pl \in [Nat -> Nat] : PassInv(at, n, pl)
  BY <1>2
<1>4. UNCHANGED next => PlaceInv(at, n)' /\ SortInv(at, n)'
  BY <1>1, <1>2, SameList
<1>5. /\ UNCHANGED next /\ todo' \subseteq todo => TodoInv'
      /\ UNCHANGED next /\ queue' \in Nat /\ frames' \in Seq(Frames) => TypeOK'
  BY <1>1 DEF TodoInv, TypeOK
<1>6. queue \in Nat
  BY <1>1 DEF TypeOK
<1>7. CASE UNCHANGED <<next, queue>> /\ todo' = todo \ {Running} /\ SetTop(Step(Top, Running))
  <2>1. frames' \in Seq(Frames) /\ \E ql \in [Nat -> Nat] : PassInv(at, n, ql)'
    BY <1>1, <1>2, <1>3, <1>7, RunStays
  <2> QED
    BY <1>4, <1>5, <1>6, <1>7, <2>1 DEF PostInv
<1>8. CASE /\ UNCHANGED next /\ todo' = todo \ {Running} /\ queue' = queue + 1
           /\ frames' = Append(frames, Nested)
  <2>1. frames' \in Seq(Frames) /\ \E ql \in [Nat -> Nat] : PassInv(at, n, ql)'
    BY <1>1, <1>2, <1>3, <1>8, RunNests
  <2>2. queue' \in Nat
    BY <1>6, <1>8
  <2> QED
    BY <1>4, <1>5, <1>8, <2>1, <2>2 DEF PostInv
<1>9. CASE Fail /\ UNCHANGED next
  <2>1. frames' = <<>> /\ queue' = 0 /\ todo' \subseteq todo
    BY <1>9 DEF Fail
  <2>2. TypeOK' /\ TodoInv'
    BY <1>5, <1>9, <2>1
  <2> QED
    BY <1>4, <1>9, <2>1, <2>2, NoPass DEF PostInv
<1>10. CASE /\ \A i \in 1..Len(frames) - 1 : frames[i].link # Running
            /\ next' = Unlink(Running) /\ todo' = todo \ {Running} /\ UNCHANGED queue
            /\ SetTop(Step(Top, Running))
  <2>1. /\ next' \in [Ends -> Ends \union {Unlisted}] /\ TodoInv' /\ frames' \in Seq(Frames)
        /\ \E b, m : /\ PlaceInv(b, m)' /\ SortInv(b, m)'
                     /\ \E ql \in [Nat -> Nat] : PassInv(b, m, ql)'
    BY <1>1, <1>2, <1>3, <1>10, RunLeaves
  <2>2. TypeOK'
    BY <1>1, <1>10, <2>1 DEF TypeOK
  <2> QED
    BY <2>1, <2>2 DEF PostInv
<1> QED
  BY <1>7, <1>8, <1>9, <1>10 DEF RunPost

-----------------------------------------------------------------------------
(* The calls from outside                                                  *)

(* A call begins with one pass.                                            *)
LEMMA OnePass ==
  ASSUME Sizes, TypeOK, NEW at, NEW n, PlaceInv(at, n), NEW f \in Frames, frames' = <<f>>,
         NEW d \in 0..n, f.link = at[d], f.stop # 0 => \E k \in d + 1..n : f.stop = at[k],
         f.phase # "run", f.phase = "unit" => d = 0,
         f.phase # "unit" => queue' = 0 /\ \A m \in 1..d : at[m] \notin todo'
  PROVE  frames' \in Seq(Frames) /\ \E pl \in [Nat -> Nat] : PassInv(at, n, pl)'
<1>1. PICK pl : pl = [i \in Nat |-> d]
  OBVIOUS
<1>2. d \in Nat
  BY DEF PlaceInv
<1>3. pl \in [Nat -> Nat] /\ pl[1] = d /\ \A i \in 1..1 : i = 1
  BY <1>1, <1>2
<1>4. Len(frames') = 1 /\ frames'[1] = f /\ frames' \in Seq(Frames)
  OBVIOUS
<1>5. FrameInv(at, n, pl)'
  BY <1>3, <1>4 DEF FrameInv
<1>6. NestInv(at, pl)'
  BY <1>2, <1>3, <1>4 DEF NestInv
<1>7. TopInv(at, pl)'
  BY <1>3, <1>4 DEF TopInv, Top, Depth
<1> QED
  BY <1>3, <1>4, <1>5, <1>6, <1>7 DEF PassInv

(* What adds or removes a propagator, or leaves the list alone.            *)
LEMMA AddKeeps == ASSUME Sizes, PostInv, AddPost PROVE PostInv'
<1>1. TypeOK /\ TodoInv /\ frames' = <<>> /\ UNCHANGED <<queue, frames>>
  BY DEF PostInv, AddPost, Outside, Idle
<1>2. PICK at, n : PlaceInv(at, n) /\ SortInv(at, n)
  BY DEF PostInv
<1>3. PICK p \in PostIds \ Listed, pr \in Prios :
         /\ next' = Insert(p, pr) /\ prio' = [prio EXCEPT ![p] = pr]
         /\ todo' \subseteq todo \union {p}
  BY DEF AddPost
<1>4. /\ \E b, m : PlaceInv(b, m)' /\ SortInv(b, m)'
      /\ TodoInv' /\ next' \in [Ends -> Ends \union {Unlisted}]
  BY <1>1, <1>2, <1>3, InsertKeeps
<1>5. TypeOK'
  BY <1>1, <1>3, <1>4 DEF TypeOK
<1> QED
  BY <1>1, <1>4, <1>5, NoPass DEF PostInv

LEMMA RemoveKeeps == ASSUME Sizes, PostInv, RemovePost \/ RemoveFound PROVE PostInv'
<1>1. TypeOK /\ TodoInv /\ frames' = <<>> /\ UNCHANGED <<prio, queue, frames>>
  BY DEF PostInv, RemovePost, RemoveFound, Outside, Idle
<1>2. PICK at, n : PlaceInv(at, n) /\ SortInv(at, n)
  BY DEF PostInv
<1>3. PICK p \in Listed : next' = Unlink(p) /\ todo' = todo \ {p}
  BY DEF RemovePost, RemoveFound
<1>4. PICK k \in 1..n : p = at[k]
  BY <1>1, <1>2, InPlace
<1>5. PICK d : d = k - 1
  OBVIOUS
<1>6. d \in 0..n - 1 /\ d + 1 = k
  BY <1>2, <1>5 DEF PlaceInv
<1>7. /\ PlaceInv(Shorter(at, d), n - 1)' /\ SortInv(Shorter(at, d), n - 1)' /\ TodoInv'
      /\ next' \in [Ends -> Ends \union {Unlisted}]
  BY <1>1, <1>2, <1>3, <1>4, <1>6, UnlinkKeeps
<1>8. TypeOK'
  BY <1>1, <1>7 DEF TypeOK
<1> QED
  BY <1>1, <1>7, <1>8, NoPass DEF PostInv

LEMMA SwitchKeeps ==
  ASSUME Sizes, PostInv, PreparePost \/ EndInit \/ BeginInit \/ ForceLit \/ Recover
  PROVE  PostInv'
<1>1. /\ TypeOK /\ TodoInv /\ frames' = <<>> /\ UNCHANGED <<next, prio, frames>>
      /\ todo' \subseteq todo \union Listed /\ queue' \in {queue, queue + 1}
  BY DEF PostInv, PreparePost, EndInit, BeginInit, ForceLit, Recover, Outside, Idle
<1>2. PICK at, n : PlaceInv(at, n) /\ SortInv(at, n)
  BY DEF PostInv
<1>3. PlaceInv(at, n)' /\ SortInv(at, n)'
  BY <1>1, <1>2, SameList
<1>4. TypeOK' /\ TodoInv'
  BY <1>1 DEF TypeOK, TodoInv, Listed
<1> QED
  BY <1>1, <1>3, <1>4, NoPass DEF PostInv

LEMMA PropagateKeeps == ASSUME Sizes, PostInv, Propagate PROVE PostInv'
<1>1. TypeOK /\ TodoInv /\ UNCHANGED <<next, prio, todo, queue>>
  BY DEF PostInv, Propagate
<1>2. PICK at, n : PlaceInv(at, n) /\ SortInv(at, n)
  BY DEF PostInv
<1>3. PICK stop \in Listed \union {0}, max \in Prios \union {NoMax} :
         frames' = <<Frame("unit", stop, max, 0)>>
  BY DEF Propagate
<1>4. PICK f : f = Frame("unit", stop, max, 0)
  OBVIOUS
<1>5. f \in Frames /\ f.stop = stop /\ f.link = 0 /\ f.phase = "unit" /\ frames' = <<f>>
  BY <1>3, <1>4 DEF Frame, Frames, Ends, Listed
<1>6. 0 \in 0..n /\ at[0] = 0 /\ (stop # 0 => \E k \in 0 + 1..n : stop = at[k])
  BY <1>1, <1>2, InPlace
<1>7. frames' \in Seq(Frames) /\ \E pl \in [Nat -> Nat] : PassInv(at, n, pl)'
  BY <1>1, <1>2, <1>5, <1>6, OnePass
<1>8. PlaceInv(at, n)' /\ SortInv(at, n)'
  BY <1>1, <1>2, SameList
<1>9. TypeOK' /\ TodoInv'
  BY <1>1, <1>7 DEF TypeOK, TodoInv
<1> QED
  BY <1>7, <1>8, <1>9 DEF PostInv

LEMMA FromKeeps == ASSUME Sizes, PostInv, PropagateFrom PROVE PostInv'
<1>1. TypeOK /\ TodoInv /\ queue = 0 /\ UNCHANGED <<next, prio, todo, queue>>
  BY DEF PostInv, PropagateFrom
<1>2. PICK at, n : PlaceInv(at, n) /\ SortInv(at, n)
  BY DEF PostInv
<1>3. PICK p \in Listed : /\ Before(p) \intersect todo = {}
                          /\ frames' = <<Frame("loop", 0, NoMax, LinkTo(p))>>
  BY DEF PropagateFrom
<1>4. PICK k \in 1..n : p = at[k]
  BY <1>1, <1>2, InPlace
<1>5. PICK d : d = k - 1
  OBVIOUS
<1>6. n \in Nat /\ d \in 0..n /\ d + 1 = k /\ \A m \in 1..d : m \in 1..n /\ m < k
  BY <1>2, <1>5 DEF PlaceInv
<1>7. LinkTo(p) = at[d] /\ at[d] \in Ends
  BY <1>1, <1>2, <1>4, <1>5, <1>6, LinkToIs DEF PlaceInv
<1>8. PICK f : f = Frame("loop", 0, NoMax, at[d])
  OBVIOUS
<1>9. f \in Frames /\ f.stop = 0 /\ f.link = at[d] /\ f.phase = "loop" /\ frames' = <<f>>
  BY <1>3, <1>7, <1>8 DEF Frame, Frames, Ends
<1>10. \A m \in 1..d : at[m] \notin todo'
  <2> SUFFICES ASSUME NEW m \in 1..d PROVE at[m] \in Before(p)
    BY <1>1, <1>3
  <2> QED
    BY <1>1, <1>2, <1>4, <1>6, BeforeIs
<1>11. frames' \in Seq(Frames) /\ \E pl \in [Nat -> Nat] : PassInv(at, n, pl)'
  BY <1>1, <1>2, <1>6, <1>9, <1>10, OnePass
<1>12. PlaceInv(at, n)' /\ SortInv(at, n)'
  BY <1>1, <1>2, SameList
<1>13. TypeOK' /\ TodoInv'
  BY <1>1, <1>11 DEF TypeOK, TodoInv
<1> QED
  BY <1>11, <1>12, <1>13 DEF PostInv

-----------------------------------------------------------------------------
(* The invariant and what follows from it                                  *)

LEMMA InitInv == ASSUME Sizes, PostInit PROVE PostInv
<1> DEFINE at == [i \in Nat |-> 0]
<1>1. /\ frames = <<>> /\ Len(frames) = 0 /\ todo = {} /\ next[0] = 0
      /\ \A p \in PostIds : next[p] = Unlisted
  <2>1. frames = <<>> /\ todo = {} /\ next = [p \in Ends |-> IF p = 0 THEN 0 ELSE Unlisted]
    BY DEF PostInit, Ends
  <2>2. 0 \in Ends /\ \A p \in PostIds : p \in Ends /\ p # 0
    BY DEF Sizes, PostIds, Ends
  <2>3. next[0] = 0 /\ \A p \in PostIds : next[p] = Unlisted
    BY <2>1, <2>2
  <2>4. Len(frames) = 0
    BY <2>1
  <2> QED
    BY <2>1, <2>3, <2>4
<1>2. TypeOK /\ TodoInv
  BY DEF PostInit, TypeOK, TodoInv, Ends, Unlisted
<1>3. PlaceInv(at, 0) /\ SortInv(at, 0)
  <2>1. at \in [Nat -> Ends] /\ at[0] = 0
    BY DEF Ends
  <2> HIDE DEF at
  <2> QED
    BY <1>1, <2>1 DEF PlaceInv, SortInv
<1>4. PICK pl : pl \in [Nat -> Nat]
  <2>1. [i \in Nat |-> 0] \in [Nat -> Nat]
    OBVIOUS
  <2> QED
    BY <2>1
<1> HIDE DEF at
<1>5. PassInv(at, 0, pl)
  BY <1>1 DEF PassInv, FrameInv, NestInv, TopInv, Idle
<1> QED
  BY <1>2, <1>3, <1>4, <1>5 DEF PostInv

LEMMA StepInv == ASSUME Sizes, PostInv, [PostNext]_postVars PROVE PostInv'
<1>1. CASE UNCHANGED postVars
  <2>1. UNCHANGED <<next, prio, todo, queue, frames, posts>>
    BY <1>1 DEF postVars
  <2>2. TypeOK /\ TodoInv
    BY DEF PostInv
  <2>3. TypeOK' /\ TodoInv'
    BY <2>1, <2>2 DEF TypeOK, TodoInv
  <2>4. PICK at, n : /\ PlaceInv(at, n) /\ SortInv(at, n)
                     /\ \E pl \in [Nat -> Nat] : PassInv(at, n, pl)
    BY DEF PostInv
  <2>5. PICK pl \in [Nat -> Nat] : PassInv(at, n, pl)
    BY <2>4
  <2>6. PlaceInv(at, n)' /\ SortInv(at, n)'
    BY <2>1, <2>4, SameList
  <2>7. PassInv(at, n, pl)'
    BY <2>1, <2>5 DEF PassInv, FrameInv, NestInv, TopInv, Idle, Top, Depth
  <2> QED
    BY <2>3, <2>6, <2>7 DEF PostInv
<1>2. CASE PostNext
  BY <1>2, UnitKeeps, AdvanceKeeps, RunKeeps, AddKeeps, RemoveKeeps, SwitchKeeps, PropagateKeeps,
     FromKeeps DEF PostNext
<1> QED
  BY <1>1, <1>2

LEMMA InvCheap == ASSUME Sizes, PostInv PROVE CheapFirst
<1> SUFFICES ASSUME ~Idle, Top.phase = "run" PROVE queue = 0 /\ Before(Running) \intersect todo = {}
  BY DEF CheapFirst
<1>1. TypeOK
  BY DEF PostInv
<1>2. PICK at, n : PlaceInv(at, n) /\ \E pl \in [Nat -> Nat] : PassInv(at, n, pl)
  BY DEF PostInv
<1>3. PICK pl \in [Nat -> Nat] : PassInv(at, n, pl)
  BY <1>2
<1>4. PICK d \in Nat : /\ n \in Nat /\ d + 1 \in 1..n /\ Running = at[d + 1]
                       /\ queue = 0 /\ \A m \in 1..d : at[m] \notin todo
  BY <1>1, <1>2, <1>3, RunPlace
<1>5. ASSUME NEW q \in Before(Running) PROVE q \notin todo
  <2>1. PICK i \in 1..n : i < d + 1 /\ q = at[i]
    BY <1>1, <1>2, <1>4, BeforeIs
  <2>2. i \in 1..d
    BY <2>1
  <2> QED
    BY <1>4, <2>1, <2>2
<1> QED
  BY <1>4, <1>5

(* The last return of a call: the pass is over the list, at its stop, or   *)
(* at a priority it does not reach.                                        *)
LEMMA ReturnFixed ==
  ASSUME Sizes, PostInv, Advance, frames' = <<>>, posts = "active"
  PROVE  /\ queue = 0
         /\ \A p \in todo : \/ answer' = "free" /\ prio[p] > Top.max
                            \/ Top.stop # 0 /\ (p = Top.stop \/ Top.stop \in Before(p))
<1>1. TypeOK /\ TodoInv /\ ~Idle /\ Top.phase = "loop"
  BY DEF PostInv, Advance
<1>2. PICK at, n : /\ PlaceInv(at, n) /\ SortInv(at, n)
                   /\ \E pl \in [Nat -> Nat] : PassInv(at, n, pl)
  BY DEF PostInv
<1>3. PICK pl \in [Nat -> Nat] : PassInv(at, n, pl)
  BY <1>2
<1>4. PICK d, cur : d = Depth(pl) /\ cur = next[Top.link]
  OBVIOUS
<1>5. /\ d \in Nat /\ d \in 0..n /\ n \in Nat
      /\ cur = (IF d < n THEN at[d + 1] ELSE 0)
      /\ queue = 0 /\ \A m \in 1..d : at[m] \notin todo
  BY <1>1, <1>2, <1>3, <1>4, TopPlace
<1>6. ASSUME NEW f, SetTop(f) PROVE FALSE
  <2>1. frames # <<>> /\ frames \in Seq(Frames) /\ frames' = [frames EXCEPT ![Len(frames)] = f]
    BY <1>1, <1>6 DEF SetTop, TypeOK, Idle
  <2>2. DOMAIN frames' = DOMAIN frames /\ DOMAIN frames = 1..Len(frames)
    BY <2>1
  <2>3. Len(frames) \in Nat /\ Len(frames) >= 1
    BY <1>1, TopFacts
  <2>4. DOMAIN frames' = {}
    OBVIOUS
  <2> QED
    BY <2>2, <2>3, <2>4
<1>7. \/ cur = Top.stop \/ cur = 0
      \/ prio[cur] > Top.max /\ cur # 0 /\ answer' = "free"
  BY <1>4, <1>6 DEF Advance, Return
<1> SUFFICES ASSUME NEW p \in todo
             PROVE  \/ answer' = "free" /\ prio[p] > Top.max
                    \/ Top.stop # 0 /\ (p = Top.stop \/ Top.stop \in Before(p))
  BY <1>5
<1>8. PICK j \in 1..n : p = at[j]
  BY <1>1, <1>2, InPlace DEF TodoInv, Listed
<1>9. d < j /\ d < n /\ d + 1 \in 1..n /\ d + 1 <= j
  <2>1. j \notin 1..d
    BY <1>5, <1>8
  <2> QED
    BY <1>5, <2>1
<1>10. cur = at[d + 1] /\ cur \in PostIds /\ cur # 0
  BY <1>1, <1>2, <1>5, <1>9, InPlace
<1>11. CASE cur = Top.stop
  <2>1. CASE j = d + 1
    BY <1>8, <1>10, <1>11, <2>1
  <2>2. CASE j # d + 1
    <3>1. d + 1 < j
      BY <1>9, <2>2
    <3>2. at[d + 1] \in Before(at[j])
      BY <1>1, <1>2, <1>9, <3>1, BeforeIs
    <3> QED
      BY <1>8, <1>10, <1>11, <3>2
  <2> QED
    BY <2>1, <2>2
<1>12. CASE prio[cur] > Top.max /\ answer' = "free"
  <2>1. prio[at[d + 1]] <= prio[at[j]]
    BY <1>2, <1>9 DEF SortInv
  <2>2. p \in PostIds
    BY <1>1 DEF TodoInv
  <2>3. prio[cur] \in Int /\ prio[p] \in Int
    <3>1. \A q \in PostIds : prio[q] \in Prios \union {0}
      BY <1>1 DEF TypeOK
    <3>2. Prios \union {0} \subseteq Int
      BY DEF Prios
    <3> QED
      BY <1>10, <2>2, <3>1, <3>2
  <2>4. Top.max \in Int
    <3>1. Top.max \in Prios \union {NoMax}
      BY <1>1, TopFacts DEF Frames
    <3> QED
      BY <3>1 DEF Prios, NoMax
  <2>5. prio[cur] <= prio[p]
    BY <1>8, <1>10, <2>1
  <2>6. prio[p] > Top.max
    BY <1>12, <2>3, <2>4, <2>5
  <2> QED
    BY <1>12, <2>6
<1> QED
  BY <1>7, <1>10, <1>11, <1>12

LEMMA InvFixed == ASSUME Sizes, PostInv, [PostNext]_postVars PROVE FixpointStep
<1> SUFFICES ASSUME ~Idle, Len(frames) = 1, frames' = <<>>, answer' # "false", posts = "active"
             PROVE  Advance
  BY ReturnFixed DEF FixpointStep
<1>1. frames # <<>> /\ TypeOK
  BY DEF Idle, PostInv
<1>2. ASSUME NEW f, SetTop(f) PROVE FALSE
  <2>1. frames \in Seq(Frames) /\ frames' = [frames EXCEPT ![Len(frames)] = f]
    BY <1>1, <1>2 DEF SetTop, TypeOK
  <2>2. DOMAIN frames' = DOMAIN frames /\ DOMAIN frames = 1..Len(frames)
    BY <2>1
  <2>3. DOMAIN frames' = {}
    OBVIOUS
  <2> QED
    BY <2>2, <2>3
<1>3. frames' # frames /\ ~Fail /\ ~Outside
  BY <1>1 DEF Fail, Outside, Idle
<1>4. frames' # Append(frames, Nested)
  <2>1. frames \in Seq(Frames)
    BY <1>1 DEF TypeOK
  <2> QED
    BY <2>1, LongerNotEmpty
<1>5. ~UnitPropagate
  BY <1>2, <1>3 DEF UnitPropagate
<1>6. ~RunPost
  BY <1>2, <1>3, <1>4 DEF RunPost
<1>7. ~(AddPost \/ RemovePost \/ PreparePost \/ EndInit \/ BeginInit \/ ForceLit \/ Recover
          \/ Propagate \/ PropagateFrom \/ RemoveFound)
  BY <1>3 DEF AddPost, RemovePost, PreparePost, EndInit, BeginInit, ForceLit, Recover, Propagate,
     PropagateFrom, RemoveFound
<1>8. ~UNCHANGED postVars
  BY <1>3 DEF postVars
<1> QED
  BY <1>5, <1>6, <1>7, <1>8 DEF PostNext

(* A propagator runs only when unit propagation and all that is cheaper    *)
(* have nothing left to do, however the passes of propagate_until nest and *)
(* whatever joins or leaves the list (PropagatorList, post_propagate).     *)
THEOREM CheapGoesFirst == ASSUME Sizes PROVE PostSpec => []CheapFirst
<1>1. PostInit => PostInv
  BY InitInv
<1>2. PostInv /\ [PostNext]_postVars => PostInv'
  BY StepInv
<1>3. PostInv => CheapFirst
  BY InvCheap
<1> QED
  BY <1>1, <1>2, <1>3, PTL DEF PostSpec

(* A call of propagate, propagate_until or propagate_from that answers yes *)
(* leaves work only behind the propagator or the priority that bounds it.  *)
THEOREM CallsReachFixpoint == ASSUME Sizes PROVE PostSpec => FixpointReached
<1>1. PostInit => PostInv
  BY InitInv
<1>2. PostInv /\ [PostNext]_postVars => PostInv'
  BY StepInv
<1>3. PostInv /\ [PostNext]_postVars => [FixpointStep]_postVars
  BY InvFixed
<1> QED
  BY <1>1, <1>2, <1>3, PTL DEF PostSpec, FixpointReached
===============================================================================

------------------------------ MODULE PostList ------------------------------
(***************************************************************************)
(* The post propagators of a solver: the list that is sorted by priority,  *)
(* and propagate, which runs unit propagation and then the propagators one *)
(* after the other (PropagatorList, add_post, remove_post, post_propagate, *)
(* propagate_until, propagate_from and cancel_propagation of               *)
(* clasp/constraint.rs).                                                   *)
(*                                                                         *)
(* The list is kept as links: next[0] is the head, next[p] the successor   *)
(* of p, 0 the end. A pass holds the link it is at, not the propagator, as *)
(* propagators come and go under it. A propagator that assigns something   *)
(* calls propagate_until on itself: the calls nest and are kept on a stack.*)
(* `todo' are the propagators that unit propagation has notified and that  *)
(* have not looked yet; `queue' counts the literals that wait for unit     *)
(* propagation, and `forced' all that were ever assigned.                  *)
(***************************************************************************)
EXTENDS Integers, Sequences

CONSTANTS PostNum,     \* number of propagators
          PostForced,  \* bound on the literals assigned
          PostCalls    \* bound on the calls from outside

VARIABLES next, prio, todo, queue, forced, frames, posts, confl, answer, calls

postVars == <<next, prio, todo, queue, forced, frames, posts, confl, answer, calls>>

Prios == {10, 20}
NoMax == 1000
PostIds == 1..PostNum
Unlisted == -1

-----------------------------------------------------------------------------
Listed == {p \in PostIds : next[p] # Unlisted}

\* what comes behind a link: what every set has that holds its propagator and
\* with a propagator the next one
Behind(l) ==
  {p \in Listed : \A S \in SUBSET Listed :
     next[l] \in S \union {0} /\ (\A q \in S : next[q] \in S \union {0}) => p \in S}
Before(p) == {q \in Listed : p \in Behind(q)}

\* add: the new propagator comes before the first of a higher priority
InsertLink(pr) ==
  CHOOSE l \in Listed \union {0} :
    /\ next[l] = 0 \/ prio[next[l]] > pr
    /\ \A q \in Listed : q = l \/ q \in Before(l) => prio[q] <= pr
Insert(p, pr) ==
  [next EXCEPT ![p] = next[InsertLink(pr)], ![InsertLink(pr)] = p]

LinkTo(p) == CHOOSE l \in Listed \union {0} : next[l] = p
Unlink(p) == [next EXCEPT ![LinkTo(p)] = next[p], ![p] = Unlisted]

\* find(prio) returns the first propagator of that priority
Found(p) == \A q \in Before(p) : prio[q] # prio[p]

-----------------------------------------------------------------------------
(* A frame is one call of propagate: phase "unit" before unit propagation, *)
(* "loop" at a link, "run" inside the propagator at the link.              *)

Frame(phase, stop, max, from) == [phase |-> phase, stop |-> stop, max |-> max, link |-> from]
Top == frames[Len(frames)]
SetTop(f) == frames' = [frames EXCEPT ![Len(frames)] = f]
Idle == frames = <<>>

\* return from the innermost call
Return(result) ==
  /\ frames' = SubSeq(frames, 1, Len(frames) - 1)
  /\ answer' = result

\* cancel_propagation and return false; every caller does the same
Fail ==
  /\ frames' = <<>>
  /\ answer' = "false"
  /\ queue' = 0
  /\ todo' = IF posts = "active" THEN {} ELSE todo
  /\ confl' = TRUE

UnitPropagate ==
  /\ ~Idle /\ Top.phase = "unit"
  /\ \/ /\ queue > 0 /\ Fail /\ UNCHANGED forced
     \/ /\ queue' = 0
        /\ \E w \in SUBSET Listed : todo' = IF queue = 0 THEN todo ELSE todo \union w
        /\ SetTop([Top EXCEPT !.phase = "loop"])
        /\ UNCHANGED <<forced, confl, answer>>
  /\ UNCHANGED <<next, prio, posts, calls>>

\* the loop of post_propagate, at a link
Advance ==
  /\ ~Idle /\ Top.phase = "loop"
  /\ LET cur == next[Top.link]
     IN IF posts # "active" \/ cur = Top.stop \/ cur = 0 THEN Return("true")
        ELSE IF prio[cur] > Top.max THEN Return("free")
        ELSE SetTop([Top EXCEPT !.phase = "run"]) /\ UNCHANGED answer
  /\ UNCHANGED <<next, prio, todo, queue, forced, posts, confl, calls>>

\* the link moves on unless the propagator at it has left
StepAlways(f, cur) ==
  [f EXCEPT !.phase = "loop", !.link = IF next'[f.link] = 0 THEN f.link ELSE next'[f.link]]
Step(f, cur) ==
  [f EXCEPT !.phase = "loop", !.link = IF next'[f.link] = cur THEN cur ELSE f.link]

Running == next[Top.link]

NestedFromHere == Frame("unit", Running, NoMax, Top.link)
Nested == Frame("unit", Running, NoMax, 0)

(* What a propagator does in propagate_fixpoint *)
RunPost ==
  /\ ~Idle /\ Top.phase = "run"
  /\ \/ \* nothing to do, or nothing follows
        /\ todo' = todo \ {Running}
        /\ UNCHANGED next
        /\ SetTop(Step(Top, Running))
        /\ UNCHANGED <<queue, forced, confl, answer>>
     \/ \* it assigns a literal and propagates up to itself, and looks again
        /\ Running \in todo /\ forced < PostForced
        /\ todo' = todo \ {Running}
        /\ queue' = queue + 1 /\ forced' = forced + 1
        /\ frames' = Append(frames, Nested)
        /\ UNCHANGED <<next, confl, answer>>
     \/ \* it finds a conflict
        /\ Running \in todo /\ Fail /\ UNCHANGED <<next, forced>>
     \/ \* it leaves the list, while no outer pass stands on its link
        /\ \A i \in 1..Len(frames) - 1 : frames[i].link # Running
        /\ next' = Unlink(Running)
        /\ todo' = todo \ {Running}
        /\ SetTop(Step(Top, Running))
        /\ UNCHANGED <<queue, forced, confl, answer>>
  /\ UNCHANGED <<prio, posts, calls>>

-----------------------------------------------------------------------------
(* Calls from outside *)

PostInit ==
  /\ next = [p \in PostIds \union {0} |-> IF p = 0 THEN 0 ELSE Unlisted]
  /\ prio = [p \in PostIds |-> 0]
  /\ todo = {} /\ queue = 0 /\ forced = 0 /\ frames = <<>>
  /\ posts = "new" /\ confl = FALSE /\ answer = "none" /\ calls = 0

Outside == Idle /\ calls < PostCalls /\ calls' = calls + 1 /\ answer' = "none"

\* the initialisation of a propagator may leave it work
AddPost ==
  /\ Outside /\ ~confl
  /\ \E p \in PostIds \ Listed, pr \in Prios :
       /\ next' = Insert(p, pr)
       /\ prio' = [prio EXCEPT ![p] = pr]
       /\ \/ UNCHANGED todo
          \/ posts # "new" /\ todo' = todo \union {p}
  /\ UNCHANGED <<queue, forced, frames, posts, confl>>

RemovePost ==
  /\ Outside
  /\ \E p \in Listed : next' = Unlink(p) /\ todo' = todo \ {p}
  /\ UNCHANGED <<prio, queue, forced, frames, posts, confl>>

\* prepare_post initialises the list, end_init switches it on
PreparePost ==
  /\ Outside /\ ~confl /\ posts = "new"
  /\ \E w \in SUBSET Listed : todo' = todo \union w
  /\ posts' = "ready"
  /\ UNCHANGED <<next, prio, queue, forced, frames, confl>>

EndInit ==
  /\ Outside /\ ~confl /\ posts = "ready" /\ posts' = "active"
  /\ UNCHANGED <<next, prio, todo, queue, forced, frames, confl>>

BeginInit ==
  /\ Outside /\ posts = "active" /\ posts' = "new"
  /\ UNCHANGED <<next, prio, todo, queue, forced, frames, confl>>

ForceLit ==
  /\ Outside /\ ~confl /\ forced < PostForced
  /\ queue' = queue + 1 /\ forced' = forced + 1
  /\ UNCHANGED <<next, prio, todo, frames, posts, confl>>

\* the search takes back a level and may go on
Recover ==
  /\ Outside /\ confl /\ confl' = FALSE
  /\ UNCHANGED <<next, prio, todo, queue, forced, frames, posts>>

\* propagate, and propagate_until a propagator or a priority
Propagate ==
  /\ Outside /\ ~confl
  /\ \E stop \in Listed \union {0}, max \in Prios \union {NoMax} :
       frames' = <<Frame("unit", stop, max, 0)>>
  /\ UNCHANGED <<next, prio, todo, queue, forced, posts, confl>>

\* propagate_from skips the propagators before its start: they must be done
PropagateFrom ==
  /\ Outside /\ ~confl /\ posts = "active" /\ queue = 0
  /\ \E p \in Listed :
       /\ Before(p) \intersect todo = {}
       /\ frames' = <<Frame("loop", 0, NoMax, LinkTo(p))>>
  /\ UNCHANGED <<next, prio, todo, queue, forced, posts, confl>>

\* the reserved lookahead of a configuration is looked up and removed
RemoveFound ==
  /\ Outside
  /\ \E p \in Listed : Found(p) /\ next' = Unlink(p) /\ todo' = todo \ {p}
  /\ UNCHANGED <<prio, queue, forced, frames, posts, confl>>

PostNext ==
  \/ UnitPropagate \/ Advance \/ RunPost
  \/ AddPost \/ RemovePost \/ PreparePost \/ EndInit \/ BeginInit \/ ForceLit \/ Recover
  \/ Propagate \/ PropagateFrom \/ RemoveFound

PostSpec == PostInit /\ [][PostNext]_postVars

-----------------------------------------------------------------------------
(* A propagator runs only when everything cheaper is done: nothing waits   *)
(* for unit propagation and no propagator before it in the list has work,  *)
(* although the one that runs assigns literals and the list changes while  *)
(* passes over it are nested.                                              *)
CheapFirst ==
  ~Idle /\ Top.phase = "run" => queue = 0 /\ Before(Running) \intersect todo = {}

(* When a call answers yes, all it was asked to run is at its fixpoint: a  *)
(* pass that was bounded stops with work only behind the bound.            *)
FixpointStep ==
  ~Idle /\ Len(frames) = 1 /\ frames' = <<>> /\ answer' # "false" /\ posts = "active" =>
    /\ queue = 0
    /\ \A p \in todo : \/ answer' = "free" /\ prio[p] > Top.max
                       \/ Top.stop # 0 /\ (p = Top.stop \/ Top.stop \in Before(p))
FixpointReached == [][FixpointStep]_postVars
=============================================================================

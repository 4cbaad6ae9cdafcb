----------------------------- MODULE ProgramTables -----------------------------
(***************************************************************************)
(* What the program graph and the shared context keep about atoms, each in *)
(* a table of its own. An atom of the program graph: its value, its        *)
(* equivalence to another node, its supports in a SmallEdgeList, the       *)
(* bodies that depend on it and its state as an external                   *)
(* (logic_program_types.rs). The domain table of the shared context: it    *)
(* collects modifications of the decision heuristic and merges those of    *)
(* one variable under one condition (DomainTable, shared_context.rs).      *)
(***************************************************************************)
EXTENDS Integers, Sequences, FiniteSets, SequencesExt

CONSTANTS PrgSteps,  \* bound on the operations on the atom
          PrgEdges,  \* supports the atom may get
          DomAdds    \* bound on the modifications added

VARIABLES atom,      \* the atom
          store,     \* its SmallEdgeList: tag, small, large
          supported, \* the supports it should have
          prgSteps,  \* operations so far
          entries,   \* the modifications: condition, variable, kind, bias, priority
          merged,    \* how many of them are merged
          wanted     \* all modifications in the order in which they were added

prgVars == <<atom, store, supported, prgSteps>>

None == 0
NoNode == 0
Strong == {"true", "false"}
Bodies == {1, 2}

PrgInit ==
  /\ atom = [val |-> "free", eq |-> FALSE, id |-> 1, seen |-> FALSE, data |-> "unset",
             upper |-> FALSE, dirty |-> FALSE, freeze |-> "no", fact |-> FALSE, deps |-> <<>>]
  /\ store = [tag |-> 0, small |-> <<None, None>>, large |-> <<>>, emptied |-> FALSE]
  /\ supported = <<>>
  /\ prgSteps = 0

-----------------------------------------------------------------------------
(* SmallEdgeList: up to two edges in place, more in a vector that stays *)

Large == 3
Supports(s) == IF s.tag = Large THEN s.large ELSE SubSeq(s.small, 1, s.tag)

\* the in-place edges move to an empty vector, whatever the tag says
PushLast(s, e) ==
  IF s.tag < 2 THEN [s EXCEPT !.small[s.tag + 1] = e, !.tag = @ + 1]
  ELSE [s EXCEPT !.tag = Large, !.large = Append(IF @ = <<>> THEN <<s.small[1]>> ELSE @, e)]
PushEdge(s, e) ==
  IF s.tag < 2 THEN [s EXCEPT !.small[s.tag + 1] = e, !.tag = @ + 1]
  ELSE [s EXCEPT !.tag = Large,
                 !.large = Append(IF @ = <<>> THEN s.small ELSE @, e)]
\* the edges that stay are moved to the front of their storage
KeepFirst(s, kept) ==
  IF s.tag = Large
  THEN [s EXCEPT !.large = kept, !.emptied = @ \/ kept = <<>>]
  ELSE [s EXCEPT !.small = kept \o SubSeq(@, Len(kept) + 1, 2), !.tag = Len(kept)]
\* a new vector, so that what was wrong with an emptied one is over
ClearEdges(s) == [s EXCEPT !.large = IF s.tag = Large THEN <<>> ELSE @, !.tag = 0,
                           !.emptied = FALSE]

-----------------------------------------------------------------------------
(* PrgNode, PrgHead, PrgAtom *)

Relevant == ~atom.eq
IsEq == atom.eq /\ atom.id # NoNode

Step == prgSteps < PrgSteps /\ prgSteps' = prgSteps + 1

AddSupport(e, simplify) ==
  /\ Step
  /\ store' = PushEdge(store, e)
  /\ supported' = Append(supported, e)
  /\ atom' = [atom EXCEPT !.dirty = IF simplify THEN Len(Supports(store')) > 1 ELSE @]
\* every occurrence is removed
RemoveSupport(e) ==
  LET kept == SelectSeq(Supports(store), LAMBDA x : x # e)
  IN /\ Step
     /\ store' = IF Relevant /\ Len(kept) < Len(Supports(store)) THEN KeepFirst(store, kept)
                 ELSE store
     /\ supported' = IF Relevant THEN SelectSeq(supported, LAMBDA x : x # e) ELSE supported
     /\ atom' = [atom EXCEPT !.dirty = TRUE]
ClearSupports ==
  /\ Step
  /\ store' = ClearEdges(store)
  /\ supported' = <<>>
  /\ atom' = [atom EXCEPT !.upper = FALSE, !.dirty = FALSE]

ChangeAtom(a) == Step /\ atom' = a /\ UNCHANGED <<store, supported>>

\* weakly true means true for an atom that is in no component and not frozen
Assigned(v) ==
  LET w == IF v = "weak" /\ atom.data = "trivial" /\ atom.freeze = "no" THEN "true" ELSE v
  IN IF atom.val \in {"free", w} \/ (atom.val = "weak" /\ w = "true") THEN w ELSE atom.val
AssignValue(v) == ChangeAtom([atom EXCEPT !.val = Assigned(v)])
\* the goal of an equivalent atom: its id, or the negated node in data
SetEq(id) == ChangeAtom([atom EXCEPT !.id = id, !.eq = TRUE, !.seen = TRUE])
MarkRemoved == ~IsEq /\ ChangeAtom([atom EXCEPT !.id = NoNode, !.eq = TRUE, !.seen = TRUE])
SetEqGoal(neg) == IsEq /\ ChangeAtom([atom EXCEPT !.data = IF neg THEN "goal" ELSE "unset"])
ResetId == ChangeAtom([atom EXCEPT !.id = 1, !.eq = FALSE, !.seen = FALSE])
SetScc(scc) == ~atom.eq /\ ChangeAtom([atom EXCEPT !.data = scc])
MarkFrozen(v) == ChangeAtom([atom EXCEPT !.freeze = v])
ClearFrozen == ChangeAtom([atom EXCEPT !.freeze = "no", !.dirty = TRUE])
SetFact == ChangeAtom([atom EXCEPT !.fact = TRUE])
SetInUpper == ChangeAtom([atom EXCEPT !.upper = TRUE])
AddDep(b, pos) == ChangeAtom([atom EXCEPT !.deps = Append(@, <<b, pos>>)])
\* the first occurrence is removed
RemoveDep(b, pos) ==
  /\ <<b, pos>> \in ToSet(atom.deps)
  /\ ChangeAtom([atom EXCEPT !.deps = RemoveAt(@, CHOOSE i \in DOMAIN @ :
       @[i] = <<b, pos>> /\ \A j \in 1..i - 1 : @[j] # <<b, pos>>)])
ClearDeps(which) ==
  ChangeAtom([atom EXCEPT !.deps = SelectSeq(@, LAMBDA d : which # "all" /\ d[2] # (which = "pos"))])

-----------------------------------------------------------------------------
PrgNext ==
  \/ \E e \in 1..PrgEdges : RemoveSupport(e) \/ \E simplify \in BOOLEAN : AddSupport(e, simplify)
  \/ ClearSupports
  \/ \E v \in Strong \union {"weak"} : AssignValue(v)
  \/ \E id \in {2} : SetEq(id)
  \/ MarkRemoved \/ \E neg \in BOOLEAN : SetEqGoal(neg)
  \/ ResetId
  \/ \E scc \in {"trivial", "scc"} : SetScc(scc)
  \/ \E v \in Strong \union {"free"} : MarkFrozen(v)
  \/ ClearFrozen \/ SetFact \/ SetInUpper
  \/ \E b \in Bodies, pos \in BOOLEAN : AddDep(b, pos) \/ RemoveDep(b, pos)
  \/ \E which \in {"all", "pos", "neg"} : ClearDeps(which)

-----------------------------------------------------------------------------
(* Properties *)

\* The supports of an atom are those that were added and not removed, in the
\* order in which they came, wherever the list keeps them; as long as a list
\* that had grown has not lost all of them again.
SupportsKept == ~store.emptied => Supports(store) = supported

\* What a test says of the list, that it "preserves small and large storage
\* behaviour": emptied and filled again it holds what was put into it. It also
\* holds the two edges that it kept in place before it grew.
SupportsExact == Supports(store) = supported

-----------------------------------------------------------------------------
(* The domain table *)

domVars == <<entries, merged, wanted>>

\* conditions: the literal that is always true, two others, and false
Always == 0
Never == 9
Kinds == {"level", "sign", "factor", "init", "true", "false"}
Composite(kind) == kind \in {"true", "false"}
NoBias == 32767

DomInit == entries = <<>> /\ merged = 0 /\ wanted = <<>>

-----------------------------------------------------------------------------
(* DomainTable *)

\* the initial value cannot depend on a condition, and what never applies is
\* not kept
AddModifier(e) ==
  /\ Len(wanted) < DomAdds
  /\ LET kept == e.cond # Never /\ (e.kind # "init" \/ e.cond = Always)
     IN /\ entries' = IF kept THEN Append(entries, e) ELSE entries
        /\ wanted' = IF kept THEN Append(wanted, e) ELSE wanted
  /\ UNCHANGED merged

\* the parts of a modification: true is a level and a positive sign
Parts(e) ==
  IF ~Composite(e.kind) THEN {<<e.kind, e.bias>>}
  ELSE {<<"level", e.bias>>, <<"sign", IF e.kind = "true" THEN 1 ELSE -1>>}

\* of one kind the highest priority wins, and of equals the last
BeatsLate(new, old) == new > old
Beats(new, old) == new >= old
Winner(es, kind) ==
  FoldLeft(LAMBDA w, e : IF (\E p \in Parts(e) : p[1] = kind) /\ Beats(e.prio, w.prio)
                         THEN [prio |-> e.prio,
                               bias |-> (CHOOSE p \in Parts(e) : p[1] = kind)[2]]
                         ELSE w,
           [prio |-> 0, bias |-> NoBias], es)

Entry(e, kind, w) == [e EXCEPT !.kind = kind, !.bias = w.bias, !.prio = w.prio]
\* level and sign of one priority become one modification again
MergeGroup(es) ==
  LET e == es[1]
      level == Winner(es, "level")
      sign == Winner(es, "sign")
      both == /\ level.bias # NoBias /\ sign.bias \notin {NoBias, 0} /\ level.prio = sign.prio
      rest == SelectSeq(IF both THEN <<"factor", "init">> ELSE <<"level", "sign", "factor", "init">>,
                        LAMBDA k : Winner(es, k).bias # NoBias)
  IN IF Len(es) = 1 THEN es
     ELSE (IF both THEN <<Entry(e, IF sign.bias > 0 THEN "true" ELSE "false", level)>> ELSE <<>>)
          \o [i \in DOMAIN rest |-> Entry(e, rest[i], Winner(es, rest[i]))]

\* what came since the last merge, sorted stably by condition and variable
Group(es, c, v) == SelectSeq(es, LAMBDA e : e.cond = c /\ e.var = v)
MergeAll(es) ==
  FoldLeft(LAMBDA acc, cv : LET g == Group(es, cv[1], cv[2])
                            IN IF g = <<>> THEN acc ELSE acc \o MergeGroup(g),
           <<>>, <<<<0, 1>>, <<0, 2>>, <<1, 1>>, <<1, 2>>>>)
SimplifyDomain ==
  /\ merged < Len(entries)
  /\ entries' = SubSeq(entries, 1, merged) \o MergeAll(SubSeq(entries, merged + 1, Len(entries)))
  /\ merged' = Len(entries')
  /\ UNCHANGED wanted

-----------------------------------------------------------------------------
DomNext ==
  \/ \E kind \in Kinds, bias \in {-1, 2}, prio \in {1, 2}, c \in {Always, 1} :
       AddModifier([var |-> 1, kind |-> kind, bias |-> bias, prio |-> prio, cond |-> c])
  \/ \E c \in {1, Never} : AddModifier([var |-> 2, kind |-> "true", bias |-> 2, prio |-> 1, cond |-> c])
  \/ SimplifyDomain

-----------------------------------------------------------------------------
(* Property *)

\* what a reader of the table makes of modifications: per condition, variable
\* and kind the one with the highest priority, the last of equals; only the
\* direction of a sign counts
Sgn(k, b) == IF k # "sign" \/ b = NoBias THEN b ELSE IF b > 0 THEN 1 ELSE IF b < 0 THEN -1 ELSE 0
Says(es, c, v, kind) ==
  LET hits == SelectSeq(Group(es, c, v), LAMBDA e : \E p \in Parts(e) : p[1] = kind)
      top == {i \in DOMAIN hits : \A j \in DOMAIN hits : hits[j].prio <= hits[i].prio}
      last == CHOOSE i \in top : \A j \in top : j <= i
  IN IF hits = <<>> THEN <<NoBias, 0>>
     ELSE <<Sgn(kind, (CHOOSE p \in Parts(hits[last]) : p[1] = kind)[2]), hits[last].prio>>

\* Merging the modifications of a variable loses none that would win and adds
\* none: before and after each merge, and over several, the table means what
\* was added to it.
MergeKeepsMeaning ==
  \A c \in {Always, 1}, v \in {1, 2}, kind \in {"level", "sign", "factor", "init"} :
    Says(entries, c, v, kind) = Says(wanted, c, v, kind)
=============================================================================

------------------------- MODULE ConflictAnalysis --------------------------
(***************************************************************************)
(* From a conflict to the learnt clause: the resolution to the first       *)
(* unique implication point, minimization, reverse arcs, strengthening of  *)
(* the last reason, and replacement of the literals (clasp/constraint.rs,  *)
(* Solver::analyze_conflict, simplify_conflict_clause and what they call), *)
(* and the resolution of a conflict to decisions (resolve_to_core).        *)
(*                                                                         *)
(* Only the shape of the implications matters, so the variables are        *)
(* numbered in the order of the trail and all true. A set of variables     *)
(* stands for the clause of their negations, which is false.               *)
(***************************************************************************)
EXTENDS Integers, Sequences, FiniteSets, FiniteSetsExt

CONSTANTS AnaVars,   \* variables on the trail
          AnaLevels  \* decision levels

VARIABLES imp,   \* the trail: level and reason of each variable; the reverse arc
          opts,  \* SolverStrategies of the conflict clause
          cc     \* the analysis: phase, literals, marked levels, what it gives

anaVars == <<imp, opts, cc>>

Trail == 1..Len(imp.level)
DecLevel == imp.level[Len(imp.level)]
LevelsOf(S) == {imp.level[v] : v \in S}
At(S, level) == {v \in S : imp.level[v] = level}
MaxLevel(S) == IF S = {} THEN 0 ELSE Max(LevelsOf(S))
DecisionOf(level) == CHOOSE v \in Trail : imp.level[v] = level /\ imp.why[v] = {}

NoClause == [ok |-> FALSE, lits |-> {}, lbd |-> 0, seen |-> {}]

AnaInit ==
  /\ imp = [level |-> <<1>>, why |-> <<{}>>, arc |-> <<{}, 0>>]
  /\ opts \in [antes : {"all", "short", "binary", "none"}, rec : BOOLEAN, rev : BOOLEAN,
               rep : {"none", "decision", "uip"}]
  /\ opts.rev => opts.rec /\ opts.antes = "all" /\ opts.rep = "none"
  /\ opts.rep # "none" => opts.rec = (opts.antes = "all") /\ opts.antes \in {"all", "none"}
  /\ cc = [phase |-> "build", clash |-> {}, lits |-> {}, uip |-> 0, marked |-> {}, last |-> 0,
           rhs |-> {}, assert |-> 0, lbd |-> 0, core |-> {}, flagged |-> NoClause]

\* the search: each variable is a decision or implied by earlier ones
Extend ==
  /\ cc.phase = "build" /\ Len(imp.level) < AnaVars
  /\ \/ /\ DecLevel < AnaLevels
        /\ imp' = [imp EXCEPT !.level = Append(@, DecLevel + 1), !.why = Append(@, {})]
     \/ \E R \in SUBSET Trail :
          /\ R # {}
          /\ imp' = [imp EXCEPT !.level = Append(@, DecLevel), !.why = Append(@, R)]
  /\ UNCHANGED <<opts, cc>>

\* a clause over all variables is false, and there may be one more short
\* clause, whose last literal was assigned for another reason
Clash ==
  /\ cc.phase = "build" /\ Len(imp.level) = AnaVars
  /\ \E C \in SUBSET Trail, v \in {0} \union Trail :
       /\ DecLevel \in LevelsOf(C)
       /\ \E pre \in {{}} \union {P \in SUBSET Trail : Cardinality(P) \in {1, 2} /\ v \notin P} :
            /\ (v = 0) = (pre = {})
            /\ v # 0 => opts.rev /\ imp.why[v] # pre
            /\ imp' = [imp EXCEPT !.arc = <<pre, v>>]
       /\ cc' = [cc EXCEPT !.phase = "resolve", !.clash = C, !.lits = C]
  /\ UNCHANGED opts

-----------------------------------------------------------------------------
(* analyze_conflict: back along the trail until one literal of the level   *)
(* is left; the literals of lower levels mark their levels                 *)

Pivot == Max(At(cc.lits, DecLevel))
Below(S) == {v \in S : imp.level[v] < DecLevel}

ResolveLast ==
  /\ cc.phase = "resolve" /\ Cardinality(At(cc.lits, DecLevel)) > 1
  /\ cc' = [cc EXCEPT !.lits = (@ \ {Pivot}) \union imp.why[Pivot], !.last = Pivot]
  /\ UNCHANGED <<imp, opts>>

FoundUip ==
  /\ cc.phase = "resolve" /\ Cardinality(At(cc.lits, DecLevel)) = 1
  /\ cc' = [cc EXCEPT !.phase = "minimize", !.uip = Pivot, !.lits = Below(@),
                      !.marked = LevelsOf(Below(cc.lits))]
  /\ UNCHANGED <<imp, opts>>

-----------------------------------------------------------------------------
(* simplify_conflict_clause                                                *)

\* the type of a reason: short ones are no clauses of their own
Antes(v) == CASE Cardinality(imp.why[v]) = 1 -> "binary"
              [] Cardinality(imp.why[v]) = 2 -> "short"
              [] OTHER -> "all"
Considered(v) ==
  /\ imp.why[v] # {}
  /\ \/ opts.antes = "all"
     \/ opts.antes = "short" /\ Antes(v) # "all"
     \/ opts.antes = "binary" /\ Antes(v) = "binary"

\* cc_removable: implied by the other literals, with recursion also through
\* literals that are not in the clause, as long as their level is
ImpliedDeep[v \in 1..AnaVars] ==
  /\ Considered(v)
  /\ \A r \in imp.why[v] : r \in cc.lits \/ (imp.level[r] \in cc.marked /\ ImpliedDeep[r])
RemovableByAny(v) == Considered(v) /\ \E r \in imp.why[v] : r \in cc.lits
Removable(v) ==
  IF opts.rec THEN ImpliedDeep[v]
  ELSE Considered(v) /\ imp.why[v] \subseteq cc.lits

Minimized ==
  /\ cc.phase = "minimize"
  /\ cc' = [cc EXCEPT !.phase = "reverse", !.lits = {v \in @ : ~Removable(v)}]
  /\ UNCHANGED <<imp, opts>>

\* reverse_arc: the only literal of the assertion level is resolved with a
\* clause it is the false literal of, if the others are in the clause or
\* below the level
ReversesOf(v, level) ==
  /\ imp.arc[2] = v
  /\ \A u \in imp.arc[1] : u \in cc.lits \union {cc.uip} \/ imp.level[u] < level

Reverse ==
  /\ cc.phase = "reverse"
  /\ LET level == MaxLevel(cc.lits)
         only == At(cc.lits, level)
         v == Max(only)
     IN IF opts.rev /\ Cardinality(only) = 1 /\ ReversesOf(v, level)
        THEN cc' = [cc EXCEPT !.phase = "strengthen",
                      !.lits = (@ \ {v}) \union (imp.arc[1] \ {cc.uip}),
                      !.marked = (@ \union LevelsOf(imp.arc[1] \ (cc.lits \union {cc.uip})))
                                 \ {level}]
        ELSE cc' = [cc EXCEPT !.phase = "strengthen"]
  /\ UNCHANGED <<imp, opts>>

\* the last reason is replaced by the learnt clause if that subsumes it
LastClause == IF cc.last = 0 \/ Antes(cc.last) # "all" THEN {} ELSE imp.why[cc.last]
Strengthen ==
  /\ cc.phase = "strengthen"
  /\ LET whole == cc.lits \union {cc.uip}
     IN cc' = [cc EXCEPT !.phase = "replace",
                 !.rhs = IF LastClause # {} /\ whole \subseteq LastClause THEN whole ELSE {}]
  /\ UNCHANGED <<imp, opts>>

-----------------------------------------------------------------------------
(* finalize_conflict_clause                                                *)

\* allUIP: back along the trail; a literal is kept when the next marked one is
\* on another level. The search for that one ends at the start of the level,
\* whose literal counts as found whether it is marked or not.
MarkedBelow(S, v) == {u \in S : u < v}
NextSeen(S, v) ==
  LET here == At(MarkedBelow(S, v), imp.level[v])
  IN IF here # {} THEN Max(here) ELSE DecisionOf(imp.level[v])
Replaced[S \in SUBSET (1..AnaVars)] ==
  IF S = {} THEN {}
  ELSE LET v == Max(S)
           resolve == Cardinality(S) # 1 /\ imp.why[v] # {}
       IN IF ~resolve \/ imp.level[NextSeen(S, v)] # imp.level[v]
          THEN {v} \union Replaced[S \ {v}]
          ELSE Replaced[(S \ {v}) \union imp.why[v]]
Decisions(level) == {DecisionOf(k) : k \in 1..level}

\* a clause with less than a literal per level is kept as it is
Replacing == IF Cardinality(cc.lits) < DecLevel THEN "none" ELSE opts.rep

Finalize ==
  /\ cc.phase = "replace"
  /\ LET level == MaxLevel(cc.lits)
         lits == CASE Replacing = "none" -> cc.lits
                   [] Replacing = "decision" -> Decisions(level)
                   [] Replacing = "uip" -> Replaced[cc.lits]
     IN cc' = [cc EXCEPT !.phase = "done", !.lits = lits, !.assert = level,
                 !.lbd = 1 + (IF Replacing = "none" THEN Cardinality(LevelsOf(cc.lits) \cap cc.marked)
                              ELSE Cardinality(lits))]
  /\ UNCHANGED <<imp, opts>>

\* resolve_to_core: all reasons resolved, the decisions remain
CoreOf[S \in SUBSET (1..AnaVars)] ==
  IF S = {} THEN {}
  ELSE LET v == Max(S)
       IN (IF imp.why[v] = {} THEN {v} ELSE {}) \union CoreOf[(S \ {v}) \union imp.why[v]]
ResolveToCore ==
  /\ cc.phase = "resolve" /\ cc.lits = cc.clash /\ cc.core = {}
  /\ cc' = [cc EXCEPT !.core = CoreOf[cc.clash]]
  /\ UNCHANGED <<imp, opts>>

\* resolve_to_flagged: only variables without the flags are resolved, which
\* fails at a decision; what is implied by the others is then left out
Unflagged[S \in SUBSET (1..AnaVars), F \in SUBSET (1..AnaVars)] ==
  IF S \subseteq F THEN S
  ELSE LET v == Max(S \ F) IN Unflagged[(S \ {v}) \union imp.why[v], F]
Reached(S, F) ==
  LET f[n \in 0..AnaVars] == IF n = 0 THEN S
                             ELSE f[n - 1] \union UNION {imp.why[v] : v \in f[n - 1] \ F}
  IN f[AnaVars]
ImpliedBy[S \in SUBSET (1..AnaVars), v \in 1..AnaVars] ==
  /\ imp.why[v] # {}
  /\ \A r \in imp.why[v] :
       r \in S \/ (opts.rec /\ imp.level[r] \in LevelsOf(S) /\ ImpliedBy[S, r])
\* the marks of the literals left out stay
ResolveToFlagged(F) ==
  /\ cc.phase = "resolve" /\ cc.lits = cc.clash /\ cc.flagged = NoClause
  /\ \A v \in Reached(cc.clash, F) \ F : imp.why[v] # {}
  /\ LET all == Unflagged[cc.clash, F]
         left == {v \in all : ~ImpliedBy[all, v]}
     IN cc' = [cc EXCEPT !.phase = "flagged",
                         !.flagged = [ok |-> TRUE, lits |-> left,
                                      lbd |-> Cardinality(LevelsOf(left)), seen |-> all \ left]]
  /\ UNCHANGED <<imp, opts>>

AnaNext ==
  \/ Extend \/ Clash \/ ResolveLast \/ FoundUip \/ Minimized \/ Reverse \/ Strengthen
  \/ Finalize \/ ResolveToCore
  \/ \E F \in {{v \in 1..AnaVars : v % 2 = 1}, {1, 2}} : ResolveToFlagged(F)

-----------------------------------------------------------------------------
(* Every assignment in which the reasons, the reverse arc and the false    *)
(* clause hold makes a learnt literal false: the clause says nothing new,  *)
(* whatever was removed, resolved, replaced or strengthened.               *)
Respects(M) ==
  /\ \A v \in Trail : imp.why[v] # {} /\ imp.why[v] \subseteq M => v \in M
  /\ imp.arc[1] # {} /\ imp.arc[1] \subseteq M => imp.arc[2] \in M
  /\ ~(cc.clash \subseteq M)
Implies(S) == \A M \in SUBSET Trail : Respects(M) => ~(S \subseteq M)

(* The learnt clause follows from the clauses, so does the strengthened    *)
(* reason, the core of decisions and the clause over the flagged variables;*)
(* it is asserting: one literal is of the conflict's level, the others are *)
(* of the assertion level or below; and its lbd is the number of its       *)
(* levels.                                                                 *)
LearntSound ==
  /\ cc.phase = "done" =>
       /\ Implies(cc.lits \union {cc.uip})
       /\ cc.rhs # {} => Implies(cc.rhs)
       /\ MaxLevel(cc.lits) = cc.assert /\ cc.assert < DecLevel
       /\ cc.lbd = 1 + Cardinality(LevelsOf(cc.lits))
  /\ cc.core # {} => Implies(cc.core)
  /\ cc.flagged.ok => Implies(cc.flagged.lits)
=============================================================================

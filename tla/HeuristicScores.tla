-------------------------- MODULE HeuristicScores --------------------------
(***************************************************************************)
(* The scores behind the decision heuristics: the lazily decayed           *)
(* activities of BerkMin and VMTF and their options (clasp/heuristics.rs), *)
(* and the scores and the list of literals of lookahead                    *)
(* (clasp/lookahead.rs).                                                   *)
(*                                                                         *)
(* An activity is not decayed when the global counter moves but when it is *)
(* read or bumped next, by a shift as long as the counter moved since then *)
(* (twice that in VMTF). The scores of two variables share nothing but the *)
(* counter, so one variable is modelled, beside the activity it would have *)
(* if every step of the counter were applied at once.                      *)
(***************************************************************************)
EXTENDS Integers, Sequences, SequencesExt

CONSTANTS HeuTicks,  \* bound on the steps of the global decay counter
          HeuBumps,  \* bound on the bumps of the activity
          LookVars,  \* the variables that lookahead scores are 1..LookVars
          LookCalls  \* bound on the calls of lookahead

VARIABLES heu,    \* the options of the heuristic in use
          act,    \* the score [act, occ, dec] of the variable
          decay,  \* the global decay counter
          eager,  \* the activity decayed at each step, and whether each gap was short
          used    \* steps of the counter and bumps so far

scoreVars == <<heu, act, decay, eager, used>>

-----------------------------------------------------------------------------
(* The options: BerkminConfig and VmtfConfig ::set_config.                 *)
(* `other' is auto, no, loop or all, `score' auto, min, set or multiset.   *)

AddOther(other) ==
  (IF other # "no" THEN {"loop"} ELSE {}) \union (IF other = "all" THEN {"other"} ELSE {})

SetConfigOf(kind, p) ==
  LET berk == kind = "berkmin"
      auto == IF berk THEN "multiset" ELSE "min"
      score == IF p.score = "auto" THEN auto ELSE p.score
      other == IF ~berk /\ p.other = "auto" THEN "no" ELSE p.other
  IN [kind |-> kind, huang |-> berk /\ p.huang, nant |-> p.nant, score |-> score,
      types |-> AddOther(other) \union (IF p.moms THEN {"static"} ELSE {})
                \union (IF ~berk /\ score = "min" THEN {"conflict"} ELSE {})]

Params == {[score |-> "auto", other |-> "auto", huang |-> FALSE, nant |-> TRUE, moms |-> TRUE],
           [score |-> "set", other |-> "all", huang |-> TRUE, nant |-> FALSE, moms |-> FALSE]}

-----------------------------------------------------------------------------
(* BerkminHScore::decay and VmtfVarInfo::activity_mut: shifts count modulo *)
(* the width of 32 bits                                                    *)

Quotient(n, d) == IF n < 0 THEN -((-n) \div d) ELSE n \div d

Shift(delta) == (IF heu.kind = "vmtf" THEN 2 * delta ELSE delta) % 32

DecayedAt(s, g) ==
  LET shift == Shift(IF g > s.dec THEN g - s.dec ELSE 0)
      factor == 2 ^ (IF shift > 30 THEN 30 ELSE shift)   \* either leaves nothing
  IN [act |-> s.act \div factor,
      occ |-> IF heu.huang THEN Quotient(s.occ, factor) ELSE s.occ,
      dec |-> IF g > s.dec THEN g ELSE s.dec]

Sense(sign) == IF sign THEN -1 ELSE 1

\* inc_act, after which the act of 16 bits wraps around; VMTF hands out its act
\* of 32 bits to be counted up, and has no occurrences to count
Bumped(s, sign) ==
  IF heu.kind = "vmtf" THEN [DecayedAt(s, decay) EXCEPT !.act = @ + 1]
  ELSE LET d == DecayedAt([s EXCEPT !.occ = @ + Sense(sign)], decay)
       IN [d EXCEPT !.act = (@ + 1) % 2 ^ 16]

ScoreInit ==
  /\ \E kind \in {"berkmin", "vmtf"}, p \in Params : heu = SetConfigOf(kind, p)
  /\ act = [act |-> 0, occ |-> 0, dec |-> 0]
  /\ decay = 0
  /\ eager = [act |-> 0, short |-> TRUE]
  /\ used = [ticks |-> 0, bumps |-> 0]

\* the counter moves on; the eager score follows at once
Tick ==
  /\ used.ticks < HeuTicks
  /\ decay' = decay + 1
  /\ used' = [used EXCEPT !.ticks = @ + 1]
  /\ eager' = [act |-> DecayedAt([act EXCEPT !.act = eager.act, !.dec = decay], decay + 1).act,
               short |-> /\ eager.short
                         /\ decay + 1 - act.dec < (IF heu.kind = "vmtf" THEN 16 ELSE 32)]
  /\ UNCHANGED <<heu, act>>

\* inc: a literal of a conflict; with nant only those of nants count in BerkMin
Bump ==
  /\ used.bumps < HeuBumps
  /\ \E sign, nant \in BOOLEAN :
       /\ heu.kind = "berkmin" /\ heu.nant => nant
       /\ act' = Bumped(act, sign)
  /\ eager' = [eager EXCEPT !.act = @ + 1]
  /\ used' = [used EXCEPT !.bumps = @ + 1]
  /\ UNCHANGED <<heu, decay>>

\* inc_occ: only the occurrence
IncOcc ==
  /\ heu.kind = "berkmin" /\ used.bumps < HeuBumps
  /\ \E sign \in BOOLEAN : act' = [act EXCEPT !.occ = @ + Sense(sign)]
  /\ used' = [used EXCEPT !.bumps = @ + 1]
  /\ UNCHANGED <<heu, decay, eager>>

\* compare and prefers read, and with it decay, the score
Read ==
  /\ act' = DecayedAt(act, decay)
  /\ UNCHANGED <<heu, decay, eager, used>>

\* reset_decay: every score is decayed and the count starts anew
ResetUndecayed(s) == [s EXCEPT !.dec = 0]
ResetOf(s) == [DecayedAt(s, decay) EXCEPT !.dec = 0]

ResetDecay ==
  /\ heu.kind = "berkmin"
  /\ act' = ResetOf(act)
  /\ decay' = 0
  /\ UNCHANGED <<heu, eager, used>>

ScoreNext == Tick \/ Bump \/ IncOcc \/ Read \/ ResetDecay

-----------------------------------------------------------------------------
(* ScoreLook: literals that a test of its first literal made true are      *)
(* scored by their number, bodies do not count in a lookahead on atoms     *)

VARIABLES vscore,   \* VarScore of each variable and of the sentinel 0
          deps,     \* the variables with a score to clear
          best, addDeps,
          nodes,    \* the list of lookahead: its literals from the head on
          direct    \* variables that were tested but are not candidates, or without deps

lookVars == <<vscore, deps, best, addDeps, nodes, direct>>

LookVar == 1..LookVars
LookLit == LookVar \X BOOLEAN
IsAtom(v) == v # LookVars
NoScore == [val |-> [s \in BOOLEAN |-> 0], seen |-> {}, tested |-> {}]

\* set_score and set_dep_score; a score is a number of literals, here far below
\* its cap of 14 bits
SetScore(vs, l, n) ==
  [vs EXCEPT ![l[1]].val[l[2]] = n, ![l[1]].tested = @ \union {l[2]}]

SetDepScore(vs, l, n) ==
  IF l[2] \notin vs[l[1]].seen \/ vs[l[1]].val[l[2]] > n
  THEN [vs EXCEPT ![l[1]].val[l[2]] = n, ![l[1]].seen = @ \union {l[2]}]
  ELSE vs

Larger(s) == IF s.val[TRUE] > s.val[FALSE] THEN s.val[TRUE] ELSE s.val[FALSE]
Smaller(s) == s.val[TRUE] + s.val[FALSE] - Larger(s)

\* greater in the mode ScoreMaxMin
Greater(vs, a, b) ==
  \/ Smaller(vs[a]) > Smaller(vs[b])
  \/ Smaller(vs[a]) = Smaller(vs[b]) /\ Larger(vs[a]) > Larger(vs[b])

AddDepUnseen(st, l, n) ==
  IF ~IsAtom(l[1]) THEN st
  ELSE [vs |-> SetDepScore(st.vs, l, n),
        deps |-> IF l[2] \in st.vs[l[1]].seen THEN st.deps ELSE Append(st.deps, l[1])]
AddDep(st, l, n) ==
  IF ~IsAtom(l[1]) THEN st
  ELSE [vs |-> SetDepScore(st.vs, l, n),
        deps |-> IF st.vs[l[1]].seen # {} THEN st.deps ELSE Append(st.deps, l[1])]

LookInit ==
  /\ vscore = [v \in 0..LookVars |-> NoScore]
  /\ deps = <<>>
  /\ best = 0
  /\ addDeps = TRUE
  /\ nodes = <<>>
  /\ direct = {}

ScoreLits ==
  \E first \in LookLit, more \in SUBSET LookLit :
    /\ \A l \in more : l[1] # first[1] /\ <<l[1], ~l[2]>> \notin more
    /\ LET lits == <<first>> \o SetToSeq(more)
           n == Len(lits)
           tested == SetScore(vscore, first, n)
           st == FoldLeft(LAMBDA s, l : AddDep(s, l, n), [vs |-> tested, deps |-> deps], lits)
           v == first[1]
       IN IF addDeps
          THEN /\ best' = IF tested[v].tested = BOOLEAN /\ Greater(tested, v, best)
                          THEN v ELSE best
               /\ vscore' = st.vs
               /\ deps' = st.deps
               /\ direct' = IF IsAtom(v) THEN direct ELSE direct \union {v}
          ELSE vscore' = tested /\ direct' = direct \union {v} /\ UNCHANGED <<deps, best>>
    /\ UNCHANGED <<addDeps, nodes>>

SetAddDeps == addDeps' = ~addDeps /\ UNCHANGED <<vscore, deps, best, nodes, direct>>

ClearedDeps ==
  /\ vscore' = [v \in DOMAIN vscore |-> IF v \in ToSet(deps) THEN NoScore ELSE vscore[v]]
  /\ deps' = <<>>
  /\ best' = 0

ClearDeps ==
  /\ ClearedDeps
  /\ direct' = direct \ ToSet(deps)
  /\ UNCHANGED <<addDeps, nodes>>

\* Lookahead::append flags a literal of which both signs are to be tested
AppendNode ==
  /\ Len(nodes) < LookCalls
  /\ \E l \in LookLit, both \in BOOLEAN : nodes' = Append(nodes, <<l, both>>)
  /\ UNCHANGED <<vscore, deps, best, addDeps, direct>>

\* Lookahead::clear
ClearLook ==
  /\ ClearedDeps
  /\ nodes' = <<>>
  /\ direct' = direct \ ToSet(deps)
  /\ UNCHANGED addDeps

LookNext == ScoreLits \/ SetAddDeps \/ ClearDeps \/ AppendNode \/ ClearLook

-----------------------------------------------------------------------------
(* Decaying late is decaying at once, as long as a score is touched before *)
(* the shift of 32 bits runs over (32 steps in BerkMin, 16 in VMTF, where  *)
(* the shift starts anew at 0 and the score escapes its decay), also       *)
(* across a reset of the counter.                                          *)
DecayExact ==
  eager.short => DecayedAt(act, decay).act = eager.act

(* clear_deps forgets every score: each variable with a mark is queued for *)
(* clearing, once, but for those that were tested with dependencies off or *)
(* whose type lookahead does not look at; their scores outlive a clear.    *)
LookForgets ==
  /\ IsInjective(deps)
  /\ ToSet(deps) = {v \in LookVar : vscore[v].seen # {}}
  /\ \A v \in LookVar : vscore[v] # NoScore => v \in ToSet(deps) \union direct
=============================================================================

---------------------------- MODULE SatPreprocess ----------------------------
(***************************************************************************)
(* The way of clauses through SatPreprocessor into the solver              *)
(* (clasp/asp_preprocessor.rs), with simplify and add_to of SatPreClause   *)
(* (clasp/satelite.rs). The hooks of a preprocessor proper leave clauses   *)
(* and models as they are in this code; extend_model, which then only      *)
(* walks over the literals that are open, is left out.                     *)
(*                                                                         *)
(* A literal is v or -v, a clause a sequence of literals of different      *)
(* variables, in their order. The solver is its top level: true literals,  *)
(* clauses, and unit propagation.                                          *)
(***************************************************************************)
EXTENDS Integers, Sequences, FiniteSets, SequencesExt

CONSTANTS PreVars,     \* variables
          PreClauses   \* bound on the clauses given to the preprocessor

VARIABLES pre,      \* SatPreprocessor: clauses, units, attached, variables seen
          preCtx,   \* the context: variables, true and frozen ones, clauses of the solver
          preGiven, \* the clauses that were given
          preLast   \* variables the last call had to freeze, and those there were then

preVars == <<pre, preCtx, preGiven, preLast>>

Abs(n) == IF n < 0 THEN -n ELSE n
Lits == (1..PreVars) \cup {-v : v \in 1..PreVars}
Clauses == {c \in UNION {[1..k -> Lits] : k \in 1..PreVars} :
              \A i, j \in DOMAIN c : i < j => Abs(c[i]) < Abs(c[j])}
AsSet(c) == {c[i] : i \in DOMAIN c}

PreInit ==
  /\ pre = [clauses |-> <<>>, units |-> <<>>, attached |-> 0, lo |-> 1, hi |-> 1]
  /\ preCtx = [vars |-> 1, true |-> {}, frozen |-> {}, db |-> {}, end |-> "ok"]
  /\ preGiven = {}
  /\ preLast = [freeze |-> {}, old |-> {}]

AddPreVar ==
  /\ preCtx.vars < PreVars
  /\ preCtx' = [preCtx EXCEPT !.vars = @ + 1]
  /\ UNCHANGED <<pre, preGiven, preLast>>

\* add_clause: a single literal waits as a unit
AddPreClause ==
  /\ Cardinality(preGiven) < PreClauses
  /\ \E c \in Clauses :
       /\ AsSet(c) \notin preGiven /\ \A i \in DOMAIN c : Abs(c[i]) <= preCtx.vars
       /\ pre' = IF Len(c) > 1 THEN [pre EXCEPT !.clauses = Append(@, c)]
                 ELSE [pre EXCEPT !.units = Append(@, c[1])]
       /\ preGiven' = preGiven \cup {AsSet(c)}
  /\ UNCHANGED <<preCtx, preLast>>

\* the solver: a fact, and unit propagation
Unary(ctx, l) ==
  IF -l \in ctx.true THEN [ctx EXCEPT !.end = "conflict"] ELSE [ctx EXCEPT !.true = @ \cup {l}]
Implied(ctx) ==
  {l \in Lits : \E c \in ctx.db : l \in c /\ \A k \in c \ {l} : -k \in ctx.true}
Closed[ctx \in [vars : 0..PreVars, true : SUBSET Lits, frozen : SUBSET (1..PreVars),
                db : SUBSET SUBSET Lits, end : {"ok", "conflict", "panic"}]] ==
  LET more == Implied(ctx) \ ctx.true
  IN IF ctx.end # "ok" THEN ctx
     ELSE IF \E l \in ctx.true \cup more : -l \in ctx.true \cup more
          THEN [ctx EXCEPT !.end = "conflict"]
     ELSE IF more = {} THEN ctx ELSE Closed[[ctx EXCEPT !.true = @ \cup more]]

AddUnits(p, ctx) ==
  LET Add(c, l) == IF c.end = "ok" THEN Unary(c, l) ELSE c
      end == FoldLeft(Add, ctx, p.units)
  IN [p |-> IF end.end = "ok" THEN [p EXCEPT !.units = <<>>] ELSE p, ctx |-> end]

\* SatPreClause::simplify: a true literal comes to the front, false ones go
Simplified(c, top) ==
  IF \E i \in DOMAIN c : c[i] \in top THEN SelectSeq(c, LAMBDA l : l \in top)
  ELSE SelectSeq(c, LAMBDA l : -l \notin top)
Stays(c, top) == Len(c) > 1 /\ c[1] \notin top

\* a clause that does not stay has its first literal made true - also if there
\* is none
AttachClauses(p, ctx) ==
  LET One(st, c) ==
        LET s == Simplified(c, st.ctx.true)
        IN IF st.ctx.end # "ok" THEN st
           ELSE IF Stays(s, st.ctx.true) THEN [st EXCEPT !.kept = Append(@, s)]
           ELSE IF s = <<>> THEN [st EXCEPT !.ctx.end = "panic"]
           ELSE [st EXCEPT !.ctx = Unary(st.ctx, s[1])]
      end == FoldLeft(One, [ctx |-> ctx, kept |-> SubSeq(p.clauses, 1, p.attached)],
                      SubSeq(p.clauses, p.attached + 1, Len(p.clauses)))
  IN [ctx |-> end.ctx,
      p |-> [p EXCEPT !.clauses = end.kept,
                      !.attached = IF end.ctx.end = "ok" THEN Len(end.kept) ELSE @]]

\* freeze_seen: from the variable the last call ended at to those that were
\* there when the last step was finished
FreezeFromHi(p) == p.hi
FreezeFrom(p) == p.lo
FreezeSeen(p, ctx) ==
  LET hi == IF p.hi > ctx.vars THEN ctx.vars + 1 ELSE p.hi
      lo == IF FreezeFrom(p) > ctx.vars THEN 1 ELSE FreezeFrom(p)
  IN [p |-> [p EXCEPT !.lo = hi, !.hi = hi],
      ctx |-> [ctx EXCEPT !.frozen = @ \cup (lo..hi - 1)]]

\* the clauses go to the solver
AddTo(ctx, c) ==
  LET s == Simplified(c, ctx.true)
  IN IF ctx.end # "ok" \/ \E i \in DOMAIN s : s[i] \in ctx.true THEN ctx
     ELSE IF s = <<>> THEN [ctx EXCEPT !.end = "conflict"]
     ELSE IF Len(s) = 1 THEN Unary(ctx, s[1]) ELSE [ctx EXCEPT !.db = @ \cup {AsSet(s)}]

\* finish
Finished(p, ctx) ==
  [p EXCEPT !.clauses = <<>>, !.units = <<>>, !.attached = 0, !.hi = ctx.vars + 1]

\* preprocess; `run' says that the options ask for it and no limit forbids it
Preprocess(run) ==
  LET units == AddUnits(pre, preCtx)
      top == Closed[units.ctx]
      seen == FreezeSeen(units.p, top)
      att == IF run /\ top.end = "ok" THEN AttachClauses(seen.p, seen.ctx)
             ELSE [p |-> units.p, ctx |-> top]
      end == FoldLeft(AddTo, Closed[att.ctx], att.p.clauses)
  IN /\ preCtx.end = "ok"
     /\ pre' = Finished(att.p, end)
     /\ preCtx' = end
     /\ preLast' = [freeze |-> IF run /\ top.end = "ok" THEN preLast.old ELSE {},
                    old |-> 1..end.vars]
     /\ UNCHANGED preGiven

\* propagate: units and clauses that came since
PrePropagate ==
  LET units == AddUnits(pre, preCtx)
      top == Closed[units.ctx]
      att == IF top.end = "ok" THEN AttachClauses(units.p, top) ELSE [p |-> units.p, ctx |-> top]
  IN /\ preCtx.end = "ok"
     /\ pre' = att.p /\ preCtx' = att.ctx
     /\ UNCHANGED <<preGiven, preLast>>

PreNext ==
  \/ preCtx.end = "ok" /\ (AddPreVar \/ AddPreClause)
  \/ \E run \in BOOLEAN : Preprocess(run)
  \/ PrePropagate

-----------------------------------------------------------------------------
Models(cs) == {m \in [1..PreVars -> {-1, 1}] : \A c \in cs : \E l \in c : m[Abs(l)] * l > 0}

(* What preprocessing hands over, together with what is true and what      *)
(* still waits, has the models of the clauses that were given; it fails    *)
(* only if there are none; and once it has run, the variables of earlier   *)
(* steps are frozen, whichever steps went without it.                      *)
PreprocessKeeps ==
  LET waits == {AsSet(pre.clauses[i]) : i \in DOMAIN pre.clauses} \cup {{l} : l \in AsSet(pre.units)}
      handed == preCtx.db \cup {{l} : l \in preCtx.true}
      all == Models(preGiven)
  IN /\ IF preCtx.end = "ok" THEN Models(waits \cup handed) = all ELSE all = {}
     /\ preLast.freeze \subseteq preCtx.frozen

(* A call comes back: with clauses that cannot hold it returns false.      *)
PreprocessReturns == preCtx.end # "panic"
=============================================================================

--------------------------- MODULE SmodelsConvert ---------------------------
(***************************************************************************)
(* SmodelsConvert: an abstract program is rewritten, step by step, into one*)
(* in the smodels format, which has no terms, no conditions on directives  *)
(* and one symbol table for everything that is shown. Atoms are renumbered *)
(* on first use, conditions get auxiliary atoms, and terms, edges and      *)
(* heuristics become names of such atoms. Externals, heuristics, minimize  *)
(* statements and symbols are collected and written when the step ends.    *)
(***************************************************************************)
EXTENDS Integers, Sequences, FiniteSets, SequencesExt, FiniteSetsExt

CONSTANTS
  SmAtoms,   \* atoms 1..SmAtoms of the input
  SmOps,     \* bound on the input over all steps: a statement that shows an
             \* atom or a term counts 2, any other 3
  SmSteps    \* steps

VARIABLES sm, outp, given

smVars == <<sm, outp, given>>

FalseAtom == 1
InAtoms == 1..SmAtoms
NoAtom == [sm |-> 0, head |-> FALSE, show |-> FALSE, ext |-> "none"]

(* sm: the converter, clasp: with the extensions of clasp; an operation    *)
(* that fails its check panics and leaves it so. outp: what it has written:*)
(* rules, minimize statements, externals, symbols, assumptions, and the    *)
(* directives it passed on as they are. given: what it was given, and the  *)
(* step in which an atom got its first rule.                               *)
SmInit ==
  /\ \E ext \in BOOLEAN :
       sm = [atoms |-> [a \in InAtoms |-> NoAtom], next |-> FalseAtom + 1, names |-> {},
             term |-> [def |-> FALSE, atom |-> 0, last |-> 0],
             exts |-> <<>>, heus |-> <<>>, mins |-> <<>>, syms |-> <<>>,
             open |-> FALSE, steps |-> 0, ops |-> 0, clasp |-> ext, panicked |-> FALSE]
  /\ outp = [rules |-> <<>>, mins |-> {}, exts |-> <<>>, syms |-> <<>>, assumed |-> <<>>,
             heus |-> {}, edges |-> {}]
  /\ given = [rules |-> <<>>, headed |-> [a \in InAtoms |-> 0], mins |-> {}, exts |-> <<>>,
              shown |-> {}, conds |-> {}, edges |-> {}, heus |-> {}]

(* A body is a sequence of weighted literals and a bound; a normal body    *)
(* has weights and bound as below.                                         *)
WLit(l, w) == <<l, w>>
Body(lits) == [lits |-> [i \in DOMAIN lits |-> WLit(lits[i], 1)], bound |-> Len(lits)]
NewRule(type, head, body) == [type |-> type, head |-> head, body |-> body]

(***************************************************************************)
(* The mapping of atoms. The operators take and return the pair of         *)
(* converter and output.                                                   *)
(***************************************************************************)
Abs(l) == IF l < 0 THEN -l ELSE l

MapAtom(c, a) ==
  IF c.atoms[a].sm # 0 THEN c
  ELSE [c EXCEPT !.atoms[a].sm = c.next, !.next = @ + 1]
MapAll(c, lits) == FoldLeft(LAMBDA d, l : MapAtom(d, Abs(l)), c, lits)
MapHead(c, head) == FoldLeft(LAMBDA d, a : [MapAtom(d, a) EXCEPT !.atoms[a].head = TRUE], c, head)

SmLit(c, l) == IF l < 0 THEN -c.atoms[-l].sm ELSE c.atoms[l].sm
SmHead(c, head) == IF head = <<>> THEN {FalseAtom} ELSE {c.atoms[head[i]].sm : i \in DOMAIN head}
SmBody(c, b) == [b EXCEPT !.lits = [i \in DOMAIN b.lits |-> WLit(SmLit(c, b.lits[i][1]), b.lits[i][2])]]
LitsIn(b) == [i \in DOMAIN b.lits |-> b.lits[i][1]]

\* A shown name: its kind, and the atom a heuristic is about.
Sym(kind) == <<kind, 0>>

Write(o, r) == [o EXCEPT !.rules = Append(@, r)]

(* make_atom: a single positive literal stands for itself, unless it has a *)
(* name already and is to get one; any other condition gets a new atom.    *)
\* Slip: the name an atom has already is not looked at.
MakesNewOnlyForBodies(c, lits, last, named) == Len(lits) # 1 \/ last # 0 \/ lits[1] < 0

MakesNew(c, lits, last, named) ==
  \/ Len(lits) + (IF last # 0 THEN 1 ELSE 0) # 1
  \/ lits = <<>> \/ lits[1] < 0
  \/ named /\ c.atoms[lits[1]].show

MakeAtom(c, o, lits, last, named) ==
  IF MakesNew(c, lits, last, named)
  THEN LET d == MapAll([c EXCEPT !.next = @ + 1], lits)
           goals == [i \in DOMAIN lits |-> SmLit(d, lits[i])] \o (IF last = 0 THEN <<>> ELSE <<-last>>)
       IN  [c |-> d, o |-> Write(o, NewRule("disj", {c.next}, Body(goals))), atom |-> c.next]
  ELSE LET d == MapAtom(c, lits[1])
       IN  [c |-> [d EXCEPT !.atoms[lits[1]].show = named], o |-> o, atom |-> d.atoms[lits[1]].sm]

(***************************************************************************)
(* The statements of a step.                                               *)
(***************************************************************************)
Naming == 2
Other == 3
Statement(weight) == sm.open /\ ~sm.panicked /\ sm.ops + weight <= SmOps
Count(c, weight) == [c EXCEPT !.ops = @ + weight]
Given(rule) ==
  [given EXCEPT
     !.rules = Append(@, rule),
     !.headed = [a \in InAtoms |-> IF @[a] = 0 /\ Contains(rule.head, a) THEN sm.steps ELSE @[a]]]

(* A choice without a head says nothing. *)
Rule ==
  /\ Statement(Other)
  /\ \E type \in {"disj", "choice"}, head \in {<<>>, <<1>>, <<1, 2>>}, body \in {<<>>, <<2, -1>>} :
       LET c == MapAll(MapHead(sm, head), body)
           void == head = <<>> /\ type = "choice"
       IN  /\ sm' = Count(IF void THEN sm ELSE c, Other)
           /\ outp' = IF void THEN outp ELSE Write(outp, NewRule(type, SmHead(c, head), SmBody(c, Body(body))))
           /\ given' = IF void THEN given ELSE Given(NewRule(type, head, Body(body)))

(* A weighted body is only written with one disjunctive head atom; other   *)
(* heads get an auxiliary atom for it. A bound that always holds goes.     *)
RuleWeighted ==
  /\ Statement(Other)
  /\ \E type \in {"disj", "choice"}, head \in {<<>>, <<2>>, <<1, 2>>}, bound \in {0, 2} :
       LET body == [lits |-> <<WLit(1, 2), WLit(-2, 1)>>, bound |-> bound]
           c == MapHead(sm, head)
           d == MapAll(c, LitsIn(body))
           single == type = "disj" /\ Len(head) <= 1
           aux == Write(outp, NewRule("disj", {d.next}, SmBody(d, body)))
       IN  /\ head # <<>> \/ type = "disj"
           /\ sm' = Count(IF bound = 0 THEN c ELSE IF single THEN d ELSE [d EXCEPT !.next = @ + 1], Other)
           /\ outp' = IF bound = 0 THEN Write(outp, NewRule(type, SmHead(c, head), Body(<<>>)))
                      ELSE IF single THEN Write(outp, NewRule(type, SmHead(d, head), SmBody(d, body)))
                      ELSE Write(aux, NewRule(type, SmHead(d, head), Body(<<d.next>>)))
           /\ given' = Given(NewRule(type, head, body))

(* Negative weights are turned around; literals are mapped when the step   *)
(* ends.                                                                   *)
\* Slip: the weight is turned around, the literal is not.
PositiveSameLit(wl) == IF wl[2] < 0 THEN WLit(wl[1], -wl[2]) ELSE wl

Positive(wl) == IF wl[2] < 0 THEN WLit(-wl[1], -wl[2]) ELSE wl
Minimize ==
  /\ Statement(Other)
  /\ \E prio \in {0, 1}, w \in {1, -2} :
       /\ sm' = Count([sm EXCEPT !.mins = Append(@, <<prio, Positive(WLit(1, w))>>)], Other)
       /\ given' = [given EXCEPT !.mins = @ \cup {<<sm.steps, prio, Len(sm.mins), WLit(1, w)>>}]
  /\ UNCHANGED outp

(* output_atom. An atom is not given two names for one meaning of it, and  *)
(* a second one in the table of names is refused: that happens when the    *)
(* condition of a term has made the converter forget that it is shown.     *)
Named(c, n) == \E x \in c.names : x[1] = n
Refused(c, n, name) == \E x \in c.names : x[1] = n /\ x[2] # name
AddOutput(c, n, name) ==
  IF Named(c, n) THEN c ELSE [c EXCEPT !.names = @ \cup {<<n, name>>}, !.syms = Append(@, <<n, Sym(name)>>)]
OutputAtom ==
  /\ Statement(Naming)
  /\ \E a \in InAtoms, name \in {"x", "y"} :
       LET r == MakeAtom(sm, outp, <<a>>, 0, TRUE)
       IN  /\ outp' = r.o
           /\ IF Refused(r.c, r.atom, name)
              THEN /\ sm' = [Count(r.c, Naming) EXCEPT !.panicked = TRUE]
                   /\ UNCHANGED given
              ELSE /\ sm' = Count(AddOutput(r.c, r.atom, name), Naming)
                   /\ given' = [given EXCEPT !.shown = @ \cup {<<a, name>>}]

(* output_term, output: the term is an atom of its own in each step, true  *)
(* by any of its conditions, unless it was true in the step it was output  *)
(* in before. It is defined first, if at all.                              *)
DefineTerm ==
  /\ Statement(0) /\ ~sm.term.def /\ sm.ops = 0
  /\ sm' = [sm EXCEPT !.term.def = TRUE] /\ UNCHANGED <<outp, given>>

TermAtom(c) ==
  IF c.term.atom # 0 THEN c
  ELSE [c EXCEPT !.term.atom = c.next, !.next = @ + 1, !.syms = Append(@, <<c.next, Sym("term")>>)]
Output ==
  /\ Statement(Naming) /\ sm.term.def
  /\ \E cond \in {<<>>, <<1>>, <<-1>>} :
       LET r == MakeAtom(sm, outp, cond, sm.term.last, FALSE)
           c == TermAtom(r.c)
       IN  /\ sm' = Count(c, Naming)
           /\ outp' = Write(r.o, NewRule("disj", {c.term.atom}, Body(<<r.atom>>)))
           /\ given' = [given EXCEPT !.conds = @ \cup {cond}]

\* Slip: an atom with a rule can be made external.
AddExternalAlways(c, a, v) ==
  [MapAtom(c, a) EXCEPT !.atoms[a].ext = v, !.exts = Append(@, a)]

AddExternal(c, a, v) ==
  LET d == MapAtom(c, a)
  IN  IF d.atoms[a].head THEN d ELSE [d EXCEPT !.atoms[a].ext = v, !.exts = Append(@, a)]
External ==
  /\ Statement(Other)
  /\ \E v \in {"free", "true", "false"} :
       /\ sm' = Count(AddExternal(sm, 1, v), Other)
       /\ given' = IF given.headed[1] # 0 THEN given
                   ELSE [given EXCEPT !.exts = Append(@, <<sm.steps, 1, v>>)]
  /\ UNCHANGED outp

(* Heuristics and edges are also passed on as they are, with the atoms of  *)
(* the input, if the extensions are off.                                   *)
Heuristic ==
  /\ Statement(Other)
  /\ \E a \in InAtoms, cond \in {<<2>>, <<-1>>} :
       LET passed == IF sm.clasp THEN outp ELSE [outp EXCEPT !.heus = @ \cup {<<a, cond>>}]
           r == MakeAtom(sm, passed, cond, 0, TRUE)
       IN  /\ sm' = Count([r.c EXCEPT !.heus = Append(@, <<a, r.atom>>)], Other)
           /\ outp' = r.o
           /\ given' = [given EXCEPT !.heus = @ \cup {<<a, cond, sm.steps>>}]

AcycEdge ==
  /\ Statement(Other)
  /\ \E cond \in {<<1>>, <<-2>>} :
       LET passed == IF sm.clasp THEN outp ELSE [outp EXCEPT !.edges = @ \cup {cond}]
           r == MakeAtom(sm, passed, cond, 0, TRUE)
       IN  /\ sm' = Count([r.c EXCEPT !.syms = Append(@, <<r.atom, Sym("edge")>>)], Other)
           /\ outp' = r.o
           /\ given' = [given EXCEPT !.edges = @ \cup {cond}]

\* Slip: the atom of the step before is forgotten.
StepTermForgets(t) == [t EXCEPT !.atom = 0]

StepTerm(t) == IF t.atom = 0 THEN t ELSE [t EXCEPT !.last = t.atom, !.atom = 0]
BeginStep ==
  /\ ~sm.open /\ sm.steps < SmSteps
  /\ sm' = [sm EXCEPT !.open = TRUE, !.steps = @ + 1, !.term = StepTerm(@)]
  /\ UNCHANGED <<outp, given>>

(***************************************************************************)
(* flush, at the end of the step.                                          *)
(***************************************************************************)
(* One minimize statement per priority.                                    *)
FlushMinimize(s) ==
  LET c == MapAll(s.c, [i \in DOMAIN s.c.mins |-> s.c.mins[i][2][1]])
      lits(p) == {<<i, SmLit(c, c.mins[i][2][1]), c.mins[i][2][2]>> : i \in {j \in DOMAIN c.mins : c.mins[j][1] = p}}
      prios == {c.mins[i][1] : i \in DOMAIN c.mins}
  IN  [c |-> c, o |-> [s.o EXCEPT !.mins = @ \cup {<<c.steps, p, lits(p)>> : p \in prios}]]

(* Externals: a directive, or for plain smodels a choice for the free ones *)
(* and a fact for the true ones, unless the atom got a rule meanwhile.     *)
FlushExternal(s) ==
  LET c == s.c
      of(v) == SelectSeq(c.exts, LAMBDA a : c.atoms[a].ext = v /\ ~c.atoms[a].head)
      facts == FoldLeft(LAMBDA o, a : Write(o, NewRule("disj", {c.atoms[a].sm}, Body(<<>>))), s.o, of("true"))
  IN  IF c.clasp
      THEN [s EXCEPT !.o.exts = @ \o [i \in DOMAIN c.exts |-> <<c.atoms[c.exts[i]].sm, c.atoms[c.exts[i]].ext>>]]
      ELSE [s EXCEPT !.o = IF of("free") = <<>> THEN facts
                           ELSE Write(facts, NewRule("choice", SmHead(c, of("free")), Body(<<>>)))]

(* Heuristics: the atom they are about needs a name, and gets one.         *)
\* Slip: it gets none.
HeuristicNameless(s, h) ==
  IF s.c.atoms[h[1]].sm = 0 THEN s
  ELSE [s EXCEPT !.o.syms = Append(@, <<h[2], <<"heuristic", s.c.atoms[h[1]].sm>>>>)]

HeuristicName(s, h) ==
  IF s.c.atoms[h[1]].sm = 0 THEN s
  ELSE LET n == s.c.atoms[h[1]].sm
           c == IF Named(s.c, n) THEN s.c
                ELSE AddOutput([s.c EXCEPT !.atoms[h[1]].show = TRUE], n, "_atom")
       IN  [c |-> c, o |-> [s.o EXCEPT !.syms = Append(@, <<h[2], <<"heuristic", n>>>>)]]
FlushHeuristic(s) == FoldLeft(HeuristicName, s, s.c.heus)

FlushSymbols(s) == [s EXCEPT !.o.syms = @ \o SortSeq(s.c.syms, LAMBDA x, y : x[1] < y[1])]

EndStep ==
  /\ sm.open /\ ~sm.panicked
  /\ LET f == FlushSymbols(FlushHeuristic(FlushExternal(FlushMinimize([c |-> sm, o |-> outp]))))
     IN  /\ sm' = [f.c EXCEPT !.open = FALSE, !.exts = <<>>, !.heus = <<>>, !.mins = <<>>, !.syms = <<>>]
         /\ outp' = [f.o EXCEPT !.assumed = Append(@, <<-FalseAtom>>)]
  /\ UNCHANGED given

SmNext ==
  \/ BeginStep \/ EndStep
  \/ Rule \/ RuleWeighted \/ Minimize \/ OutputAtom \/ DefineTerm \/ Output
  \/ External \/ Heuristic \/ AcycEdge

(***************************************************************************)
(* Properties. A set A of the input's atoms that are true fixes the truth  *)
(* of every atom written: those that stand for one of the input have its   *)
(* value, auxiliary ones are true by one of their rules. A world is such a *)
(* set and the set of written atoms that are true with it.                 *)
(***************************************************************************)
LitTrue(T, l) == IF l > 0 THEN l \in T ELSE -l \notin T
SumOf(f) == FoldLeft(LAMBDA n, x : n + x, 0, f)
Holds(T, b) == SumOf([i \in DOMAIN b.lits |-> IF LitTrue(T, b.lits[i][1]) THEN b.lits[i][2] ELSE 0]) >= b.bound

SourceOf(n) == {a \in InAtoms : sm.atoms[a].sm = n}
OutTrue(A) ==
  LET T[n \in 1..sm.next - 1] ==
        IF SourceOf(n) # {} THEN SourceOf(n) \cap A # {}
        ELSE \E i \in DOMAIN outp.rules :
               /\ outp.rules[i].head = {n} /\ n # FalseAtom
               /\ LET b == outp.rules[i].body
                  IN  SumOf([j \in DOMAIN b.lits |->
                        IF (IF b.lits[j][1] > 0 THEN T[b.lits[j][1]] ELSE ~T[-b.lits[j][1]])
                        THEN b.lits[j][2] ELSE 0]) >= b.bound
  IN  {n \in 1..sm.next - 1 : T[n]}
Worlds == {[given |-> A, out |-> OutTrue(A)] : A \in SUBSET InAtoms}

Symbols(name) == {s[1] : s \in {x \in ToSet(outp.syms) : x[2] = Sym(name)}}
TrueNames(w, name) == Symbols(name) \cap w.out
AnyHolds(w, conds) == \E c \in conds : Holds(w.given, Body(c))

(* The converted program shows what the given one shows: under every       *)
(* assignment a name, a term or an edge is true exactly if one of its      *)
(* atoms or conditions, given in whatever step, is, and a term is not true *)
(* again in the step after. No atom has two names, but for those of        *)
(* heuristics and of terms' conditions, and nothing is refused but an atom *)
(* that has been such a condition.                                         *)
KindOf(s) == s[2][1]
TermConds == {a \in InAtoms : <<a>> \in given.conds}
TermsFollow(w) ==
  \A n, m \in TrueNames(w, "term") : n < m => \E k \in Symbols("term") : n < k /\ k < m
ShownExactly ==
  /\ ~sm.open =>
       /\ \A w \in Worlds :
            /\ \A name \in {"x", "y"} :
                 TrueNames(w, name) # {} <=> \E s \in given.shown : s[1] \in w.given /\ s[2] = name
            /\ TrueNames(w, "term") # {} <=> AnyHolds(w, given.conds)
            /\ TermsFollow(w)
            /\ TrueNames(w, "edge") # {} <=> AnyHolds(w, given.edges)
       /\ \A i, j \in DOMAIN outp.syms :
            outp.syms[i][1] = outp.syms[j][1] /\ outp.syms[i][2] # outp.syms[j][2] =>
              \/ {KindOf(outp.syms[i]), KindOf(outp.syms[j])} \cap {"heuristic", "_atom"} # {}
              \/ SourceOf(outp.syms[i][1]) \cap TermConds # {}
  /\ sm.panicked => \E a \in TermConds : Named(sm, sm.atoms[a].sm)

(* What does not hold: that the table of names never refuses a name, and   *)
(* that a term is shown once, which a third step that outputs it breaks.   *)
NamesTaken == ~sm.panicked
TermOnce == ~sm.open => \A w \in Worlds : Cardinality(TrueNames(w, "term")) <= 1

(* An external has the value it was given last while it had no rule: with  *)
(* the extensions by the last directive written for it, without them by a  *)
(* choice or a fact, for each step that ended before it got a rule.        *)
WrittenRule(a, type) ==
  \E i \in DOMAIN outp.rules :
    /\ outp.rules[i].type = type /\ outp.rules[i].body.bound = 0
    /\ IF type = "disj" THEN outp.rules[i].head = {sm.atoms[a].sm} ELSE sm.atoms[a].sm \in outp.rules[i].head
GivenRule(a, type) ==
  \E i \in DOMAIN given.rules :
    /\ given.rules[i].type = type /\ given.rules[i].body.bound = 0
    /\ IF type = "disj" THEN given.rules[i].head = <<a>> ELSE Contains(given.rules[i].head, a)
ValuesIn(a, steps) ==
  {Last(SelectSeq(given.exts, LAMBDA x : x[1] = s /\ x[2] = a))[3] :
     s \in {t \in steps : \E i \in DOMAIN given.exts : given.exts[i][1] = t /\ given.exts[i][2] = a}}
ExternalsKept ==
  ~sm.open => \A a \in InAtoms :
    LET directives == SelectSeq(outp.exts, LAMBDA x : x[1] = sm.atoms[a].sm)
        asked == SelectSeq(given.exts, LAMBDA x : x[2] = a)
        values == ValuesIn(a, {s \in 1..sm.steps : given.headed[a] \in {0} \cup s+1..SmSteps})
    IN  IF sm.clasp
        THEN /\ directives = <<>> <=> asked = <<>>
             /\ asked # <<>> => Last(directives)[2] = Last(asked)[3]
        ELSE /\ directives = <<>>
             /\ WrittenRule(a, "disj") <=> GivenRule(a, "disj") \/ "true" \in values
             /\ WrittenRule(a, "choice") <=> GivenRule(a, "choice") \/ "free" \in values

(* A heuristic becomes a predicate that is true exactly if its condition   *)
(* is, about an atom that has a name by then, if its atom occurs anywhere; *)
(* no predicate is about anything else. Without the extensions heuristics  *)
(* and edges are passed on besides.                                        *)
Modifies(s, h, worlds) ==
  /\ s[2] = <<"heuristic", sm.atoms[h[1]].sm>>
  /\ \A w \in worlds : s[1] \in w.out <=> Holds(w.given, Body(h[2]))
HeuristicsKept ==
  ~sm.open =>
    /\ LET worlds == Worlds
           mapped(h) == sm.atoms[h[1]].sm
       IN  /\ \A h \in given.heus :
                h[3] = sm.steps /\ mapped(h) # 0 =>
                  /\ \E s \in ToSet(outp.syms) : Modifies(s, h, worlds)
                  /\ \E s \in ToSet(outp.syms) : s[1] = mapped(h) /\ KindOf(s) \in {"x", "y", "_atom"}
           /\ \A s \in ToSet(outp.syms) :
                KindOf(s) = "heuristic" => \E h \in given.heus : Modifies(s, h, worlds)
    /\ outp.heus = IF sm.clasp THEN {} ELSE {<<h[1], h[2]>> : h \in given.heus}
    /\ outp.edges = IF sm.clasp THEN {} ELSE given.edges

(* Every rule is there, under its own head and with a body that means the  *)
(* same, and what an assignment costs differs from what it cost in the     *)
(* given minimize statements by a constant. Constraints have a head, too,  *)
(* which every step assumes to be false.                                   *)
CostOf(terms, T) == FoldSet(LAMBDA m, n : n + IF LitTrue(T, m[2]) THEN m[3] ELSE 0, 0, terms)
CostKept ==
  \A s \in 1..(IF sm.open THEN sm.steps - 1 ELSE sm.steps), p \in {0, 1} :
    LET terms == {<<m[3], m[4][1], m[4][2]>> : m \in {x \in given.mins : x[1] = s /\ x[2] = p}}
        stmt == UNION {m[3] : m \in {x \in outp.mins : x[1] = s /\ x[2] = p}}
    IN  Cardinality({CostOf(stmt, w.out) - CostOf(terms, w.given) : w \in Worlds}) = 1
RulesKept ==
  /\ given.mins # {} => CostKept
  /\ ~sm.open => outp.assumed = [s \in 1..sm.steps |-> <<-FalseAtom>>]
  /\ LET worlds == Worlds
     IN  \A i \in DOMAIN given.rules :
           LET g == given.rules[i]
           IN  \E j \in DOMAIN outp.rules :
                 /\ outp.rules[j].type = g.type /\ outp.rules[j].head = SmHead(sm, g.head)
                 /\ \A w \in worlds : Holds(w.out, outp.rules[j].body) <=> Holds(w.given, g.body)
===============================================================================

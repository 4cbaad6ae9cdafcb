---------------------------- MODULE AspifFormat ----------------------------
(***************************************************************************)
(* The aspif format: AspifOutput writes the directives of a program, in    *)
(* version 1 or 2 of the format, AspifInput reads such a file and hands    *)
(* the directives to another program (potassco/aspif.rs on the reader of   *)
(* potassco/match_basic_types.rs).                                         *)
(*                                                                         *)
(* Version 1 has no terms: each term becomes, in each step, an auxiliary   *)
(* atom, and the file names the condition that it and an auxiliary fact    *)
(* are true. The reader of version 1 knows names of conditions only and    *)
(* makes atoms or terms of them; names without a condition go to the fact  *)
(* atoms it has seen. Files of version 1 also come from elsewhere (gringo).*)
(* A line of the file is a record of its directive, atoms and literals.    *)
(***************************************************************************)
EXTENDS Integers, Sequences, FiniteSets, SequencesExt

CONSTANTS AspAtoms,  \* the atoms of the program are 1..AspAtoms
          AspOps,    \* bound on the directives
          AspSteps   \* bound on the steps

VARIABLES wr,     \* the writer
          file,   \* the lines written
          rd,     \* the reader
          seen,   \* the names it has delivered, and the rules
          asked   \* what was given to the writer

aspVars == <<wr, file, rd, seen, asked>>

AspAtomSet == 1..AspAtoms
AtomOf(l) == IF l < 0 THEN -l ELSE l
Line(d, head, lits) == [d |-> d, head |-> head, lits |-> lits, name |-> ""]
Name1(name, cond) == [Line("name", <<>>, cond) EXCEPT !.name = name]

-----------------------------------------------------------------------------
(* The atoms of the file: those of the program as long as no auxiliary     *)
(* atom is needed; afterwards a larger atom is mapped to the next free one *)

MapAtomTo(w, a) ==
  IF a = 0 THEN w
  ELSE IF w.next = 0 \/ a <= w.idmax THEN [w EXCEPT !.idmax = IF a > @ THEN a ELSE @]
  ELSE IF w.map[a] # 0 THEN w
  ELSE [w EXCEPT !.map[a] = w.next, !.next = @ + 1]

AtomIn(w, a) == IF a = 0 \/ a <= w.idmax THEN a ELSE w.map[a]
LitIn(w, l) == IF l < 0 THEN -AtomIn(w, -l) ELSE AtomIn(w, l)
MapThese(w, lits) == FoldLeft(LAMBDA x, l : MapAtomTo(x, AtomOf(l)), w, lits)
LitsIn(w, lits) == [i \in DOMAIN lits |-> LitIn(w, lits[i])]

\* new_atom
NewAtom(w) == [w EXCEPT !.next = @ + 1]

AspInit ==
  /\ \E v \in {1, 2}, own \in BOOLEAN, mode \in {"term", "atom", "fact"} :
       /\ ~own => v = 1
       /\ v = 2 => mode = "term"       \* only names of version 1 are mapped
       /\ wr = [version |-> v, own |-> own, idmax |-> IF own THEN 0 ELSE AspAtoms, next |-> 0,
                map |-> [a \in AspAtomSet |-> 0], true |-> 0,
                def |-> FALSE, atom |-> 0, last |-> 0, open |-> FALSE, steps |-> 0, ops |-> 0]
       /\ rd = [mode |-> mode, pos |-> 0, facts |-> <<>>, pending |-> <<>>, nextFact |-> 0,
                fact |-> 0, nextTerm |-> 0, failed |-> FALSE]
  /\ file = <<>>
  /\ seen = [rules |-> <<>>, atoms |-> {}, terms |-> {}, others |-> <<>>]
  /\ asked = [names |-> {}, conds |-> {}, facts |-> {}, others |-> <<>>]

-----------------------------------------------------------------------------
(* AspifOutput                                                             *)

BeginAspStep ==
  /\ ~wr.open /\ wr.steps < AspSteps
  /\ wr' = [wr EXCEPT !.open = TRUE, !.steps = @ + 1,
                      !.last = IF wr.atom # 0 THEN wr.atom ELSE @, !.atom = 0]
  /\ UNCHANGED <<file, rd, seen, asked>>

EndAspStep ==
  /\ wr.open
  /\ wr' = [wr EXCEPT !.open = FALSE]
  /\ file' = Append(file, Line("end", <<>>, <<>>))
  /\ UNCHANGED <<rd, seen, asked>>

\* a directive whose atoms and literals are mapped and written
WriteDirective(d, head, lits) ==
  /\ wr.open /\ wr.ops < AspOps
  /\ LET w == MapThese(MapThese(wr, head), lits)
     IN /\ wr' = [w EXCEPT !.ops = @ + 1]
        /\ file' = Append(file, Line(d, LitsIn(w, head), LitsIn(w, lits)))
  /\ asked' = [asked EXCEPT
                 !.facts = IF d = "rule" /\ lits = <<>> THEN @ \union ToSet(head) ELSE @,
                 !.others = IF d = "rule" THEN @ ELSE Append(@, Line(d, head, lits))]
  /\ UNCHANGED <<rd, seen>>

WriteRule == WriteDirective("rule", <<AspAtoms>>, <<-1>>)
WriteFact == \E a \in AspAtomSet : WriteDirective("rule", <<a>>, <<>>)
WriteRuleWeighted == WriteDirective("weighted", <<AspAtoms>>, <<1>>)
WriteMinimize == WriteDirective("minimize", <<>>, <<-AspAtoms>>)
WriteProject == WriteDirective("project", <<AspAtoms>>, <<>>)
WriteExternal == WriteDirective("external", <<AspAtoms>>, <<>>)
WriteAssume == WriteDirective("assume", <<>>, <<-1, AspAtoms>>)
WriteHeuristic == WriteDirective("heuristic", <<AspAtoms>>, <<1>>)
WriteEdge == WriteDirective("edge", <<>>, <<AspAtoms>>)
WriteTheoryTerm == WriteDirective("number", <<>>, <<>>)
WriteTheoryElement == WriteDirective("element", <<>>, <<AspAtoms>>)
WriteTheoryAtom == \E a \in {0, AspAtoms} : WriteDirective("theory", <<a>>, <<>>)

\* output_atom: a name of a condition with one literal in version 1
WriteName ==
  /\ wr.open /\ wr.ops < AspOps /\ wr.own
  /\ \E a \in AspAtomSet :
       LET w == MapAtomTo(wr, a)
       IN /\ wr' = [w EXCEPT !.ops = @ + 1]
          /\ file' = Append(file,
               IF wr.version = 1 THEN Name1("x", <<AtomIn(w, a)>>)
               ELSE [Line("atom", <<AtomIn(w, a)>>, <<>>) EXCEPT !.name = "x"])
          /\ asked' = [asked EXCEPT !.names = @ \union {<<a>>}]
  /\ UNCHANGED <<rd, seen>>

\* output_term: version 1 remembers the name
DefineTerm ==
  /\ wr.open /\ wr.own /\ ~wr.def
  /\ wr' = [wr EXCEPT !.def = TRUE]
  /\ file' = IF wr.version = 1 THEN file
             ELSE Append(file, [Line("term", <<>>, <<>>) EXCEPT !.name = "t"])
  /\ UNCHANGED <<rd, seen, asked>>

\* output of a term in version 1: an auxiliary fact, once; an auxiliary atom
\* for the term, once a step; a rule for the condition unless the term was
\* true in the step before; an auxiliary atom for a longer condition
OutputTerm1(w0, cond) ==
  LET w1 == MapThese(w0, cond)
      w2 == IF w1.true = 0 THEN [w1 EXCEPT !.true = w1.idmax + 1, !.next = w1.idmax + 2] ELSE w1
      w3 == IF w2.atom = 0 THEN [NewAtom(w2) EXCEPT !.atom = w2.next] ELSE w2
      own == Len(cond) > 1
      w4 == IF own THEN NewAtom(w3) ELSE w3
      body == (IF own THEN <<w3.next>> ELSE LitsIn(w1, cond))
              \o (IF w1.last # 0 THEN <<-w1.last>> ELSE <<>>)
  IN [w |-> w4,
      lines |-> (IF w1.true = 0 THEN <<Line("rule", <<w2.true>>, <<>>)>> ELSE <<>>)
                \o (IF w2.atom = 0 THEN <<Name1("t", <<w3.atom, w2.true>>)>> ELSE <<>>)
                \o <<Line("rule", <<w3.atom>>, body)>>
                \o (IF own THEN <<Line("rule", <<w3.next>>, LitsIn(w1, cond))>> ELSE <<>>)]

OutputTerm ==
  /\ wr.open /\ wr.def /\ wr.ops < AspOps
  /\ \E cond \in {<<>>, <<-1>>, <<1, AspAtoms>>} :
       /\ LET r == IF wr.version = 1 THEN OutputTerm1(wr, cond)
                   ELSE [w |-> MapThese(wr, cond), lines |-> <<Line("cond", <<>>, cond)>>]
          IN wr' = [r.w EXCEPT !.ops = @ + 1] /\ file' = file \o r.lines
       /\ asked' = [asked EXCEPT !.conds = @ \union {cond}]
  /\ UNCHANGED <<rd, seen>>

\* a name in a file of another writer: any condition
OtherName ==
  /\ wr.open /\ wr.ops < AspOps /\ ~wr.own
  /\ \E cond \in {<<>>, <<1>>, <<-1>>, <<1, AspAtoms>>} :
       /\ file' = Append(file, Name1("x", cond))
       /\ asked' = [asked EXCEPT !.names = @ \union {cond}]
  /\ wr' = [wr EXCEPT !.ops = @ + 1]
  /\ UNCHANGED <<rd, seen>>

-----------------------------------------------------------------------------
(* AspifInput: r and s are the reader and what it has delivered            *)

AtomName(st, a) == [st EXCEPT !.s.atoms = @ \union {a}]

\* out_term: each name gets a term of its own
TermName(st, name, cond) ==
  [st EXCEPT !.s.terms = @ \union {<<st.r.nextTerm, name, cond>>}, !.r.nextTerm = @ + 1]

\* pop_fact takes the facts in turn
PopFact(st) ==
  AtomName([st EXCEPT !.r.nextFact = @ + 1],
           st.r.facts[(st.r.nextFact % Len(st.r.facts)) + 1])

MatchOutput1(st, l) ==
  IF st.r.mode = "term" \/ Len(l.lits) > 1 \/ (l.lits # <<>> /\ l.lits[1] < 0)
  THEN TermName(st, l.name, l.lits)
  ELSE IF l.lits # <<>> THEN AtomName(st, l.lits[1])
  ELSE IF st.r.facts # <<>> THEN PopFact(st)
  ELSE [st EXCEPT !.r.pending = Append(@, l.name)]

\* a directive of version 2: terms have a number of their own
MatchOutput(st, l) ==
  CASE l.d = "atom" -> AtomName(st, l.head[1])
    [] l.d = "term" -> st
    [] l.d = "cond" -> [st EXCEPT !.s.terms = @ \union {<<0, "t", l.lits>>}]

IsFactWithBody(l) == l.d = "rule" /\ Len(l.head) = 1
IsFact(l) == l.d = "rule" /\ l.lits = <<>> /\ Len(l.head) = 1

MatchRule(st, l) ==
  [st EXCEPT !.s.rules = Append(@, l),
             !.r.facts = IF IsFact(l) /\ wr.version = 1 /\ st.r.mode = "atom"
                         THEN Append(@, l.head[1]) ELSE @]

MatchDirective(st, l) ==
  CASE l.d = "rule" -> MatchRule(st, l)
    [] l.d = "name" -> MatchOutput1(st, l)
    [] l.d \in {"atom", "term", "cond"} -> MatchOutput(st, l)
    [] OTHER -> [st EXCEPT !.s.others = Append(@, l)]

\* names that waited for a fact get the first ones of the step, or a term
FinishStep(st) ==
  LET named == FoldLeft(LAMBDA x, name : IF x.r.facts # <<>> THEN PopFact(x)
                                         ELSE TermName(x, name, <<>>), st, st.r.pending)
  IN [named EXCEPT !.r.pending = <<>>, !.r.nextFact = 0, !.r.facts = <<>>,
                   !.r.fact = IF @ = 0 /\ named.r.facts # <<>> THEN named.r.facts[1] ELSE @]

\* do_parse: the lines of one step; a file that ends before is an error, and
\* what was read of the step has been delivered
ReadStep ==
  /\ rd.pos < Len(file) /\ ~rd.failed
  /\ LET rest == SubSeq(file, rd.pos + 1, Len(file))
         ends == {i \in DOMAIN rest : rest[i].d = "end"}
         n == IF ends = {} THEN Len(rest) ELSE (CHOOSE i \in ends : \A j \in ends : i <= j) - 1
         facts == IF rd.fact # 0 \/ rd.mode = "fact" THEN <<rd.fact>> ELSE <<>>
         st == FoldLeft(MatchDirective, [r |-> [rd EXCEPT !.facts = facts], s |-> seen],
                        SubSeq(rest, 1, n))
     IN IF ends = {}
        THEN rd' = [st.r EXCEPT !.failed = TRUE, !.pos = Len(file)] /\ seen' = st.s
        ELSE LET f == FinishStep(st)
             IN rd' = [f.r EXCEPT !.pos = @ + n + 1] /\ seen' = f.s
  /\ UNCHANGED <<wr, file, asked>>

\* accept after an error: the reader is reset for another input and program
ResetReader ==
  /\ rd.failed
  /\ rd' = [rd EXCEPT !.pos = 0, !.facts = <<>>, !.pending = <<>>, !.nextFact = 0,
                      !.fact = 0, !.nextTerm = 0, !.failed = FALSE]
  /\ seen' = [rules |-> <<>>, atoms |-> {}, terms |-> {}, others |-> <<>>]
  /\ UNCHANGED <<wr, file, asked>>

AspNext ==
  \/ BeginAspStep \/ EndAspStep
  \/ WriteRule \/ WriteFact \/ WriteRuleWeighted \/ WriteMinimize \/ WriteProject
  \/ WriteExternal \/ WriteAssume \/ WriteHeuristic \/ WriteEdge
  \/ WriteTheoryTerm \/ WriteTheoryElement
  \/ WriteTheoryAtom \/ WriteName \/ DefineTerm \/ OutputTerm \/ OtherName
  \/ ReadStep \/ ResetReader

-----------------------------------------------------------------------------
(* What was asked for under a set A of true atoms; an auxiliary atom is    *)
(* true by one of its rules                                                *)

TrueIn(A, l) == IF l < 0 THEN -l \notin A ELSE l \in A
Sat(A, cond) == \A i \in DOMAIN cond : TrueIn(A, cond[i])

OriginOf(n) == {a \in AspAtomSet : AtomIn(wr, a) = n}

RECURSIVE TrueOut(_, _)
TrueOut(A, n) ==
  IF n = 0 THEN TRUE
  ELSE IF OriginOf(n) # {} /\ n # wr.true THEN OriginOf(n) \subseteq A
  ELSE \E i \in DOMAIN seen.rules :
         /\ seen.rules[i].head = <<n>>
         /\ \A k \in DOMAIN seen.rules[i].lits :
              LET l == seen.rules[i].lits[k]
              IN IF l < 0 THEN ~TrueOut(A, -l) ELSE TrueOut(A, l)

SatOut(A, cond) ==
  \A i \in DOMAIN cond : IF cond[i] < 0 THEN ~TrueOut(A, -cond[i]) ELSE TrueOut(A, cond[i])

TermsShown(A, name) == {t[1] : t \in {s \in seen.terms : s[2] = name /\ SatOut(A, s[3])}}

(* What is read back is what was written. When a file has been read up to  *)
(* the end of a step, in every world with the facts of the program the     *)
(* names of atoms and conditions that are true are those that were asked   *)
(* for, a term is shown once if one of its conditions holds in one of (up  *)
(* to two) steps, and the other directives arrive in order, about the      *)
(* atoms that stand for theirs.                                            *)
ReadBack ==
  (~wr.open /\ ~rd.failed /\ rd.pos = Len(file)) =>
    /\ \A A \in SUBSET AspAtomSet : asked.facts \subseteq A =>
         /\ (\E cond \in asked.names : Sat(A, cond)) <=>
              (\E a \in seen.atoms : TrueOut(A, a)) \/ TermsShown(A, "x") # {}
         /\ Cardinality(TermsShown(A, "t")) =
              IF \E cond \in asked.conds : Sat(A, cond) THEN 1 ELSE 0
    /\ Len(seen.others) = Len(asked.others)
    /\ \A i \in DOMAIN asked.others :
         /\ seen.others[i].d = asked.others[i].d
         /\ seen.others[i].head = LitsIn(wr, asked.others[i].head)
         /\ seen.others[i].lits = LitsIn(wr, asked.others[i].lits)
=============================================================================

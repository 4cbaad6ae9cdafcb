----------------------------- MODULE TextFormat -----------------------------
(***************************************************************************)
(* The text format: AspifTextInput reads statements and hands them to a    *)
(* program, AspifTextOutput prints a program as text for a grounder        *)
(* (potassco/aspif_text.rs). Here the reader feeds the writer, as in       *)
(* lpconvert; theory atoms, which the text reader does not know, come from *)
(* another reader.                                                         *)
(*                                                                         *)
(* The writer collects the directives of a step and prints them when it    *)
(* ends, since only then the names of the atoms are known. Atoms without a *)
(* name get a generated one, and as soon as there are such names the text  *)
(* must say which atoms are shown. The names are p1 and p2 (of predicate   *)
(* p/1), q, s (no atom) and x_2, the name that atom 2 would get.           *)
(***************************************************************************)
EXTENDS Integers, Sequences, FiniteSets, SequencesExt

CONSTANTS TxtOps,   \* bound on the statements
          TxtSteps  \* bound on the steps

VARIABLES tw,      \* the writer, OutputData and step
          terms,   \* the reader: the terms of the step, in the order of their numbers
          text,    \* what is printed: names of atoms, equalities and #show directives
          wish     \* the names given to atoms, and what has become of them

txtVars == <<tw, terms, text, wish>>

TxtAtomSet == {1, 2}
Names == {"p1", "p2", "q", "s", "x_2"}
IsAtomName(name) == name # "s"
Predicate(name) == IF name \in {"p1", "p2"} THEN "p/1" ELSE name
Generated(a) == <<"x_1", "x_2">>[a]

TxtInit ==
  /\ \E inc \in BOOLEAN :
       tw = [step |-> IF inc THEN 0 ELSE -1, dirs |-> <<>>, names |-> [a \in TxtAtomSet |-> ""],
             termNames |-> [i \in 0..1 |-> ""], theory |-> <<>>, eq |-> {}, maxGen |-> 0,
             maxNamed |-> 0, start |-> 0, hide |-> FALSE, open |-> FALSE, ended |-> FALSE,
             ops |-> 0, failed |-> FALSE]
  /\ terms = <<>>
  /\ text = [used |-> {}, links |-> {}, shows |-> {}, restricted |-> FALSE]
  /\ wish = [names |-> {}, late |-> FALSE, mute |-> FALSE]

-----------------------------------------------------------------------------
(* AspifTextOutput: naming an atom                                         *)

LargerOf(a, b) == IF a > b THEN a ELSE b

\* is_reserved_name: a name like a generated one belongs to its atom
Reserved(a, name) == name = "x_2" /\ a # 2

AddDirective(w, d, atoms) == [w EXCEPT !.dirs = Append(@, [d |-> d, atoms |-> atoms])]

\* output_atom on the writer and the text: an atom keeps its first name, a
\* second one is made equal by a rule that is printed at once; what is not an
\* atom is shown on a condition
OutputAtomTo(a, name) ==
  IF ~IsAtomName(name)
  THEN [w |-> AddDirective(tw, "show", <<a>>), t |-> text]
  ELSE IF Reserved(a, name)
  THEN [w |-> [tw EXCEPT !.failed = TRUE], t |-> text]
  ELSE LET named == [tw EXCEPT !.maxNamed = LargerOf(@, a)]
       IN IF tw.names[a] = "" THEN [w |-> [named EXCEPT !.names[a] = name], t |-> text]
          ELSE IF tw.names[a] = name THEN [w |-> named, t |-> text]
          ELSE [w |-> [named EXCEPT !.eq = @ \union {name}],
                t |-> [text EXCEPT !.links = @ \union {<<name, tw.names[a]>>}]]

\* output_term and output: a number has one name
OutputTermTo(id, name, fresh, atoms) ==
  LET w == IF tw.termNames[id] \notin {"", name} THEN [tw EXCEPT !.failed = TRUE]
           ELSE [tw EXCEPT !.termNames[id] = IF fresh THEN name ELSE @]
  IN AddDirective(w, "show", atoms)

-----------------------------------------------------------------------------
(* AspifTextInput: the statements                                          *)

Running == tw.open /\ ~tw.failed
Statement == Running /\ tw.ops < TxtOps
Counted(w) == [w EXCEPT !.ops = @ + 1]

\* statements that only pass atoms on
Passed(d, atoms) ==
  /\ Statement
  /\ tw' = Counted(AddDirective(tw, d, atoms))
  /\ UNCHANGED <<terms, text, wish>>

TxtRule == \E atoms \in {<<1>>, <<2, 1>>} : Passed("rule", atoms)
TxtAggregate == Passed("sum", <<2>>)
TxtMinimize == Passed("minimize", <<1>>)
TxtProject == Passed("project", <<2>>)
TxtExternal == Passed("external", <<1>>)
TxtAssume == Passed("assume", <<1>>)
TxtHeuristic == Passed("heuristic", <<1, 2>>)
TxtEdge == Passed("edge", <<2>>)

\* #output: an atom's name if the condition is one atom, unless it is marked
\* as a term; the terms of a step are numbered as they come
TxtOutput ==
  /\ Statement
  /\ \E name \in Names, atoms \in {<<>>, <<1>>, <<2>>}, marked \in BOOLEAN :
       /\ \A n \in wish.names : n[2] = name => <<n[1]>> = atoms   \* names are not shared
       /\ IF atoms # <<>> /\ IsAtomName(name) /\ ~marked
          THEN LET r == OutputAtomTo(atoms[1], name)
               IN /\ tw' = Counted(r.w)
                  /\ text' = r.t
                  /\ wish' = [wish EXCEPT
                       !.names = @ \union {<<atoms[1], name>>},
                       !.late = @ \/ atoms[1] < tw.start]
                  /\ UNCHANGED terms
          ELSE LET known == Contains(terms, name)
                   id == IF known THEN (CHOOSE i \in DOMAIN terms : terms[i] = name) - 1
                         ELSE Len(terms)
               IN /\ id <= 1
                  /\ terms' = IF known THEN terms ELSE Append(terms, name)
                  /\ tw' = Counted(OutputTermTo(id, name, ~known, atoms))
                  /\ UNCHANGED <<text, wish>>

\* theory_atom: printed and, if it is an atom of the program, named by its
\* text when the step ends
TheoryAtomOf ==
  /\ Statement
  /\ \E a \in TxtAtomSet : tw' = Counted([tw EXCEPT !.theory = Append(@, a)])
  /\ UNCHANGED <<terms, text, wish>>

BeginTxtStep ==
  /\ ~tw.open /\ ~tw.failed /\ ~tw.ended
  /\ tw.step < TxtSteps
  /\ tw' = [tw EXCEPT !.open = TRUE,
                      !.step = IF @ >= 0 THEN @ + 1 ELSE @,
                      !.start = IF tw.step >= 0 THEN LargerOf(tw.maxNamed, tw.maxGen) + 1 ELSE @]
  /\ terms' = <<>>
  /\ UNCHANGED <<text, wish>>

-----------------------------------------------------------------------------
(* OutputData::end_step, in its order                                      *)

\* visit_theory_atoms: none of an earlier step, none with a name, none twice
TheoryFails(w) ==
  ~IsInjective(w.theory) \/ \E a \in ToSet(w.theory) : a < w.start \/ w.names[a] # ""
VisitTheory(w) ==
  [w EXCEPT !.names = [a \in TxtAtomSet |-> IF Contains(w.theory, a) THEN "&t" ELSE @[a]],
            !.maxNamed = FoldLeft(LargerOf, @, w.theory),
            !.theory = <<>>]

\* print_name: an atom without a name gets a generated one
NameIn(w, a) == IF w.names[a] # "" THEN w.names[a] ELSE Generated(a)
PrintName(st, a) ==
  [w |-> IF st.w.names[a] # "" THEN st.w
         ELSE [st.w EXCEPT !.hide = @ \/ st.w.maxGen = 0, !.maxGen = LargerOf(@, a)],
   t |-> [st.t EXCEPT !.used = @ \union {<<a, NameIn(st.w, a)>>}]]

PrintDirectives(st) ==
  FoldLeft(LAMBDA s, d : FoldLeft(PrintName, s, d.atoms), st, st.w.dirs)

\* show_atom
ShowAtom(st, name) ==
  [w |-> [st.w EXCEPT !.hide = FALSE],
   t |-> [st.t EXCEPT !.shows = @ \union {Predicate(name)}, !.restricted = TRUE]]

ShownHere(w) ==
  {w.names[a] : a \in {b \in TxtAtomSet : b >= w.start /\ b <= w.maxNamed
                                         /\ w.names[b] \notin {"", "&t"}}}

ShowNamesOnly(st) ==
  IF st.w.maxGen = 0 THEN st
  ELSE LET named == FoldLeft(ShowAtom, st, SetToSeq(ShownHere(st.w)))
       IN [w |-> [named.w EXCEPT !.hide = FALSE],
           t |-> [named.t EXCEPT !.restricted = @ \/ named.w.hide]]
ShowNames(st) ==
  IF st.w.maxGen = 0 THEN st
  ELSE LET named == FoldLeft(ShowAtom, st, SetToSeq(ShownHere(st.w) \union st.w.eq))
       IN [w |-> [named.w EXCEPT !.hide = FALSE, !.eq = {}],
           t |-> [named.t EXCEPT !.restricted = @ \/ named.w.hide]]

EndTxtStep ==
  /\ Running
  /\ LET end == ShowNames(PrintDirectives([w |-> VisitTheory(tw), t |-> text]))
     IN IF TheoryFails(tw)
        THEN tw' = [tw EXCEPT !.failed = TRUE, !.open = FALSE] /\ UNCHANGED <<text, wish>>
        ELSE /\ tw' = [end.w EXCEPT !.dirs = <<>>, !.open = FALSE, !.ended = tw.step < 0]
             /\ text' = end.t
             /\ wish' = [wish EXCEPT !.mute = @ \/ (end.w.maxGen = 0 /\ wish.names # {})]
  /\ UNCHANGED terms

\* a statement that cannot be read: what came before has been passed on, the
\* step is never ended
ParseError ==
  /\ Running
  /\ tw' = [tw EXCEPT !.failed = TRUE]
  /\ UNCHANGED <<terms, text, wish>>

TxtNext ==
  \/ TxtRule \/ TxtAggregate \/ TxtMinimize \/ TxtProject \/ TxtExternal \/ TxtAssume
  \/ TxtHeuristic \/ TxtEdge \/ TxtOutput \/ TheoryAtomOf
  \/ BeginTxtStep \/ EndTxtStep \/ ParseError

-----------------------------------------------------------------------------
(* The printed program means the one that was given. After each step, no   *)
(* name stands for two atoms; the names of an atom are equal by a rule of  *)
(* the text, unless a name was given to an atom of an earlier step;        *)
(* and a grounder shows an atom under exactly the names it was given (all  *)
(* atoms without a #show directive, else those of a shown predicate),      *)
(* unless a step with names ended before the first name was generated.     *)
Linked(n, m) == n = m \/ <<n, m>> \in text.links \/ <<m, n>> \in text.links
Visible(name) == ~text.restricted \/ Predicate(name) \in text.shows

TextMeans ==
  (~tw.open /\ ~tw.failed) =>
    /\ \A u, v \in text.used : u[2] = v[2] /\ u[2] # "&t" => u[1] = v[1]
    /\ ~wish.late => \A u, v \in text.used : u[1] = v[1] => Linked(u[2], v[2])
    /\ ~(wish.mute \/ wish.late) =>
         /\ \A n \in wish.names : Visible(n[2])
         /\ \A u \in text.used : Visible(u[2]) => u \in wish.names \/ u[2] = "&t"

(* A number of a term has one name, as the writer asserts (aspif_text.rs,  *)
(* output_term: `Redefinition: term already defined').                     *)
TermsKeepTheirName ==
  [][\A id \in 0..1 : tw.termNames[id] # "" /\ Len(terms') > Len(terms) /\ Len(terms) = id
       => tw.termNames[id] = Last(terms')]_txtVars
=============================================================================

----------------------------- MODULE ReifyFacts -----------------------------
(***************************************************************************)
(* The reifier turns a program into facts (potassco/reify.rs): a list of   *)
(* atoms, literals or elements becomes a numbered tuple, which later       *)
(* statements with the same list use again, and a statement a fact about   *)
(* the numbers. With reify_step each fact carries its step, and the tuples *)
(* of a step are forgotten at its end.                                     *)
(*                                                                         *)
(* A fact is a record; what a statement says besides its lists (bound,     *)
(* priority, modifier, name) is one value. Components come from the graph  *)
(* of DepGraphs and are taken here as what they are.                       *)
(***************************************************************************)
EXTENDS Integers, Sequences, FiniteSets, SequencesExt

CONSTANTS RfAtoms,  \* atoms
          RfOps,    \* bound on the statements
          RfSteps   \* bound on the steps

VARIABLES rf,       \* the reifier: options, step, tables, edges of the graph
          rfFacts,  \* what it has written
          rfGiven   \* what it was given: [step, name, extra, lists], and the edges of each step

rfVars == <<rf, rfFacts, rfGiven>>

Tables == {"atom_tuple", "literal_tuple", "weighted_literal_tuple", "theory_tuple",
           "theory_element_tuple"}
NoTuples == [t \in Tables |-> <<>>]

RfInit ==
  /\ \E sccs, steps \in BOOLEAN :
       rf = [sccs |-> sccs, steps |-> steps, step |-> 0, tables |-> NoTuples, edges |-> {}, ops |-> 0]
  /\ rfFacts = {}
  /\ rfGiven = [said |-> {}, edges |-> {}]

-----------------------------------------------------------------------------
(* tuples *)

\* the order and the repetitions of a list say something in theory terms only
Content(table, list) ==
  IF table = "theory_tuple" THEN list ELSE SetToSortSeq(ToSet(list), LAMBDA a, b : a < b)

\* a fact with its step, if steps are reified: numbers of tuples and other
\* arguments
Fact(r, name, extra, ids, args) ==
  [name |-> name, extra |-> extra, ids |-> ids, args |-> args, step |-> IF r.steps THEN r.step ELSE 0]

Element(table, list, i) == IF table = "theory_tuple" THEN <<i - 1, list[i]>> ELSE <<list[i]>>
TupleFacts(r, table, id, list) ==
  {Fact(r, table, "", <<id>>, <<>>)}
    \cup {Fact(r, table, "", <<id>>, Element(table, list, i)) : i \in DOMAIN list}

\* the tuples of a table are numbered from 0 in the order in which they come
IdOf(tuples, list) == (CHOOSE i \in DOMAIN tuples : tuples[i] = list) - 1
NewId(r, table) == Len(r.tables[table])

\* st is [r, ids, facts]
Tuple(st, part) ==
  LET table == part[1]
      list == Content(table, part[2])
      known == list \in ToSet(st.r.tables[table])
      id == IF known THEN IdOf(st.r.tables[table], list) ELSE NewId(st.r, table)
  IN IF known THEN [st EXCEPT !.ids = Append(@, id)]
     ELSE [r |-> [st.r EXCEPT !.tables[table] = Append(@, list)],
           ids |-> Append(st.ids, id),
           facts |-> st.facts \cup TupleFacts(st.r, table, id, list)]

-----------------------------------------------------------------------------
(* statements *)

Atoms == 1..RfAtoms

\* the edges of a rule lead from its heads to the atoms of its positive body
Edges(head, body) == {<<h, b>> : h \in ToSet(head), b \in ToSet(body) \cap Atoms}

Say(name, extra, args, lists, edges) ==
  LET st == FoldLeft(Tuple, [r |-> rf, ids |-> <<>>, facts |-> {}], lists)
  IN /\ rf.ops < RfOps
     /\ rf' = [st.r EXCEPT !.ops = @ + 1, !.edges = IF rf.sccs THEN @ \cup edges ELSE @]
     /\ rfFacts' = rfFacts \cup st.facts \cup {Fact(rf, name, extra, st.ids, args)}
     /\ rfGiven' = [said |-> rfGiven.said \cup {[step |-> rf.step, name |-> name, extra |-> extra,
                                               args |-> args, lists |-> lists]},
                    edges |-> rfGiven.edges \cup {<<rf.step, e>> : e \in edges}]

\* a weighted literal is one number here: three times the literal and a weight of
\* zero or one
Lit(wl) == wl \div 3

Heads == {<<1>>, <<2, 1>>}
Bodies == {<<>>, <<2>>, <<-1, 2>>, <<2, -1>>, <<1, 1>>}
Weights == {<<4>>, <<7, 4>>, <<4, 7>>, <<-3, 7>>}
Terms == {<<>>, <<1>>, <<1, 2>>, <<2, 1>>, <<1, 1>>}

Rule ==
  \E h \in {"disjunction", "choice"}, head \in Heads, body \in Bodies :
    Say("rule", h, <<>>, <<<<"atom_tuple", head>>, <<"literal_tuple", body>>>>, Edges(head, body))
RuleWeighted ==
  \E bound \in {1, 2}, body \in Weights :
    Say("rule", "choice", <<bound>>, <<<<"atom_tuple", <<1>>>>, <<"weighted_literal_tuple", body>>>>,
        Edges(<<1>>, [i \in DOMAIN body |-> Lit(body[i])]))
Minimize ==
  \E body \in Weights : Say("minimize", "", <<0>>, <<<<"weighted_literal_tuple", body>>>>, {})
\* output, heuristic and acyc_edge have a condition
Conditional ==
  \E name \in {"output", "heuristic", "edge"}, cond \in Bodies :
    Say(name, "", <<1>>, <<<<"literal_tuple", cond>>>>, {})
\* output_atom, output_term, project, external, assume, numbers and symbols
Plain ==
  \E name \in {"project", "external"}, a \in Atoms : Say(name, "", <<a>>, <<>>, {})
TheoryTerm ==
  \E args \in Terms : Say("theory_function", "", <<1>>, <<<<"theory_tuple", args>>>>, {})
TheoryElement ==
  \E terms \in Terms, cond \in {<<>>, <<1>>} :
    Say("theory_element", "", <<1>>, <<<<"theory_tuple", terms>>, <<"literal_tuple", cond>>>>, {})
TheoryAtom ==
  \E elems \in Terms : Say("theory_atom", "", <<1>>, <<<<"theory_element_tuple", elems>>>>, {})

-----------------------------------------------------------------------------
(* components *)

RECURSIVE ReachFrom(_, _)
ReachFrom(edges, s) ==
  LET more == s \cup {e[2] : e \in {x \in edges : x[1] \in s}}
  IN IF more = s THEN s ELSE ReachFrom(edges, more)
\* two atoms at least, each on a path from the other
Sccs(edges) ==
  LET scc(a) == {b \in Atoms : b \in ReachFrom(edges, {a}) /\ a \in ReachFrom(edges, {b})}
  IN {c \in {scc(a) : a \in Atoms} : Cardinality(c) > 1}

ClearGraph(r) == [r EXCEPT !.edges = {}]
ClearStep(r) == [r EXCEPT !.tables = NoTuples, !.edges = {}]
EndStep ==
  LET sccs == SetToSeq(Sccs(rf.edges))
  IN /\ rf.step < RfSteps
     /\ rfFacts' = rfFacts \cup UNION {{Fact(rf, "scc", "", <<i - 1>>, <<a>>) : a \in sccs[i]} :
                                        i \in DOMAIN sccs}
     /\ rf' = [(IF rf.steps THEN ClearStep(rf) ELSE rf) EXCEPT !.step = @ + 1]
     /\ UNCHANGED rfGiven

RfNext ==
  \/ rf.step < RfSteps /\ (Rule \/ RuleWeighted \/ Minimize \/ Conditional \/ Plain
                           \/ TheoryTerm \/ TheoryElement \/ TheoryAtom)
  \/ EndStep

-----------------------------------------------------------------------------
(* Reading the facts: of the whole output, or of each step where facts     *)
(* carry it.                                                               *)
StepOf(s) == IF rf.steps THEN s ELSE 0
Elements(table, id, step) ==
  {f.args : f \in {x \in rfFacts : x.name = table /\ x.ids = <<id>> /\ x.step = step}} \ {<<>>}
Tells(f, s) ==
  /\ f.name = s.name /\ f.extra = s.extra /\ f.args = s.args /\ f.step = StepOf(s.step)
  /\ Len(f.ids) = Len(s.lists)
  /\ \A i \in DOMAIN s.lists :
       LET table == s.lists[i][1] list == s.lists[i][2]
       IN Elements(table, f.ids[i], f.step) = {Element(table, list, k) : k \in DOMAIN list}

(* The facts say what the reifier was given: each statement is told by a   *)
(* fact whose tuples have exactly its elements, in their places where they *)
(* have places, and nothing else is told. The components of a step are     *)
(* those of its rules - without reify_step the numbers of components start *)
(* again in every step, so there only the first step is asked about.       *)
ReifiedMeans ==
  LET told == {f \in rfFacts : f.name \notin Tables \cup {"scc"}}
      comps(s) == {{f.args[1] : f \in {x \in rfFacts : x.name = "scc" /\ x.step = s /\ x.ids = <<i>>}} :
                     i \in 0..RfAtoms} \ {{}}
  IN /\ \A s \in rfGiven.said : \E f \in told : Tells(f, s)
     /\ \A f \in told : \E s \in rfGiven.said : Tells(f, s)
     /\ rf.sccs => \A s \in 0..rf.step - 1 :
          rf.steps \/ rf.step = 1 =>
            comps(StepOf(s)) = Sccs({e[2] : e \in {x \in rfGiven.edges : x[1] = s}})
=============================================================================

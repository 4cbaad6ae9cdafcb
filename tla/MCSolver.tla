------------------------------ MODULE MCSolver ------------------------------
(***************************************************************************)
(* Small problems for SolverCorrectness: each formula is there for a case  *)
(* named beside it.                                                        *)
(***************************************************************************)
EXTENDS SolverCorrectness

Chain    == {{1, 2}, {-1, 3}, {-2, -3}}                  \* satisfiable, propagation through binaries
Unsat    == {{1, 2}, {1, -2}, {-1, 3}, {-1, -3}}         \* a learnt unit, then refuted
ExactOne == {{1, 2, 3}, {-1, -2}, {-1, -3}, {-2, -3}}    \* three models
AllTern  == {{a, b, c} : a \in {1, -1}, b \in {2, -2}, c \in {3, -3}} \* refuted by learnt binaries
Backbone == {{1, 2}, {1, -2}, {-1, 2, 3}}                \* satisfiable, a conflict on level 1
Units    == {{1}, {-1, 2, 3}}                            \* a ternary clause is simplified to a binary
Contra   == {{1}, {-1}}                                  \* the units contradict each other
Resolve  == {{-1, 2, 3}, {-1, 2, -3}}                    \* a flipped decision ends in a conflict
Free2    == {{1, 2}}                                     \* many models
ShortFormulas  == {Chain, Unsat, ExactOne, AllTern, Units, Backbone}
EnumFormulas   == {Chain, Unsat, ExactOne, Units, Free2, Contra}
ResolveFormula == {Resolve}
RefutedFormula == {AllTern}

\* Problems with explicit clauses, over four (Fives: five) variables.
LongOne  == {{1, 2, 3, 4}, {-1, -2}, {-2, -3}, {-3, -4}}
Quads    == {{a, b, c, d} : a \in {1, -1}, b \in {2, -2}, c \in {3, -3}, d \in {4, -4}}
EvenQuads == {c \in Quads : Cardinality({l \in c : l < 0}) % 2 = 0}
Needed   == {{-1, 2}, {-2, -3, 4}, {-2, -3, -4}}         \* an implied literal no minimisation may drop
Spread   == {{-1, -2, 3}, {-1, -2, -3}}                  \* a clause that is unit below the backtrack level
TopFalse == {{-4}, {1, 2, 3, 4}, {1, 2, -3}}             \* a top-level literal in an explicit clause
Fives    == {{-1, -2, -3, -4, 5}, {-1, -2, -3, -4, -5}}  \* the learnt clause is explicit
ExplicitFormulas == {f \cup {{5}} : f \in {LongOne, EvenQuads, Needed, TopFalse}} \cup {Fives}
BackFormulas == {Backbone, ExactOne, Spread}
TopFalseFormula == {TopFalse}
=============================================================================

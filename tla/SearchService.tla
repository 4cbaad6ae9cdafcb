--------------------------- MODULE SearchService ---------------------------
(***************************************************************************)
(* What a caller of clasp::Solver may rely on, without levels, trails or   *)
(* clauses: a search under a root path answers "true" with a model of the  *)
(* problem that satisfies the path and has not been excluded by            *)
(* backtracking over it before, "false" only when there is no such model   *)
(* left (or the caller has stopped the solver), and "free" at any time.    *)
(***************************************************************************)
EXTENDS Integers

CONSTANTS NumVars, Formulas

VARIABLES
  formula,    \* the problem
  path,       \* the literals of the root path
  stopped,    \* a stop conflict is set
  excluded,   \* models, as literal sets, that have been backtracked over
  answer,     \* "none" while a call runs, else what the search returned
  model       \* the model that goes with the answer "true"

vars == <<formula, path, stopped, excluded, answer, model>>

Vars   == 1..NumVars
Lits   == Vars \cup {-v : v \in Vars}
Totals == {m \in SUBSET Lits : \A v \in Vars : v \in m <=> -v \notin m}
Models == {m \in Totals : \A c \in formula : c \cap m # {}}
Left   == {m \in Models : path \subseteq m} \ excluded

Init ==
  /\ formula \in Formulas
  /\ path = {} /\ stopped = FALSE /\ excluded = {} /\ answer = "none" /\ model = {}

(* Any call: the path may change, a model just found may be excluded.      *)
Call ==
  /\ answer' = "none" /\ model' = {}
  /\ path' \in SUBSET Lits /\ stopped' \in BOOLEAN
  /\ excluded' \in {excluded, excluded \cup {model}}
  /\ excluded' # excluded => answer = "true"
  /\ UNCHANGED formula

AnswerTrue ==
  /\ answer = "none" /\ answer' = "true"
  /\ model' \in Left
  /\ UNCHANGED <<formula, path, stopped, excluded>>

AnswerFalse ==
  /\ answer = "none" /\ answer' = "false"
  /\ stopped \/ Left = {}
  /\ UNCHANGED <<formula, path, stopped, excluded, model>>

AnswerFree ==
  /\ answer = "none" /\ answer' = "free"
  /\ UNCHANGED <<formula, path, stopped, excluded, model>>

Next == Call \/ AnswerTrue \/ AnswerFalse \/ AnswerFree
Spec == Init /\ [][Next]_vars
=============================================================================

----------------------------- MODULE ConfigKeys -----------------------------
(***************************************************************************)
(* The tree of configuration keys: the option catalog of                   *)
(* clasp_cli_options.rs, the registry that clasp_options.rs builds from    *)
(* it, and the walk of ClaspCliConfig::get_key along a dotted path.  A key *)
(* is the number of a node; the solver node is its own array of solvers.   *)
(***************************************************************************)
EXTENDS Naturals, Sequences, SequencesExt

CONSTANTS KeySolvers,    \* with_solver_count
          KeyCalls       \* bound: get_key calls

VARIABLES keyPath, keyAt, keyCalls

keyVars == <<keyPath, keyAt, keyCalls>>

ContextOptions == <<"share", "learn_explicit", "short_simp_mode", "sat_prepro">>
GlobalOptions == <<"stats", "parse_ext", "parse_maxsat">>
SolverOptions ==
  <<"opt_strategy", "opt_usc_shrink", "opt_heuristic", "restart_on_model", "lookahead",
    "heuristic", "init_moms", "score_res", "score_other", "sign_def", "sign_fix", "berk_huang",
    "vsids_acids", "vsids_progress", "nant", "dom_mod", "save_progress", "init_watches",
    "update_mode", "acyc_prop", "seed", "no_lookback", "forget_on_step", "strengthen", "otfs",
    "update_lbd", "update_act", "reverse_arcs", "contraction", "loops">>
SearchOptions ==
  <<"partial_check", "sign_def_disj", "rand_freq", "rand_prob", "restarts", "reset_restarts",
    "local_restarts", "counter_restarts", "block_restarts", "shuffle", "deletion", "del_grow",
    "del_cfl", "del_init", "del_estimate", "del_max", "del_glue", "del_on_restart">>
AspOptions ==
  <<"trans_ext", "eq", "sort_atoms", "backprop", "supp_models", "no_ufs_check", "no_gamma",
    "eq_dfs", "dlp_old_map">>
SolveOptions ==
  <<"solve_limit", "parallel_mode", "global_restarts", "distribute", "integrate", "enum_mode",
    "project", "models", "opt_mode", "opt_stop">>

\* the catalog is one sequence; the group decides the prefix of the path and
\* whether the tester has the option too
InGroup(group, names) == [i \in DOMAIN names |-> [name |-> names[i], group |-> group]]
Catalog ==
  InGroup("context", ContextOptions) \o InGroup("global", GlobalOptions)
    \o InGroup("solver", SolverOptions) \o InGroup("search", SearchOptions)
    \o InGroup("asp", AspOptions) \o InGroup("solve", SolveOptions)

Prefix == [context |-> <<>>, global |-> <<>>, solver |-> <<"solver">>, search |-> <<"solver">>,
           asp |-> <<"asp">>, solve |-> <<"solve">>]
PathOf(entry) == Append(Prefix[entry.group], entry.name)
TesterPaths(entry) == IF entry.group = "global" THEN {} ELSE {<<"tester">> \o PathOf(entry)}
OptionPaths ==
  {<<"configuration">>, <<"tester", "configuration">>}
    \cup UNION {{PathOf(Catalog[i])} \cup TesterPaths(Catalog[i]) : i \in DOMAIN Catalog}

-----------------------------------------------------------------------------
(* build_key_registry *)

KeyRoot == 0  KeyTester == 1  KeySolver == 2  KeyAsp == 3  KeySolve == 4
KeyInvalid == 1000

Node(kind, children) == [kind |-> kind, children |-> children]
Child(name, key) == [name |-> name, key |-> key]
Leaf == Node("leaf", <<>>)

\* nodes[k + 1] is the node of key k
Fixed ==
  <<Node("root", <<Child("configuration", 5), Child("tester", KeyTester),
                   Child("solver", KeySolver), Child("asp", KeyAsp), Child("solve", KeySolve)>>),
    Node("group", <<Child("configuration", 6)>>),
    Node("array", <<>>), Node("group", <<>>), Node("group", <<>>), Leaf, Leaf>>

KeyOfGroup == [context |-> KeyRoot, global |-> KeyRoot, solver |-> KeySolver,
               search |-> KeySolver, asp |-> KeyAsp, solve |-> KeySolve]

\* a new leaf has the number of nodes before it
NewLeaf(nodes) == Len(nodes)
AddOption(nodes, entry) ==
  Append([nodes EXCEPT ![KeyOfGroup[entry.group] + 1].children =
            Append(@, Child(entry.name, NewLeaf(nodes)))], Leaf)
Registry == FoldLeft(AddOption, Fixed, Catalog)

-----------------------------------------------------------------------------
(* A path is a sequence of segments: names and indices of solvers.         *)

IsIndex(seg) == seg.name = ""
HasNode(key) == key < Len(Registry)
KeyNode(key) == Registry[key + 1]

GetArrKeyPast(key, i) ==
  IF HasNode(key) /\ KeyNode(key).kind = "array" /\ i <= KeySolvers THEN key ELSE KeyInvalid
GetArrKey(key, i) ==
  IF HasNode(key) /\ KeyNode(key).kind = "array" /\ i < KeySolvers THEN key ELSE KeyInvalid

GetChild(key, name) ==
  LET of == {i \in DOMAIN KeyNode(key).children : KeyNode(key).children[i].name = name}
  IN IF ~HasNode(key) \/ of = {} THEN KeyInvalid
     ELSE KeyNode(key).children[CHOOSE i \in of : \A j \in of : i <= j].key

GetStep(key, seg) ==
  IF key = KeyInvalid THEN key
  ELSE IF IsIndex(seg) THEN GetArrKey(key, seg.index) ELSE GetChild(key, seg.name)
GetKey(key, path) == FoldLeft(GetStep, key, path)

Segments ==
  {[name |-> n, index |-> 0] :
     n \in {PathOf(Catalog[i])[Len(PathOf(Catalog[i]))] : i \in DOMAIN Catalog}
           \cup {"configuration", "tester", "solver", "asp", "solve"}}
  \cup {[name |-> "", index |-> i] : i \in 0..KeySolvers}

KeyInit == keyPath = <<>> /\ keyAt = KeyRoot /\ keyCalls = 0

\* get_key from a key reached before
Walk ==
  \E seg \in Segments :
    /\ keyCalls < KeyCalls /\ keyCalls' = keyCalls + 1
    /\ keyAt # KeyInvalid
    /\ keyPath' = Append(keyPath, seg) /\ keyAt' = GetKey(keyAt, <<seg>>)

KeyNext == Walk

-----------------------------------------------------------------------------
NamesOf(path) ==
  LET names == SelectSeq(path, LAMBDA seg : ~IsIndex(seg))
  IN [i \in DOMAIN names |-> names[i].name]
\* indices stand only behind "solver", and below the number of solvers
IndicesFit(path) ==
  \A i \in DOMAIN path : IsIndex(path[i]) =>
    path[i].index < KeySolvers /\ NamesOf(SubSeq(path, 1, i)) = <<"solver">>
\* the tester's own options are advertised but the registry has none of them
InRegistry(names) == Len(names) < 2 \/ names[1] # "tester" \/ names[2] = "configuration"

\* A walk ends in a leaf exactly when it spells an advertised option, with
\* indices of solvers only where solvers are, and the leaf is the option's own
\* however the path was cut into calls (build_key_registry and get_key of
\* clasp_options.rs, option_paths of clasp_cli_options.rs).
PathsResolve ==
  LET names == NamesOf(keyPath)
      leaf == keyAt # KeyInvalid /\ KeyNode(keyAt).kind = "leaf"
  IN /\ leaf <=> names \in OptionPaths /\ IndicesFit(keyPath) /\ InRegistry(names)
     /\ keyAt = GetKey(KeyRoot, keyPath)
     /\ leaf => \A p \in OptionPaths :
          GetKey(KeyRoot, [i \in DOMAIN p |-> [name |-> p[i], index |-> 0]]) = keyAt => p = names
=============================================================================

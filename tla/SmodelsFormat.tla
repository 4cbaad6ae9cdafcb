---------------------------- MODULE SmodelsFormat ----------------------------
(***************************************************************************)
(* The smodels format: SmodelsOutput writes a program as lines of numbers, *)
(* a symbol table and a compute statement; SmodelsInput reads such a file, *)
(* builds each rule with a RuleBuilder, turns the compute statement into   *)
(* constraints and the symbols _edge(..) and _heuristic(..) into edges and *)
(* domain modifications (potassco/smodels.rs, potassco/rule_utils.rs).     *)
(*                                                                         *)
(* A line is its numbers, in the order in which they are written, and a    *)
(* name. Names are records: what the syntax of a name says.                *)
(***************************************************************************)
EXTENDS Integers, Sequences, FiniteSets, SequencesExt

CONSTANTS LpOps,   \* bound on the directives
          LpSteps  \* bound on the steps

VARIABLES lpOut,   \* the writer
          lpFile,  \* the lines
          lpIn,    \* the reader
          lpGot,   \* what the reader delivered
          lpAsked  \* what the writer was given

lpVars == <<lpOut, lpFile, lpIn, lpGot, lpAsked>>

\* the atoms of the program are 1 and 2, 3 stands for falsity
FalseAtom == 3
SymAtom(l) == IF l < 0 THEN -l ELSE l
Numbers(k, nums) == [k |-> k, nums |-> nums, name |-> "none"]
HeuNames == {"heu a", "heu b"}
Named == {<<1, "a">>, <<2, "b">>, <<1, "heu b">>, <<2, "heu a">>, <<2, "edge">>}
Target(n) == IF n = "heu a" THEN "a" ELSE "b"

LpInit ==
  /\ \E ext \in BOOLEAN, fa \in {0, FalseAtom}, conv, filter \in BOOLEAN :
       /\ filter => conv               \* there is nothing to hide otherwise
       /\ lpOut = [ext |-> ext, incr |-> ext, false |-> fa, used |-> FALSE, section |-> 3,
                   steps |-> 0, ops |-> 0, mins |-> 0]
       /\ lpIn = [edges |-> conv, heus |-> conv, filter |-> filter, part |-> "rules", pos |-> 0,
                  atoms |-> {}, nodes |-> <<>>, pending |-> <<>>, prio |-> 0]
  /\ lpFile = <<>>
  /\ lpGot = [rules |-> <<>>, shown |-> {}, externals |-> <<>>, edges |-> {}, heus |-> <<>>]
  /\ lpAsked = [rules |-> <<>>, shown |-> {}, externals |-> <<>>]

-----------------------------------------------------------------------------
(* SmodelsOutput *)

\* negative literals first; in a weighted body the weights follow in the same
\* order, and a negative weight negates its literal
Negatives(lits) == SelectSeq(lits, LAMBDA l : l < 0)
Positives(lits) == SelectSeq(lits, LAMBDA l : l > 0)
AtomsOf(lits) == [i \in DOMAIN lits |-> SymAtom(lits[i])]
WriteBody(lits) ==
  <<Len(lits), Len(Negatives(lits))>> \o AtomsOf(Negatives(lits)) \o AtomsOf(Positives(lits))

SmLit(wl) == IF wl.w >= 0 THEN wl.l ELSE -wl.l
WNeg(lits) == SelectSeq(lits, LAMBDA wl : SmLit(wl) < 0)
WPos(lits) == SelectSeq(lits, LAMBDA wl : SmLit(wl) > 0)
WriteSum(bound, lits, card) ==
  LET ordered == WNeg(lits) \o WPos(lits)
      atoms == [i \in DOMAIN ordered |-> SymAtom(ordered[i].l)]
      weights == [i \in DOMAIN ordered |-> SymAtom(ordered[i].w)]
      counts == <<Len(lits), Len(WNeg(lits))>>
  IN IF card THEN counts \o <<bound>> \o atoms ELSE <<bound>> \o counts \o atoms \o weights

WriteHead(choice, head) ==
  IF head = <<>> THEN <<lpOut.false>>
  ELSE (IF choice \/ Len(head) > 1 THEN <<Len(head)>> ELSE <<>>) \o head

\* a directive that the format cannot express is refused before anything is
\* written; rules are refused once the symbols have begun
Emit(line, rule) ==
  /\ lpOut.section = 0 /\ lpOut.ops < LpOps
  /\ lpFile' = Append(lpFile, line)
  /\ lpOut' = [lpOut EXCEPT !.ops = @ + 1, !.used = @ \/ rule.head = <<FalseAtom>>,
                              !.mins = IF line.k = "6" THEN @ + 1 ELSE @]
  /\ lpAsked' = [lpAsked EXCEPT !.rules = Append(@, rule)]
  /\ UNCHANGED <<lpIn, lpGot>>

\* a rule as the reader should deliver it
RuleOf(choice, head, bound, body) ==
  [choice |-> choice, head |-> IF head = <<>> THEN <<lpOut.false>> ELSE head, bound |-> bound,
   body |-> body]

WriteLpRule ==
  \E choice \in BOOLEAN, head \in {<<>>, <<1>>, <<2, 1>>} :
    /\ head # <<>> \/ (lpOut.false # 0 /\ ~choice)
    /\ Emit(Numbers(IF choice THEN "3" ELSE IF Len(head) > 1 THEN "8" ELSE "1",
                    WriteHead(choice, head) \o WriteBody(<<1, -2>>)),
            RuleOf(choice, head, -1, {<<1, 1>>, <<-2, 1>>}))

WriteLpWeighted ==
  \E head \in {<<>>, <<2>>}, w \in {1, 2} :
    LET lits == <<[l |-> 1, w |-> 1], [l |-> -2, w |-> w]>>
    IN /\ head # <<>> \/ lpOut.false # 0
       /\ Emit(Numbers(IF w = 1 THEN "2" ELSE "5", WriteHead(FALSE, head) \o WriteSum(2, lits, w = 1)),
               RuleOf(FALSE, head, 2, {<<1, 1>>, <<-2, w>>}))

\* the priority is lost: the order of the statements takes its place
WriteLpMinimize ==
  \E w \in {2, -2} :
    Emit(Numbers("6", WriteSum(0, <<[l |-> 1, w |-> 1], [l |-> -2, w |-> w]>>, FALSE)),
         [choice |-> FALSE, head |-> <<>>, bound |-> lpOut.mins,
          body |-> {<<1, 1>>, IF w > 0 THEN <<-2, 2>> ELSE <<2, 2>>}])

\* the next step is written when this one has been read
BeginLpStep ==
  /\ lpOut.section = 3 /\ lpIn.pos = Len(lpFile) /\ lpOut.steps < LpSteps
  /\ lpOut.steps > 0 => lpOut.incr
  /\ lpOut' = [lpOut EXCEPT !.section = 0, !.used = FALSE, !.steps = @ + 1,
                              !.mins = 0]
  /\ lpFile' = IF lpOut.incr THEN Append(lpFile, Numbers("90", <<0>>)) ELSE lpFile
  /\ UNCHANGED <<lpIn, lpGot, lpAsked>>

\* the callers write externals before symbols
WriteLpExternal ==
  /\ lpOut.section = 0 /\ lpOut.ext /\ lpOut.ops < LpOps
  /\ \E v \in {"false", "free", "release"} :
       /\ lpFile' = Append(lpFile, IF v = "release" THEN Numbers("92", <<1>>)
                                   ELSE Numbers("91", <<1, IF v = "false" THEN 0 ELSE 2>>))
       /\ lpAsked' = [lpAsked EXCEPT !.externals = Append(@, <<1, v>>)]
  /\ lpOut' = [lpOut EXCEPT !.ops = @ + 1]
  /\ UNCHANGED <<lpIn, lpGot>>

EndLine == Numbers("0", <<>>)
WriteSymbol ==
  /\ lpOut.section <= 1 /\ lpOut.ops < LpOps
  /\ \E p \in Named : LET a == p[1] n == p[2] IN
       /\ n \notin {s[2] : s \in lpAsked.shown}
       /\ lpFile' = lpFile \o (IF lpOut.section = 0 THEN <<EndLine>> ELSE <<>>)
                           \o <<[Numbers("7", <<a>>) EXCEPT !.name = n]>>
       /\ lpAsked' = [lpAsked EXCEPT !.shown = @ \union {<<a, n, lpOut.steps>>}]
  /\ lpOut' = [lpOut EXCEPT !.section = 1, !.ops = @ + 1]
  /\ UNCHANGED <<lpIn, lpGot>>

\* the compute statement: with the atom for falsity, if a rule has it as head
Compute(lits) ==
  [j \in 1..2 - lpOut.section |-> EndLine]
  \o <<Numbers("B+", Positives(lits)),
       Numbers("B-", AtomsOf(Negatives(lits))
                     \o (IF lpOut.used /\ lpOut.false # 0 THEN <<lpOut.false>> ELSE <<>>))>>
\* read back: a constraint for each literal that is not as assumed
Constraint(l) == [choice |-> FALSE, head |-> <<>>, bound |-> -1, body |-> {<<-l, 1>>}]
Constraints(lits) ==
  [j \in DOMAIN lits |-> Constraint(lits[j])]
  \o (IF lpOut.used /\ lpOut.false # 0 THEN <<Constraint(-lpOut.false)>> ELSE <<>>)
WriteAssumption ==
  /\ lpOut.section < 2
  /\ lpFile' = lpFile \o Compute(<<1, -2>>)
  /\ lpOut' = [lpOut EXCEPT !.section = 2]
  /\ lpAsked' = [lpAsked EXCEPT !.rules = @ \o Constraints(<<1, -2>>)]
  /\ UNCHANGED <<lpIn, lpGot>>
EndLpStep ==
  /\ lpOut.section < 3
  /\ lpFile' = lpFile \o (IF lpOut.section < 2 THEN Compute(<<>>) ELSE <<>>) \o <<Numbers("end", <<1>>)>>
  /\ lpOut' = [lpOut EXCEPT !.section = 3]
  /\ lpAsked' = [lpAsked EXCEPT !.rules = IF lpOut.section < 2 THEN @ \o Constraints(<<>>) ELSE @]
  /\ UNCHANGED <<lpIn, lpGot>>

-----------------------------------------------------------------------------
(* RuleBuilder *)

NoRule == [head |-> <<>>, kind |-> "disjunctive", sum |-> FALSE, bound |-> -1, body |-> {},
           headDone |-> FALSE]
Started(kind) == [NoRule EXCEPT !.kind = kind]
AddHeads(rb, atoms) == [rb EXCEPT !.head = @ \o atoms]
StartBody(rb) == [rb EXCEPT !.headDone = TRUE, !.sum = FALSE, !.body = {}]
StartSum(rb, bound) ==
  IF rb.kind = "minimize" THEN rb
  ELSE [rb EXCEPT !.headDone = TRUE, !.sum = TRUE, !.bound = bound, !.body = {}]
StartMinimize(prio) == [NoRule EXCEPT !.kind = "minimize", !.sum = TRUE, !.bound = prio,
                                      !.headDone = TRUE]
\* weights of 0 are left out of a sum
AddGoals(rb, lits, weights) ==
  [rb EXCEPT !.body = @ \union {<<lits[i], weights[i]>> : i \in {j \in DOMAIN lits : weights[j] # 0}}]
Delivered(rb) ==
  [choice |-> rb.kind = "choice", head |-> rb.head, bound |-> IF rb.sum THEN rb.bound ELSE -1,
   body |-> rb.body]

-----------------------------------------------------------------------------
(* SmodelsInput *)

SignedLits(atoms, neg) == [i \in DOMAIN atoms |-> IF i <= neg THEN -atoms[i] ELSE atoms[i]]
Ones(lits) == [i \in DOMAIN lits |-> 1]

MatchBody(rb, nums) ==
  LET atoms == SubSeq(nums, 3, 2 + nums[1])
      lits == SignedLits(atoms, nums[2])
  IN AddGoals(StartBody(rb), lits, Ones(lits))

\* match_sum reads three numbers as bound, length and negative literals; a
\* cardinality rule has them in another order
Counts(nums) == [bound |-> nums[1], len |-> nums[2], neg |-> nums[3]]
SwappedLate(c) == [bound |-> c.len, len |-> c.bound, neg |-> c.neg]
Swapped(c) == [bound |-> c.neg, len |-> c.bound, neg |-> c.len]
MatchSum(rb, nums, weighted) ==
  LET read == Counts(nums)
      c == IF weighted THEN read ELSE Swapped(read)
      lits == SignedLits(SubSeq(nums, 4, 3 + c.len), c.neg)
      weights == IF weighted THEN SubSeq(nums, 4 + c.len, 3 + 2 * c.len) ELSE Ones(lits)
  IN AddGoals(StartSum(rb, c.bound), lits, weights)

From(nums, i) == SubSeq(nums, i, Len(nums))
MatchRule(line) ==
  LET n == line.nums
  IN CASE line.k = "1" -> MatchBody(AddHeads(Started("disjunctive"), <<n[1]>>), From(n, 2))
       [] line.k \in {"3", "8"} ->
            MatchBody(AddHeads(Started(IF line.k = "3" THEN "choice" ELSE "disjunctive"),
                               SubSeq(n, 2, 1 + n[1])), From(n, 2 + n[1]))
       [] line.k \in {"2", "5"} ->
            MatchSum(AddHeads(Started("disjunctive"), <<n[1]>>), From(n, 2), line.k = "5")
       [] OTHER -> MatchSum(StartMinimize(lpIn.prio), n, TRUE)

NextLine == lpFile[lpIn.pos + 1]
\* do_parse reads a whole step
Reading ==
  /\ lpOut.section = 3 /\ lpIn.pos < Len(lpFile)

ReadRule ==
  /\ Reading /\ lpIn.part = "rules" /\ NextLine.k \in {"1", "2", "3", "5", "6", "8"}
  /\ lpGot' = [lpGot EXCEPT !.rules = Append(@, Delivered(MatchRule(NextLine)))]
  /\ lpIn' = [lpIn EXCEPT !.pos = @ + 1, !.prio = IF NextLine.k = "6" THEN @ + 1 ELSE @]
  /\ UNCHANGED <<lpOut, lpFile, lpAsked>>
ReadExt ==
  /\ Reading /\ lpIn.part = "rules" /\ NextLine.k \in {"90", "91", "92"}
  /\ LET v == IF NextLine.k = "92" THEN "release"
              ELSE CASE NextLine.nums[2] = 0 -> "false" [] NextLine.nums[2] = 1 -> "true"
                     [] OTHER -> "free"
     IN lpGot' = IF NextLine.k = "90" THEN lpGot
                 ELSE [lpGot EXCEPT !.externals = Append(@, <<NextLine.nums[1], v>>)]
  /\ lpIn' = [lpIn EXCEPT !.pos = @ + 1]
  /\ UNCHANGED <<lpOut, lpFile, lpAsked>>

\* map_symbol: an edge, or a modification of an atom that has its name already
\* or is waited for
Known(n) == {p[2] : p \in {q \in lpIn.atoms : q[1] = n}}
ReadSymbol ==
  /\ Reading /\ lpIn.part = "symbols" /\ NextLine.k = "7"
  /\ LET a == NextLine.nums[1]
         n == NextLine.name
         edge == lpIn.edges /\ n = "edge"
         heu == lpIn.heus /\ n \in HeuNames
         now == heu /\ Known(Target(n)) \ {0} # {}
     IN /\ lpGot' = [lpGot EXCEPT
                       !.edges = IF edge THEN @ \union {a} ELSE @,
                       !.heus = IF now THEN Append(@, <<CHOOSE t \in Known(Target(n)) : TRUE, a>>)
                                ELSE @,
                       !.shown = IF edge /\ lpIn.filter THEN @ ELSE @ \union {<<a, n>>}]
        /\ lpIn' = [lpIn EXCEPT
                      !.pos = @ + 1,
                      !.nodes = IF edge /\ @ = <<>> THEN <<"u", "v">> ELSE @,
                      !.pending = IF heu /\ ~now THEN Append(@, <<Target(n), a>>) ELSE @,
                      !.atoms = IF ~lpIn.heus THEN @
                                ELSE {p \in @ : p[1] # n} \union {<<n, a>>}
                                     \union (IF heu /\ Known(Target(n)) = {}
                                             THEN {<<Target(n), 0>>} ELSE {})]
  /\ UNCHANGED <<lpOut, lpFile, lpAsked>>

\* the end of a section; after the symbols the modifications that waited are
\* delivered, those of atoms without a name are dropped
EndPart ==
  /\ Reading /\ NextLine.k = "0"
  /\ LET waited == SelectSeq(lpIn.pending, LAMBDA p : Known(p[1]) \ {0} # {})
     IN IF lpIn.part = "rules"
        THEN /\ lpIn' = [lpIn EXCEPT !.pos = @ + 1, !.part = "symbols"]
             /\ lpGot' = lpGot
        ELSE /\ lpIn' = [lpIn EXCEPT !.pos = @ + 1, !.part = "compute", !.pending = <<>>,
                                     !.atoms = IF lpOut.incr THEN @ ELSE {},
                                     !.nodes = IF lpOut.incr THEN @ ELSE <<>>]
             /\ lpGot' = [lpGot EXCEPT !.heus = @ \o [i \in DOMAIN waited |->
                            <<CHOOSE t \in Known(waited[i][1]) : TRUE, waited[i][2]>>]]
  /\ UNCHANGED <<lpOut, lpFile, lpAsked>>

ReadCompute ==
  /\ Reading /\ lpIn.part = "compute" /\ NextLine.k \in {"B+", "B-"}
  /\ lpGot' = [lpGot EXCEPT !.rules = @ \o
                 [i \in DOMAIN NextLine.nums |->
                    Delivered(AddGoals(StartBody(NoRule),
                      <<IF NextLine.k = "B+" THEN -NextLine.nums[i] ELSE NextLine.nums[i]>>, <<1>>))]]
  /\ lpIn' = [lpIn EXCEPT !.pos = @ + 1]
  /\ UNCHANGED <<lpOut, lpFile, lpAsked>>
\* read_extra; the writer never writes the block of externals that may precede
\* the number of models
ReadExtra ==
  /\ Reading /\ NextLine.k = "end"
  /\ lpIn' = [lpIn EXCEPT !.pos = @ + 1, !.part = "rules", !.prio = 0]
  /\ UNCHANGED <<lpOut, lpFile, lpGot, lpAsked>>
LpNext ==
  \/ BeginLpStep \/ WriteLpRule \/ WriteLpWeighted \/ WriteLpMinimize \/ WriteLpExternal
  \/ WriteSymbol \/ WriteAssumption \/ EndLpStep
  \/ ReadRule \/ ReadExt \/ ReadSymbol \/ EndPart \/ ReadCompute \/ ReadExtra

-----------------------------------------------------------------------------
(* Property *)

EdgeFiltered(s) == s[2] = "edge" /\ lpIn.edges /\ lpIn.filter
\* set aside: see ConvertedHidden
HeuristicFiltered(s) == s[2] \in HeuNames /\ lpIn.heus /\ lpIn.filter
\* the modifications of atoms named in the same or in an earlier step
Modified ==
  {<<t[1], s[1]>> : t \in lpAsked.shown, s \in {p \in lpAsked.shown : p[2] \in HeuNames}}
Meant ==
  {m \in Modified : \E t, s \in lpAsked.shown :
     /\ m = <<t[1], s[1]>> /\ s[2] \in HeuNames /\ t[2] = Target(s[2]) /\ t[3] <= s[3]}

\* What SmodelsOutput wrote SmodelsInput reads back: every rule with its head,
\* bound and weighted body, the assumptions and falsity as constraints behind
\* the rules of their step, the externals in their order, the names of the
\* atoms (not the edges, if converted predicates are to be hidden, and whether
\* the heuristic ones then show is left open), and the modification of every atom
\* that has its name by the end of the symbols of the step; and no line is met
\* where the reader does not expect it.
LpReadBack ==
  /\ Reading => \/ lpIn.part = "rules" /\ NextLine.k \in {"0", "1", "2", "3", "5", "6", "8", "90", "91", "92"}
                \/ lpIn.part = "symbols" /\ NextLine.k \in {"0", "7"}
                \/ lpIn.part = "compute" /\ NextLine.k \in {"B+", "B-", "end"}
  /\ lpOut.section = 3 /\ lpIn.pos = Len(lpFile) =>
       /\ lpGot.rules = lpAsked.rules
       /\ lpGot.externals = lpAsked.externals
       /\ {s \in lpGot.shown : ~HeuristicFiltered(s)} =
            {<<s[1], s[2]>> : s \in {q \in lpAsked.shown : ~EdgeFiltered(q) /\ ~HeuristicFiltered(q)}}
       /\ ToSet(lpGot.heus) = IF lpIn.heus THEN Meant ELSE {}

\* What the filter option says of itself, "Hide converted potassco predicates"
\* (app/lpconvert.rs): once a name has been converted it is not shown. Edges are
\* hidden; map_symbol answers FALSE for heuristic predicates, which show.
ConvertedHidden ==
  lpIn.filter /\ lpIn.heus => \A s \in lpGot.shown : s[2] \notin HeuNames
=============================================================================

----------------------------- MODULE ConfigText -----------------------------
(***************************************************************************)
(* Option values as text: satelite, optimization and restart parameters    *)
(* and the enumerated values, the parsers and the formatters of            *)
(* clasp_options.rs.  A text is the sequence of its comma separated words; *)
(* the user edits the text the program shows and gives it back.            *)
(***************************************************************************)
EXTENDS Naturals, Sequences, FiniteSets

CONSTANTS CfgEdits,     \* bound: words changed
          CfgNumMax     \* bound: a value with a larger number is not edited further

VARIABLES cfgKind, cfgValue, cfgLine, cfgEdits

cfgVars == <<cfgKind, cfgValue, cfgLine, cfgEdits>>

(***************************************************************************)
(* The words of the enumerated command line values.  An enumeration is the *)
(* table CliEnum::entries of <<word, value>> pairs, in the order in which  *)
(* from_chars and canonical_key search it, and the values that EnumTag     *)
(* knows although the table gives them no word.                            *)
(***************************************************************************)
Enum(entries, wordless) == [entries |-> entries, wordless |-> wordless]
Words(entries) == Enum(entries, {})

-----------------------------------------------------------------------------
ContextEnums == [
  ShareMode |-> Words(<<<<"no", 0>>, <<"all", 3>>, <<"auto", 4>>, <<"problem", 1>>,
                        <<"learnt", 2>>>>),
  ShortSimpMode |-> Words(<<<<"no", 0>>, <<"learnt", 1>>, <<"all", 2>>>>)]

OptEnums == [
  Type |-> Words(<<<<"bb", 0>>, <<"usc", 1>>>>),
  BBAlgo |-> Words(<<<<"lin", 0>>, <<"hier", 1>>, <<"inc", 2>>, <<"dec", 3>>>>),
  UscAlgo |-> Words(<<<<"oll", 0>>, <<"one", 1>>, <<"k", 2>>, <<"pmres", 3>>>>),
  UscOption |-> Words(<<<<"disjoint", 1>>, <<"succinct", 2>>, <<"stratify", 4>>>>),
  UscTrim |-> Words(<<<<"lin", 1>>, <<"rgs", 4>>, <<"min", 6>>, <<"exp", 5>>,
                      <<"inv", 2>>, <<"bin", 3>>>>),
  OptHeuristic |-> Words(<<<<"sign", 1>>, <<"model", 2>>>>)]

HeuristicEnums == [
  VarType |-> Words(<<<<"atom", 1>>, <<"body", 2>>, <<"hybrid", 3>>>>),
  HeuristicType |-> Enum(<<<<"berkmin", 1>>, <<"vmtf", 3>>, <<"vsids", 2>>, <<"domain", 4>>,
                           <<"unit", 5>>, <<"auto", 0>>, <<"none", 6>>>>, {7})]

DomainEnums == [
  Score |-> Words(<<<<"auto", 0>>, <<"min", 1>>, <<"set", 2>>, <<"multiset", 3>>>>),
  ScoreOther |-> Words(<<<<"auto", 0>>, <<"no", 1>>, <<"loop", 2>>, <<"all", 3>>>>),
  DomMod |-> Enum(<<<<"level", 1>>, <<"pos", 2>>, <<"true", 3>>, <<"neg", 4>>, <<"false", 5>>,
                    <<"init", 6>>, <<"factor", 7>>>>, {0}),
  DomPref |-> Words(<<<<"all", 0>>, <<"scc", 1>>, <<"hcc", 2>>, <<"disj", 4>>, <<"opt", 8>>,
                      <<"show", 16>>>>)]

SolverEnums == [
  SignHeu |-> Words(<<<<"asp", 0>>, <<"pos", 1>>, <<"neg", 2>>, <<"rnd", 3>>>>),
  WatchInit |-> Words(<<<<"rnd", 0>>, <<"first", 1>>, <<"least", 2>>>>),
  UpdateMode |-> Words(<<<<"propagate", 0>>, <<"conflict", 1>>>>),
  CCMinType |-> Words(<<<<"local", 0>>, <<"recursive", 1>>>>),
  CCMinAntes |-> Enum(<<<<"all", 0>>, <<"short", 1>>, <<"binary", 2>>>>, {3}),
  LbdMode |-> Enum(<<<<"less", 1>>, <<"glucose", 2>>, <<"pseudo", 3>>>>, {0})]

SearchEnums == [
  CCRepMode |-> Words(<<<<"no", 0>>, <<"decisionSeq", 1>>, <<"allUIP", 2>>, <<"dynamic", 3>>>>),
  Forget |-> Words(<<<<"varScores", 1>>, <<"signs", 2>>, <<"lemmaScores", 4>>, <<"lemmas", 8>>>>),
  ReasonStrategy |-> Enum(<<<<"common", 0>>, <<"shared", 3>>, <<"distinct", 2>>, <<"no", 1>>>>, {4}),
  Keep |-> Words(<<<<"n", 0>>, <<"r", 1>>, <<"b", 2>>, <<"br", 3>>, <<"rb", 3>>>>),
  SeqUpdate |-> Words(<<<<"no", 0>>, <<"repeat", 1>>, <<"disable", 2>>>>),
  Algorithm |-> Words(<<<<"basic", 0>>, <<"sort", 1>>, <<"ipSort", 2>>, <<"ipHeap", 3>>>>),
  ReduceScore |-> Words(<<<<"activity", 0>>, <<"lbd", 1>>, <<"mixed", 2>>>>)]

AspEnums == [
  ExtendedRuleMode |-> Enum(<<<<"no", 0>>, <<"all", 1>>, <<"choice", 2>>, <<"card", 3>>,
                              <<"weight", 4>>, <<"scc", 5>>, <<"integ", 7>>, <<"dynamic", 8>>>>, {6}),
  AtomSorting |-> Words(<<<<"no", 1>>, <<"auto", 0>>, <<"number", 2>>, <<"name", 3>>,
                          <<"natural", 4>>, <<"arity", 5>>, <<"full", 6>>>>)]

SolveEnums == [
  SearchMode |-> Words(<<<<"compete", 1>>, <<"split", 0>>>>),
  DistributionMode |-> Words(<<<<"global", 0>>, <<"local", 1>>>>),
  Filter |-> Words(<<<<"all", 0>>, <<"gp", 1>>, <<"unsat", 2>>, <<"active", 3>>>>),
  Topology |-> Words(<<<<"all", 0>>, <<"ring", 1>>, <<"cube", 2>>, <<"cubex", 3>>>>),
  EnumType |-> Enum(<<<<"bt", 1>>, <<"record", 2>>, <<"domRec", 3>>, <<"brave", 5>>,
                      <<"cautious", 6>>, <<"query", 7>>, <<"auto", 0>>, <<"user", 8>>>>, {4})]

OutputEnums == [
  DistributedTypes |-> Enum(<<<<"all", 3>>, <<"short", 4>>, <<"conflict", 1>>, <<"loop", 2>>>>, {0}),
  ProjectMode |-> Words(<<<<"auto", 0>>, <<"show", 1>>, <<"project", 2>>>>),
  MinimizeMode |-> Words(<<<<"opt", 1>>, <<"enum", 2>>, <<"optN", 3>>, <<"ignore", 0>>>>)]

MovingAvgType == Words(<<<<"d", 0>>, <<"e", 1>>, <<"l", 2>>, <<"es", 3>>, <<"ls", 4>>>>)

ConfigKey == Words(
  <<<<"auto", 0>>, <<"tweety", 1>>, <<"trendy", 2>>, <<"frumpy", 3>>, <<"crafty", 4>>,
    <<"jumpy", 5>>, <<"handy", 6>>, <<"s6", 8>>, <<"s7", 9>>, <<"s8", 10>>, <<"s9", 11>>,
    <<"s10", 12>>, <<"s11", 13>>, <<"s12", 14>>, <<"s13", 15>>, <<"nolearn", 16>>,
    <<"tester", 17>>, <<"many", 19>>>>)

-----------------------------------------------------------------------------
(* from_chars takes the first entry with the word before the comma,        *)
(* canonical_key the first with the value; both fail without one.          *)

Entries(e) == {e.entries[i] : i \in DOMAIN e.entries}
Named(e, word) == \E p \in Entries(e) : p[1] = word
Worded(e, value) == \E p \in Entries(e) : p[2] = value
FirstWith(e, i, x) ==
  e.entries[CHOOSE n \in DOMAIN e.entries :
              e.entries[n][i] = x /\ \A m \in 1..(n - 1) : e.entries[m][i] # x]
ValueOf(e, word) == FirstWith(e, 1, word)[2]
WordOf(e, value) == FirstWith(e, 2, value)[1]
ValuesOf(e) == {p[2] : p \in Entries(e)} \cup e.wordless

-----------------------------------------------------------------------------

\* one word of a text: a name, a number, or a number behind "key="
Name(w) == [key |-> "", name |-> w, num |-> 0]
Num(n) == [key |-> "", name |-> "", num |-> n]
Keyed(k, n) == [key |-> k, name |-> "", num |-> n]
IsNum(t) == t.key = "" /\ t.name = ""
IsName(t, e) == t.key = "" /\ Named(e, t.name)
From(text, i) == SubSeq(text, i, Len(text))

Bad == [ok |-> FALSE]
Ok(v) == [ok |-> TRUE, val |-> v]

-----------------------------------------------------------------------------
(* Preprocessor parameters: positional or named limits, capped to zero.    *)

SatKeys == <<"iter", "occ", "time", "frozen", "size">>
SatCaps == <<2047, 65535, 4095, 127, 65535>>
SatDefault == [type |-> 0, lims |-> <<0, 0, 0, 0, 4000>>]

\* reading word t with p.at the position that an unnamed limit has
ReadLimit(p, t) ==
  LET named == {i \in DOMAIN SatKeys : SatKeys[i] = t.key}
      at == IF named = {} THEN p.at ELSE CHOOSE i \in named : TRUE
  IN IF at > 5 \/ t.name # "" THEN [p EXCEPT !.ok = FALSE]
     ELSE [p EXCEPT !.at = at + 1, !.lims[at] = t.num]

ReadSat(text) ==
  LET limits[i \in 1..Len(text)] ==
        IF i = 1 THEN [ok |-> TRUE, at |-> 1, lims |-> SatDefault.lims]
        ELSE IF limits[i - 1].ok THEN ReadLimit(limits[i - 1], text[i]) ELSE limits[i - 1]
      read == limits[Len(text)]
  IN IF text = <<Name("no")>> THEN Ok(SatDefault)
     ELSE IF ~IsNum(text[1]) \/ text[1].num > 3 \/ ~read.ok THEN Bad
     ELSE Ok([type |-> text[1].num,
              lims |-> [i \in 1..5 |-> IF read.lims[i] <= SatCaps[i] THEN read.lims[i] ELSE 0]])

WriteSat(v) ==
  IF v.type = 0 THEN <<Name("no")>>
  ELSE LET Set(i) == v.lims[i] > 0
       IN <<Num(v.type)>> \o
          [n \in 1..Cardinality({i \in 1..5 : Set(i)}) |->
             LET i == CHOOSE j \in 1..5 : Set(j) /\ Cardinality({k \in 1..j : Set(k)}) = n
             IN Keyed(SatKeys[i], v.lims[i])]

-----------------------------------------------------------------------------
(* Optimization parameters: words, or one number of the older versions.    *)

Bit(n, i) == (n \div 2^i) % 2 = 1

SetOptLegacy(n) ==
  LET opts == n - 4
  IN IF n >= 20 THEN Bad
     ELSE IF n <= 4 THEN Ok([type |-> IF n < 4 THEN 0 ELSE 1, algo |-> IF n < 4 THEN n ELSE 0,
                             opts |-> 0, k |-> 0])
     ELSE Ok([type |-> 1, algo |-> IF Bit(opts, 2) THEN 3 ELSE 0, k |-> 0,
              opts |-> (IF Bit(opts, 0) THEN 1 ELSE 0) + (IF Bit(opts, 1) THEN 2 ELSE 0)
                       + (IF Bit(opts, 3) THEN 4 ELSE 0)])

\* a number passes when it is one bit or has all the bits up to one of them
ReadBits(text) ==
  LET words == {text[i].name : i \in DOMAIN text}
  IN IF Len(text) = 1 /\ IsNum(text[1])
     THEN IF \E i \in 0..2 : text[1].num = 2^i \/ \A j \in 0..i : Bit(text[1].num, j)
          THEN Ok(text[1].num) ELSE Bad
     ELSE IF \E i \in DOMAIN text : ~IsName(text[i], OptEnums.UscOption) THEN Bad
     ELSE Ok((IF "disjoint" \in words THEN 1 ELSE 0) + (IF "succinct" \in words THEN 2 ELSE 0)
             + (IF "stratify" \in words THEN 4 ELSE 0))

WriteBits(bits) ==
  LET Set(p) == Bit(bits \div p[2], 0)
      set == SelectSeq(OptEnums.UscOption.entries, Set)
  IN [i \in DOMAIN set |-> Name(set[i][1])]

SetOrFill15(n) == IF n <= 2^15 - 1 THEN n ELSE 2^15 - 1

ReadUsc(text) ==
  LET named == text # <<>> /\ IsName(text[1], OptEnums.UscAlgo)
      limited == named /\ text[1].name = "k" /\ Len(text) > 1
      rest == From(text, IF limited THEN 3 ELSE IF named THEN 2 ELSE 1)
      opts == IF rest = <<>> \/ rest = <<Name("no")>> THEN Ok(0) ELSE ReadBits(rest)
  IN IF (limited /\ ~IsNum(text[2])) \/ ~opts.ok THEN Bad
     ELSE Ok([type |-> 1, algo |-> IF named THEN ValueOf(OptEnums.UscAlgo, text[1].name) ELSE 0,
              opts |-> opts.val, k |-> IF limited THEN SetOrFill15(text[2].num) ELSE 0])

ReadOpt(text) ==
  IF Len(text) = 1 /\ IsNum(text[1]) THEN SetOptLegacy(text[1].num)
  ELSE IF ~IsName(text[1], OptEnums.Type) THEN Bad
  ELSE LET base == IF text[1].name = "usc" THEN 4 ELSE 0
       IN IF Len(text) = 1 THEN SetOptLegacy(base)
          ELSE IF Len(text) = 2 /\ IsNum(text[2]) THEN SetOptLegacy(text[2].num + base)
          ELSE IF base = 4 THEN ReadUsc(Tail(text))
          ELSE IF Len(text) = 2 /\ IsName(text[2], OptEnums.BBAlgo)
          THEN Ok([SetOptLegacy(0).val EXCEPT !.algo = ValueOf(OptEnums.BBAlgo, text[2].name)])
          ELSE Bad

WriteOpt(v) ==
  IF v.type = 0 THEN <<Name("bb"), Name(WordOf(OptEnums.BBAlgo, v.algo))>>
  ELSE <<Name("usc"), Name(WordOf(OptEnums.UscAlgo, v.algo))>>
       \o (IF v.algo = 2 THEN <<Num(v.k)>> ELSE <<>>)
       \o (IF v.opts # 0 THEN WriteBits(v.opts) ELSE <<>>)

-----------------------------------------------------------------------------
(* Restart schedules: the fixed sequences and the dynamic kind "d".        *)

AtLeast(n, low) == IF n < low THEN low ELSE n

\* ScheduleStrategy::new; the limit of a luby sequence becomes the length of
\* the shortest one that holds as many elements, twice over
Schedule(type, base, grow, len) ==
  [type |-> type, base |-> base,
   grow |-> IF type = "geom" THEN AtLeast(grow, 1) ELSE grow,
   len |-> IF type # "luby" \/ len = 0 THEN len
           ELSE LET pow == CHOOSE e \in 0..15 : 2^e >= len /\ \A f \in 0..(e - 1) : 2^f < len
                IN AtLeast((2^pow - 1) * 2, 2)]

ScheduleWords == [fixed |-> {"f", "fixed"}, luby |-> {"l", "luby"},
                  geom |-> {"x", "*"}, arith |-> {"+", "add"}]
\* the parameters of each kind: those that must and those that may be given
Required == [fixed |-> 1, luby |-> 1, geom |-> 2, arith |-> 2]
Optional == [fixed |-> 0, luby |-> 1, geom |-> 1, arith |-> 1]

ReadSchedule(text) ==
  LET kinds == {k \in DOMAIN ScheduleWords : text[1].key = "" /\ text[1].name \in ScheduleWords[k]}
      kind == CHOOSE k \in kinds : TRUE
      given == Len(text) - 1
      Param(i) == IF i <= given THEN text[i + 1].num ELSE 0
  IN IF \/ kinds = {}
        \/ given < Required[kind] \/ given > Required[kind] + Optional[kind]
        \/ \E i \in 1..given : ~IsNum(text[i + 1])
        \/ text[2].num = 0
     THEN Bad
     ELSE Ok(CASE kind = "fixed" -> Schedule("arith", Param(1), 0, 0)
               [] kind = "luby" -> Schedule("luby", Param(1), 0, Param(2))
               [] OTHER -> Schedule(kind, Param(1), Param(2), Param(3)))

\* a disabled schedule, base 0, is written "0"
Disabled(v) == v.base = 0
WriteSchedule(v) ==
  LET limit == IF v.len # 0 THEN <<Num(v.len)>> ELSE <<>>
  IN CASE Disabled(v) -> <<Num(0)>>
       [] v.type = "geom" -> <<Name("x"), Num(v.base), Num(v.grow)>> \o limit
       [] v.type = "luby" -> <<Name("l"), Num(v.base)>> \o limit
       [] v.type = "arith" /\ v.grow # 0 -> <<Name("+"), Num(v.base), Num(v.grow)>> \o limit
       [] OTHER -> <<Name("f"), Num(v.base)>>

\* RestartSchedule::dynamic and its getters, the fields unpacked
Dynamic(base, k, lim, fast, keep, slow, win) ==
  [type |-> "dynamic", base |-> base, grow |-> k, len |-> lim, fast |-> fast,
   keep |-> keep, slow |-> slow, win |-> IF win < 2^24 THEN win ELSE 2^24 - 1]

\* the slow average stands behind the keep word, which may be missing
KeepSaid(text) ==
  Len(text) >= 6 /\ text[5].name # "d" /\ IsName(text[6], SearchEnums.Keep)
SlowAtSkipped(text) == IF Len(text) >= 6 /\ text[5].name # "d" THEN 7 ELSE 6
SlowAt(text) == IF KeepSaid(text) THEN 7 ELSE 6

ReadDynamic(text) ==
  LET given == Len(text)
      at == SlowAt(text)
      Number(i) == IF i <= given THEN text[i].num ELSE 0
      Avg(i) == IF i <= given THEN ValueOf(MovingAvgType, text[i].name) ELSE 0
  IN IF \/ given < 3 \/ given > at + 1
        \/ \E i \in {2, 3, 4, at + 1} \cap 1..given : ~IsNum(text[i])
        \/ \E i \in {5, at} \cap 1..given : ~IsName(text[i], MovingAvgType)
        \/ text[2].num = 0 \/ text[3].num = 0
        \/ given > at /\ Avg(at) = 0
     THEN Bad
     ELSE Ok(Dynamic(text[2].num, text[3].num, Number(4), Avg(5),
                     IF KeepSaid(text) THEN ValueOf(SearchEnums.Keep, text[6].name) ELSE 0,
                     Avg(at), Number(at + 1)))

WriteDynamic(v) ==
  LET averages == v.fast # 0 \/ v.slow # 0
      Avg(a) == <<Name(WordOf(MovingAvgType, a))>>
  IN <<Name("d"), Num(v.base), Num(v.grow)>>
     \o (IF v.len # 0 \/ averages THEN <<Num(v.len)>> ELSE <<>>)
     \o (IF averages THEN Avg(v.fast) ELSE <<>>)
     \o (IF v.fast # 0 /\ v.keep # 0 THEN <<Name(WordOf(SearchEnums.Keep, v.keep))>> ELSE <<>>)
     \o (IF v.slow # 0 THEN Avg(v.slow) ELSE <<>>)
     \o (IF v.slow # 0 /\ v.win # 0 THEN <<Num(v.win)>> ELSE <<>>)

ReadRestart(text) ==
  IF Len(text) > 1 /\ text[1] = Name("d") THEN ReadDynamic(text) ELSE ReadSchedule(text)
WriteRestart(v) == IF v.type = "dynamic" /\ ~Disabled(v) THEN WriteDynamic(v) ELSE WriteSchedule(v)

-----------------------------------------------------------------------------
Enumerations ==
  [context |-> ContextEnums, opt |-> OptEnums, heuristic |-> HeuristicEnums,
   domain |-> DomainEnums, solver |-> SolverEnums, search |-> SearchEnums,
   asp |-> AspEnums, solve |-> SolveEnums, output |-> OutputEnums,
   other |-> [MovingAvgType |-> MovingAvgType, ConfigKey |-> ConfigKey]]

\* kinds of values: <<"sat", "">>, <<"opt", "">>, <<"restart", "">> or an enumeration
EnumKinds == UNION {{<<g, n>> : n \in DOMAIN Enumerations[g]} : g \in DOMAIN Enumerations}
IsEnum(kind) == kind[2] # ""
EnumOf(kind) == Enumerations[kind[1]][kind[2]]

\* parse_exact and to_chars: no comma, and no word for a wordless value
ReadEnum(e, text) ==
  IF Len(text) = 1 /\ IsName(text[1], e) THEN Ok([v |-> ValueOf(e, text[1].name)]) ELSE Bad
WriteEnum(e, val) == IF Worded(e, val.v) THEN <<Name(WordOf(e, val.v))>> ELSE <<Name("empty")>>

Read(kind, text) ==
  CASE IsEnum(kind) -> ReadEnum(EnumOf(kind), text)
    [] kind[1] = "sat" -> ReadSat(text)
    [] kind[1] = "opt" -> ReadOpt(text)
    [] OTHER -> ReadRestart(text)

Write(kind, v) ==
  CASE IsEnum(kind) -> WriteEnum(EnumOf(kind), v)
    [] kind[1] = "sat" -> WriteSat(v)
    [] kind[1] = "opt" -> WriteOpt(v)
    [] OTHER -> WriteRestart(v)

-----------------------------------------------------------------------------
\* values a caller builds: the defaults, the presets', the schedules none() and
\* def() that are disabled, and a few dynamic ones
Built ==
  {[kind |-> k, val |-> v] : k \in {<<"sat", "">>},
     v \in {SatDefault, [type |-> 2, lims |-> <<20, 25, 240, 0, 4000>>]}}
  \cup {[kind |-> <<"opt", "">>, val |-> SetOptLegacy(n).val] : n \in {0, 4, 9, 18}}
  \cup {[kind |-> <<"restart", "">>, val |-> v] :
          v \in {Schedule("geom", 100, 2, 0), Schedule("luby", 60, 0, 3), Schedule("arith", 9, 5, 2),
                 Schedule("geom", 0, 2, 0), Schedule("arith", 0, 0, 0), Dynamic(0, 1, 0, 0, 0, 0, 0)}
               \cup {Dynamic(100, 1, lim, fast, keep, slow, win) :
                       lim \in {0, 15}, fast \in {0, 1}, keep \in 0..3, slow \in {0, 3}, win \in {0, 32}}}
  \cup UNION {{[kind |-> k, val |-> [v |-> v]] : v \in ValuesOf(EnumOf(k))} : k \in EnumKinds}

CfgWords(kind) ==
  CASE IsEnum(kind) -> {Name(p[1]) : p \in Entries(EnumOf(kind))}
    [] kind[1] = "sat" -> {Name("no"), Num(0), Num(2), Num(5000), Keyed("occ", 5), Keyed("size", 0)}
    [] kind[1] = "opt" -> {Name(w) : w \in {"bb", "inc", "usc", "k", "pmres", "succinct", "stratify", "no"}}
                          \cup {Num(0), Num(5), Num(7)}
    [] OTHER -> {Name(w) : w \in {"d", "e", "es", "n", "b", "rb", "f", "luby", "x", "+"}} \cup {Num(0), Num(2)}

OptTextInit ==
  \E b \in Built :
    /\ cfgKind = b.kind /\ cfgValue = b.val
    /\ cfgLine = Write(b.kind, b.val) /\ cfgEdits = 0

\* the user replaces, adds or drops one word
CfgEdit ==
  /\ cfgEdits < CfgEdits /\ cfgEdits' = cfgEdits + 1
  /\ \A i \in DOMAIN cfgLine : cfgLine[i].num <= CfgNumMax
  /\ \/ \E i \in DOMAIN cfgLine, w \in CfgWords(cfgKind) : cfgLine' = [cfgLine EXCEPT ![i] = w]
     \/ \E i \in 0..Len(cfgLine), w \in CfgWords(cfgKind) :
          cfgLine' = SubSeq(cfgLine, 1, i) \o <<w>> \o From(cfgLine, i + 1)
     \/ \E i \in 2..Len(cfgLine) : cfgLine' = SubSeq(cfgLine, 1, i - 1) \o From(cfgLine, i + 1)
  /\ UNCHANGED <<cfgKind, cfgValue>>

\* the text is read; an error leaves the value, and the value is shown again
CfgLoad ==
  LET read == Read(cfgKind, cfgLine)
      val == IF read.ok THEN read.val ELSE cfgValue
  IN /\ cfgLine # Write(cfgKind, cfgValue)
     /\ \A i \in DOMAIN cfgLine : cfgLine[i].num <= CfgNumMax
     /\ cfgValue' = val /\ cfgLine' = Write(cfgKind, val)
     /\ UNCHANGED <<cfgKind, cfgEdits>>

OptTextNext == CfgEdit \/ CfgLoad

-----------------------------------------------------------------------------
\* what of a value matters: nothing of a preprocessor that is off, no limit of a
\* sequence that never grows
Meaning(kind, v) ==
  CASE kind[1] = "sat" /\ v.type = 0 -> SatDefault
    [] kind[1] = "restart" /\ v.type = "arith" /\ v.grow = 0 -> [v EXCEPT !.len = 0]
    [] OTHER -> v

\* the values whose text says something else: a clause limit of zero reads as
\* the default, undefined option bits and the wordless values are not written;
\* the "0" of a disabled schedule is refused, a luby limit above two grows, and
\* without an average its keep word or its window is not written
LostWithAverage(v) == (v.fast = 0 /\ v.keep # 0) \/ (v.slow = 0 /\ v.win # 0)
Unkept(kind, v) ==
  CASE IsEnum(kind) -> ~Worded(EnumOf(kind), v.v)
    [] kind[1] = "sat" -> v.type # 0 /\ v.lims[5] = 0
    [] kind[1] = "opt" -> v.opts > 7 \/ (v.k # 0 /\ v.algo # 2)
    [] OTHER -> \/ Disabled(v)
                \/ v.type = "luby" /\ v.len > 2
                \/ v.type = "dynamic" /\ LostWithAverage(v)

\* An option's value survives its text: what the formatter of a value of any
\* kind writes, its parser reads again, and as the same value, whatever the
\* words were that the value was read from; but for the values of Unkept (the
\* parse_* and format_* pairs of clasp_options.rs).
TextKept ==
  Unkept(cfgKind, cfgValue)
    \/ LET again == Read(cfgKind, Write(cfgKind, cfgValue))
       IN again.ok /\ Meaning(cfgKind, again.val) = Meaning(cfgKind, cfgValue)
=============================================================================

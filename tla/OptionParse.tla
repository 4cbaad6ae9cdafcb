---------------------------- MODULE OptionParse ----------------------------
(***************************************************************************)
(* Program options (potassco/program_opts/program_options.rs, value.rs,    *)
(* typed_value.rs): a context of named options in groups with an index of  *)
(* names, one-letter aliases and further alias names; parsers that read a  *)
(* command line or a configuration file into a parse context; and the      *)
(* defaults, which are assigned to what no source mentioned.               *)
(*                                                                         *)
(* A name is a sequence of parts so that names can be prefixes of others,  *)
(* an alias is the letter of the name's first part. A value is "1", "no",  *)
(* "imp" (the implicit value of an option that is no flag) or "bad", which *)
(* no option accepts; flags reject "imp".                                  *)
(***************************************************************************)
EXTENDS Integers, Sequences, FiniteSets, SequencesExt

CONSTANTS OptAdds,    \* bound on the options declared
          OptTokens,  \* bound on the tokens or lines of all sources
          OptSources  \* bound on the sources

VARIABLES ctx,     \* OptionContext: the options, index, groups; whether an add failed
          parser,  \* DefaultParseContext and the parser that runs on it
          values,  \* for each option what its action was given, and `defaulted`
          said     \* what the sources said so far: [key, v]

optVars == <<ctx, parser, values, said>>

OptNames == {<<"f">>, <<"f", "b">>, <<"b">>}
Specs == {<<"+", "-">>, <<"-">>, <<"*", "!">>, <<"*", "*">>}
NoSection == [key |-> <<>>, v |-> ""]

OptInit ==
  /\ ctx = [opts |-> <<>>, index |-> {}, groups |-> <<>>, failed |-> FALSE, closed |-> FALSE]
  /\ parser = [src |-> 0, kind |-> "none", parsed |-> {}, seen |-> {}, section |-> NoSection,
               tokens |-> 0, settled |-> FALSE]
  /\ values = <<>>
  /\ said = <<>>

-----------------------------------------------------------------------------
(* Declaring options                                                       *)

\* OptionGroupInit::apply_spec: no modifier twice
ValidSpec(spec) == \A i, j \in DOMAIN spec : i # j => spec[i] # spec[j]
\* ValueDesc: what the modifiers say of the value
ValueDesc(spec, implicit) ==
  [composing |-> "+" \in ToSet(spec), negatable |-> "!" \in ToSet(spec),
   flag |-> "*" \in ToSet(spec), implicit |-> implicit \/ "*" \in ToSet(spec)]
OptionOf(name, spec, implicit, default) ==
  ValueDesc(spec, implicit) @@
  [name |-> name, alias |-> IF "-" \in ToSet(spec) THEN <<"-", name[1]>> ELSE <<>>,
   default |-> default]

HasKey(c, key) == \E e \in c.index : e[1] = key

\* add_to_index: the alias is entered before the name is found to be taken
AddToIndex(c, o) ==
  LET pos == Len(c.opts) + 1
      aliased == IF o.alias = <<>> THEN c
                 ELSE [c EXCEPT !.index = @ \union {<<o.alias, pos>>}]
  IN CASE c.failed \/ (o.alias # <<>> /\ HasKey(c, o.alias)) -> [c EXCEPT !.failed = TRUE]
       [] HasKey(aliased, o.name) -> [aliased EXCEPT !.failed = TRUE]
       [] OTHER -> [aliased EXCEPT !.index = @ \union {<<o.name, pos>>}, !.opts = Append(@, o)]

\* add_group: one group per caption, with the lower of the levels
GroupAt(c, caption) == CHOOSE i \in DOMAIN c.groups : c.groups[i].caption = caption
AddGroup(c, caption, level) ==
  IF \E g \in ToSet(c.groups) : g.caption = caption
  THEN [c EXCEPT !.groups[GroupAt(c, caption)].level = IF level < @ THEN level ELSE @]
  ELSE [c EXCEPT !.groups = Append(@, [caption |-> caption, level |-> level, members |-> <<>>])]

\* what OptionContext::add and add_option do with the options of one group
AddOptions(c, caption, level, opts) ==
  LET done == FoldLeft(AddToIndex, AddGroup(c, caption, level), opts)
  IN IF done.failed THEN done
     ELSE [done EXCEPT !.groups[GroupAt(done, caption)].members = @ \o opts]

Declaring == ~ctx.closed /\ ~ctx.failed

DeclareOption ==
  /\ Declaring /\ Len(ctx.opts) < OptAdds
  /\ \E name \in OptNames, spec \in Specs, default \in {"1", "bad"} :
       LET o == OptionOf(name, spec, Len(name) = 2, IF name = <<"b">> THEN "" ELSE default)
           caption == IF name = <<"b">> THEN "" ELSE "g"
           next == IF ValidSpec(spec) THEN AddOptions(ctx, caption, 0, <<o>>)
                   ELSE [AddGroup(ctx, caption, 0) EXCEPT !.failed = TRUE]
       IN /\ ctx' = next
          /\ values' = IF next.failed THEN values ELSE Append(values, [got |-> <<>>, defaulted |-> FALSE])
  /\ UNCHANGED <<parser, said>>

\* OptionContext::add with a group of two options
AddGroupOfOptions ==
  /\ Declaring /\ Len(ctx.opts) + 1 < OptAdds
  /\ \E level \in 0..1, two \in {<<1, 2>>, <<2, 1>>, <<3, 3>>} :
       LET pool == <<OptionOf(<<"f">>, <<"-">>, FALSE, "1"), OptionOf(<<"f", "b">>, <<"+">>, TRUE, ""),
                     OptionOf(<<"b">>, <<"-">>, FALSE, "")>>
           next == AddOptions(ctx, "g", level, <<pool[two[1]], pool[two[2]]>>)
       IN /\ ctx' = next
          /\ values' = values \o [i \in 1..(Len(next.opts) - Len(ctx.opts)) |->
                                    [got |-> <<>>, defaulted |-> FALSE]]
  /\ UNCHANGED <<parser, said>>

\* add_alias: a further name of an option
AddAlias ==
  /\ Declaring /\ ctx.opts # <<>>
  /\ LET taken == HasKey(ctx, <<"b">>)
     IN ctx' = IF taken THEN [ctx EXCEPT !.failed = TRUE]
               ELSE [ctx EXCEPT !.index = @ \union {<<<<"b">>, 1>>}]
  /\ UNCHANGED <<parser, values, said>>

-----------------------------------------------------------------------------
(* Finding options                                                         *)

\* find_option: the exact key, or the only name that starts with it; the
\* position, 0 for an unknown and -1 for an ambiguous one
IsShort(key) == key # <<>> /\ key[1] = "-"
FindOption(key, alias) ==
  LET exact == {e \in ctx.index : e[1] = key}
      starting == {e \in ctx.index : IsPrefix(key, e[1]) /\ ~IsShort(e[1])}
  IN CASE exact # {} /\ IsShort(key) = alias -> (CHOOSE e \in exact : TRUE)[2]
       [] ~alias /\ Cardinality(starting) = 1 -> (CHOOSE e \in starting : TRUE)[2]
       [] ~alias /\ Cardinality(starting) > 1 -> -1
       [] OTHER -> 0

-----------------------------------------------------------------------------
(* Option::assign_internal and ParseContext::set_value                     *)

Given(o, v) == IF v = "" /\ o.implicit THEN IF o.flag THEN "1" ELSE "imp" ELSE v
Accepts(o, v) == Given(o, v) \in (IF o.flag THEN {"1", "no"} ELSE {"1", "no", "imp"})
Assigned(pos, v, defaulted) ==
  [values EXCEPT ![pos].got = Append(@, Given(ctx.opts[pos], v)), ![pos].defaulted = defaulted]

StateInSource(o) == IF o.name \in parser.seen THEN "seen" ELSE "open"
StateOf(o) == IF o.name \in parser.parsed THEN "skip"
              ELSE IF o.name \in parser.seen THEN "seen" ELSE "open"

\* finish: what was seen counts as parsed, also after an error
Finished(p) == [p EXCEPT !.parsed = @ \union p.seen, !.seen = {}, !.kind = "none",
                         !.section = NoSection]

\* get_option and apply_value: what becomes of the parser p and the values
Outcome(p, vals) == [p |-> p, vals |-> vals]
Failure == Outcome(Finished(parser), values)
Apply(pos, v, p) ==
  IF pos <= 0 THEN Failure
  ELSE LET o == ctx.opts[pos]
       IN CASE ~o.composing /\ StateOf(o) = "skip" -> Outcome(p, values)
            [] \/ ~o.composing /\ StateOf(o) = "seen"
               \/ ~Accepts(o, v) -> Failure
            [] OTHER -> Outcome([p EXCEPT !.seen = @ \union {o.name}], Assigned(pos, v, FALSE))
Becomes(out) == parser' = out.p /\ values' = out.vals
FailSource == Becomes(Failure)

-----------------------------------------------------------------------------
(* Sources                                                                 *)

StartSource ==
  /\ ~ctx.failed /\ ctx.opts # <<>> /\ parser.kind = "none" /\ ~parser.settled
  /\ parser.src < OptSources
  /\ \E kind \in {"command", "flags", "file"} :
       parser' = [parser EXCEPT !.src = @ + 1, !.kind = kind]
  /\ ctx' = [ctx EXCEPT !.closed = TRUE]
  /\ UNCHANGED <<values, said>>

Reading(kinds) == parser.kind \in kinds /\ parser.tokens < OptTokens
Counted1 == [parser EXCEPT !.tokens = @ + 1]
Say(key, v) == said' = Append(said, [key |-> key, v |-> v])
CommandLine == {"command", "flags"}

\* handle_long_opt: `--no-name` falls back to a negatable option; a value that
\* is missing is the next argument, if there is one
LongOption ==
  /\ Reading(CommandLine)
  /\ \E key \in OptNames, no \in BOOLEAN, given \in {"none", "1", "bad"}, more \in {"", "1"} :
       /\ no => given = "none"
       /\ LET found == FindOption(key, FALSE)
              negated == no /\ found > 0 /\ ctx.opts[found].negatable
              pos == IF no /\ ~negated THEN 0 ELSE found
              o == ctx.opts[pos]
              take == given = "none" /\ ~no /\ ~o.implicit
              v == IF no THEN "no" ELSE IF take THEN more ELSE IF given = "none" THEN "" ELSE given
              allowed == no \/ parser.kind = "flags" \/ given = "none"
          IN /\ (pos > 0 /\ take) \/ more = ""
             /\ IF pos <= 0 \/ (take /\ more = "") \/ (o.flag /\ ~allowed)
                THEN FailSource /\ UNCHANGED said
                ELSE Becomes(Apply(pos, v, Counted1)) /\ Say(key, v)
  /\ UNCHANGED ctx

\* handle_short_opt: flags may be joined, `-fb`; another option takes the rest
\* or the next argument
ShortOption ==
  /\ Reading(CommandLine)
  /\ \E letter \in {"f", "b"}, v \in {"", "1"} :
       LET pos == FindOption(<<"-", letter>>, TRUE)
           o == ctx.opts[pos]
       IN IF pos = 0 \/ (~o.implicit /\ v = "") THEN FailSource /\ UNCHANGED said
          ELSE LET used == IF o.flag THEN "" ELSE v
               IN Becomes(Apply(pos, used, Counted1)) /\ Say(<<"-", letter>>, used)
  /\ UNCHANGED ctx

\* handle_positional_opt: the caller maps a token to the name of an option
Positional ==
  /\ Reading(CommandLine)
  /\ LET pos == FindOption(<<"b">>, FALSE)
     IN Becomes(Apply(pos, "1", Counted1)) /\ (IF pos > 0 THEN Say(<<"b">>, "1") ELSE UNCHANGED said)
  /\ UNCHANGED ctx

\* parse_cfg_file: a value may continue on the next lines, so an option is
\* applied when the next one, a blank line or the end of the file is read
InSection == parser.section.key # <<>>
ApplySection(p) ==
  IF InSection THEN Apply(FindOption(parser.section.key, FALSE), parser.section.v, p)
  ELSE Outcome(p, values)

SectionLine ==
  /\ Reading({"file"})
  /\ \E key \in OptNames, v \in {"", "1"} :
       /\ Becomes(ApplySection([Counted1 EXCEPT !.section = [key |-> key, v |-> v]]))
       /\ IF parser'.kind = "file" THEN Say(key, v) ELSE UNCHANGED said
  /\ UNCHANGED ctx

BlankLine ==
  /\ Reading({"file"})
  /\ Becomes(ApplySection([Counted1 EXCEPT !.section = NoSection]))
  /\ UNCHANGED <<ctx, said>>

ContinuedLine ==
  /\ Reading({"file"})
  /\ IF InSection
     THEN /\ parser' = [Counted1 EXCEPT !.section.v = "bad"]
          /\ said' = [said EXCEPT ![Len(said)].v = "bad"]
          /\ UNCHANGED values
     ELSE FailSource /\ UNCHANGED said
  /\ UNCHANGED ctx

EndSource ==
  /\ parser.kind # "none"
  /\ LET end == IF parser.kind = "file" THEN ApplySection(parser) ELSE Outcome(parser, values)
     IN Becomes(Outcome(Finished(end.p), end.vals))
  /\ UNCHANGED <<ctx, said>>

\* assign_defaults: in the order of the options, up to an invalid default
TakesDefault(pos) ==
  LET o == ctx.opts[pos]
  IN o.name \notin parser.parsed /\ o.default # "" /\ ~values[pos].defaulted
AssignDefaults ==
  /\ parser.kind = "none" /\ parser.src > 0 /\ ~parser.settled
  /\ LET wrong == {pos \in DOMAIN values : TakesDefault(pos) /\ ~Accepts(ctx.opts[pos], ctx.opts[pos].default)}
     IN values' = [pos \in DOMAIN values |->
                     IF TakesDefault(pos) /\ \A w \in wrong : pos < w
                     THEN [got |-> Append(values[pos].got, ctx.opts[pos].default), defaulted |-> TRUE]
                     ELSE values[pos]]
  /\ parser' = [parser EXCEPT !.settled = TRUE]
  /\ UNCHANGED <<ctx, said>>

OptNext ==
  \/ DeclareOption \/ AddGroupOfOptions \/ AddAlias
  \/ StartSource \/ LongOption \/ ShortOption \/ Positional
  \/ SectionLine \/ BlankLine \/ ContinuedLine \/ EndSource
  \/ AssignDefaults

-----------------------------------------------------------------------------
(* Between sources every option holds what it was told first: an option    *)
(* that takes one value holds the first one it accepts, whichever source   *)
(* and however abbreviated, a composing one all of them in order; only     *)
(* what no source told anything has its default, and is marked so.         *)
Means(pos, key) ==
  LET o == ctx.opts[pos]
      names(p) == {ctx.opts[p].name} \union (IF p = 1 /\ <<<<"b">>, 1>> \in ctx.index THEN {<<"b">>} ELSE {})
  IN IF IsShort(key) THEN o.alias = key
     ELSE \/ key \in names(pos)
          \/ /\ \A p \in DOMAIN ctx.opts : key \notin names(p)
             /\ \E n \in names(pos) : IsPrefix(key, n)
Told(pos) ==
  LET heard(s) == Means(pos, s.key) /\ Accepts(ctx.opts[pos], s.v)
      all == SelectSeq(said, heard)
      given == [i \in DOMAIN all |-> Given(ctx.opts[pos], all[i].v)]
  IN IF ctx.opts[pos].composing \/ given = <<>> THEN given ELSE <<given[1]>>

ToldFirst ==
  (parser.kind = "none" /\ ~ctx.failed) =>
    \A pos \in DOMAIN values :
      LET mine == values[pos]
      IN IF mine.defaulted THEN Told(pos) = <<>> /\ mine.got = <<ctx.opts[pos].default>>
         ELSE mine.got = Told(pos)
=============================================================================

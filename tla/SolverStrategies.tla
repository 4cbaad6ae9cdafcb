-------------------------- MODULE SolverStrategies --------------------------
(***************************************************************************)
(* The schedules of restarts and deletions, the moving averages that       *)
(* dynamic restarts compare, and the configurations of solvers and         *)
(* searches (clasp/solver_strategies.rs, the averages of                   *)
(* clasp/util/misc_types.rs).                                              *)
(*                                                                         *)
(* A schedule is advanced one step at a time by next() and, when a run is  *)
(* resumed, by advance_to(n): `ticks' counts the calls of next() since the *)
(* schedule was last reset and `origin' is the schedule as it was then.    *)
(* `fed' holds the samples pushed into the fast average since it was last  *)
(* cleared; `cfls' counts the conflicts.                                   *)
(*                                                                         *)
(* An average is kept as its sum and its count; exponential averages, the  *)
(* block limit and the rounding of floats are left out, rk counts in steps *)
(* of 0.05, growth factors are integers, and the thresholds 16000, 4000    *)
(* and 1000 are multiples of the constant Kilo (1000 in the code).         *)
(*                                                                         *)
(* Solver i uses the search configuration i modulo their number, so that   *)
(* several solvers may share one. Options are 0 (off) or 1 (on) unless     *)
(* they have names; `learning' stands for the options that only matter     *)
(* with learning (compress, save_progress, reverse_arcs, otfs, update_lbd, *)
(* cc_min_antes, bump_var_act), `dom' for dom_pref and dom_mod, the bits   *)
(* of a warning are a set.                                                 *)
(***************************************************************************)
EXTENDS Integers, Sequences, FiniteSetsExt, SequencesExt

CONSTANTS SchedTicks,    \* calls of next() that are explored
          SchedSamples,  \* conflicts fed to the dynamic limit
          Kilo,          \* the unit of the dynamic limit's thresholds
          CfgSolvers, CfgSearches,   \* bounds on the lengths of the two lists
          CfgChanges                 \* bound on the changes that are explored

VARIABLES sched, origin, ticks, dyn, fed, cfls,
          solvers,   \* the solver configurations
          searches,  \* the search configurations
          settled,   \* prepare ran since the last change
          changes    \* the changes so far

schedVars == <<sched, origin, ticks, dyn, fed, cfls>>
cfgVars == <<solvers, searches, settled, changes>>

NoLimit == 10^9                                        \* u32::MAX

-----------------------------------------------------------------------------
(* ScheduleStrategy *)

MaxOf(a, b) == IF a < b THEN b ELSE a
MinOf(a, b) == IF a < b THEN a ELSE b
PowersUpTo(n) == {2^e : e \in 0..n}
CeilPow(n) == Min({p \in PowersUpTo(n) : p >= n})

New(type, base, grow, len) ==
  [type |-> type, base |-> base, idx |-> 0,
   grow |-> CASE type = "geom" -> MaxOf(grow, 1)
              [] type = "arith" -> MaxOf(grow, 0)
              [] type = "luby" -> 0,
   len |-> IF type = "luby" /\ len # 0 THEN MaxOf(2 * (CeilPow(len) - 1), 2)
           ELSE len]

Disabled(s) == s.base = 0

\* luby_r: strip the largest complete prefix until idx + 1 is 2^n - 1
LubyOf[i \in Nat] ==
  IF i + 1 \in PowersUpTo(i + 1) THEN (i + 1) \div 2
  ELSE LubyOf[i - (Max({p \in PowersUpTo(i) : p <= i}) - 1)]
Luby(idx) == LubyOf[idx + 1]

Current(s) ==
  IF Disabled(s) THEN "never"
  ELSE CASE s.type = "geom" -> s.grow ^ s.idx * s.base
         [] s.type = "arith" -> s.grow * s.idx + s.base
         [] s.type = "luby" -> Luby(s.idx) * s.base

NextOf(s) ==
  IF s.idx + 1 # s.len THEN [s EXCEPT !.idx = @ + 1]
  ELSE [s EXCEPT !.idx = 0,
                 !.len = (@ + 1) * (IF s.type = "luby" THEN 2 ELSE 1)]

\* the number of whole periods L, L+1, L+2, ... that fit into n steps
Root(n) == CHOOSE r \in 0..n : r * r <= n /\ n < (r + 1) * (r + 1)
PeriodsShort(len, n) ==
  (Root(8 * n + len * (4 * len - 4)) - 2 * len + 1) \div 2
Periods(len, n) ==
  (Root(8 * (n + 1) + len * (4 * len - 4)) - 2 * len + 1) \div 2

LubyAdvance[len \in Nat, n \in Nat] ==              \* the new <<len, idx>>
  IF n < len THEN <<len, n>> ELSE LubyAdvance[2 * (len + 1), n - len]

AdvanceTo(s, n) ==
  IF s.len = 0 \/ n < s.len THEN [s EXCEPT !.idx = n]
  ELSE IF s.type = "luby"
  THEN LET at == LubyAdvance[s.len, n] IN [s EXCEPT !.len = at[1], !.idx = at[2]]
  ELSE LET x == Periods(s.len, n)
       IN [s EXCEPT !.idx = n - (x * s.len + (x * (x - 1)) \div 2), !.len = @ + x]

-----------------------------------------------------------------------------
(* MovingAvg: the mean over the last `win' samples, or over all if win = 0. *)
(* While the window is not full, `pos' samples make up the sum.             *)

Avg(win) == [win |-> win, sum |-> 0, pos |-> 0, full |-> win = 0,
             buf |-> [i \in 1..win |-> 0]]

Push(a, v) ==
  IF a.win = 0 THEN [a EXCEPT !.sum = @ + v, !.pos = @ + 1]
  ELSE LET last == a.pos + 1 = a.win
       IN [a EXCEPT !.sum = @ + v - (IF a.full THEN a.buf[a.pos + 1] ELSE 0),
                    !.buf[a.pos + 1] = v,
                    !.pos = IF last THEN 0 ELSE @ + 1,
                    !.full = @ \/ last]

ClearSum(a) == [a EXCEPT !.sum = 0, !.pos = 0]
Clear(a) == [a EXCEPT !.sum = 0, !.pos = 0, !.full = a.win = 0]

Count(a) == IF a.win # 0 /\ a.full THEN a.win ELSE a.pos
\* a.get() > b.get() with integer factors; an empty average is 0
Exceeds(a, f, b) ==
  f * a.sum * MaxOf(Count(b), 1) > b.sum * MaxOf(Count(a), 1)

-----------------------------------------------------------------------------
(* RestartSchedule::dynamic packs its parameters into the idx field: three *)
(* bits for each kind of average, two for keep, the rest for the window.   *)

KeepBits == [never |-> 0, restart |-> 1, block |-> 2, always |-> 3]
Dynamic(base, k, lim, keep, slowWin) ==
  [base |-> base, grow |-> k, len |-> lim,
   idx |-> KeepBits[keep] * 64 + MinOf(slowWin, 2^24 - 1) * 256]
KeepAvg(rs) == CHOOSE k \in DOMAIN KeepBits : KeepBits[k] = (rs.idx \div 64) % 4
SlowWin(rs) == rs.idx \div 256
AdjustLim(rs) == IF rs.len # NoLimit THEN 16 * Kilo ELSE NoLimit

Keeps(keep, on) == (keep = "always" /\ on # "never") \/ (keep = on /\ on # "never")

ResetAdjust(d, k, type, limit) ==
  [d EXCEPT !.rk = k, !.type = type, !.limit = limit, !.restarts = 0, !.samples = 0]

NewDynamic(rs) ==
  [lbd |-> Avg(SlowWin(rs)), cfl |-> Avg(SlowWin(rs)), avg |-> Avg(MaxOf(rs.base, 1)),
   num |-> 0, keep |-> KeepAvg(rs), maxLbd |-> rs.len,
   rk |-> rs.grow, type |-> "lbd", limit |-> AdjustLim(rs), restarts |-> 0,
   samples |-> 0]

ResetRun(d, on) ==
  [d EXCEPT !.num = 0, !.avg = IF Keeps(d.keep, on) THEN @ ELSE Clear(@)]

Update(d, level, lbd) ==
  [d EXCEPT !.samples = @ + 1, !.num = @ + 1,
            !.cfl = Push(@, level), !.lbd = Push(@, lbd),
            !.avg = Push(@, IF d.type = "lbd" THEN lbd ELSE level)]

\* avg_restart() >= n
RunsLongerThan(d, n) == d.restarts # 0 /\ d.samples >= n * d.restarts

\* the new factor and limit when the type of the limit stays
Adjusted(d, minK) ==
  IF RunsLongerThan(d, 16 * Kilo) THEN [k |-> d.rk + 2, lim |-> 16 * Kilo]
  ELSE IF d.num >= d.limit
       THEN [k |-> d.rk + 1, lim |-> MaxOf(MaxOf(d.limit, 16 * Kilo) - 10 * Kilo, 16 * Kilo)]
  ELSE IF RunsLongerThan(d, 4 * Kilo) THEN [k |-> d.rk + 1, lim |-> d.limit]
  ELSE IF RunsLongerThan(d, Kilo)
       THEN [k |-> d.rk, lim |-> MinOf(d.limit + 10 * Kilo, NoLimit)]
  ELSE [k |-> IF d.rk > minK THEN d.rk - 1 ELSE d.rk, lim |-> d.limit]

Restart(d0, maxLbd, minK) ==
  LET d == [d0 EXCEPT !.restarts = @ + 1]
      type == IF maxLbd # 0 /\ d.lbd.sum > maxLbd * MaxOf(Count(d.lbd), 1)
              THEN "level" ELSE "lbd"
      new == IF type = d.type THEN Adjusted(d, minK) ELSE [k |-> d.rk, lim |-> d.limit]
  IN ResetRun(IF d.limit # NoLimit /\ d.samples >= d.limit
              THEN ResetAdjust(d, new.k, type, new.lim) ELSE d, "restart")

Reached(d) ==
  /\ d.num >= d.avg.win
  /\ Exceeds([d.avg EXCEPT !.sum = @ * d.rk], 1,
             [d[IF d.type = "lbd" THEN "lbd" ELSE "cfl"] EXCEPT !.sum = @ * 20])

-----------------------------------------------------------------------------
FedAfter(d, on) == IF Keeps(d.keep, on) THEN fed ELSE <<>>
Fit(s, w) == IF Len(s) <= w THEN s ELSE SubSeq(s, Len(s) - w + 1, Len(s))

SchedInit ==
  /\ sched \in {New(t, 1, 2, l) : t \in {"geom", "arith", "luby"}, l \in 0..5}
  /\ origin = sched
  /\ ticks = 0
  /\ dyn \in {NewDynamic(Dynamic(w, 16, lim, k, sw)) :
                w \in 1..2, lim \in {2, NoLimit}, k \in DOMAIN KeepBits, sw \in {0, 3}}
  /\ fed = <<>>
  /\ cfls = 0

\* an instance either steps its schedule or feeds its dynamic limit
Fresh == New("geom", 1, 2, 0)

Tick ==
  /\ ticks < SchedTicks
  /\ cfls = 0
  /\ sched' = NextOf(sched)
  /\ ticks' = ticks + 1
  /\ UNCHANGED <<origin, dyn, fed, cfls>>

MaxResetLen == 3               \* bound: a schedule with longer periods is not reset

ResetSchedule ==
  /\ origin.len <= MaxResetLen
  /\ sched' = [sched EXCEPT !.idx = 0]
  /\ origin' = sched'
  /\ ticks' = 0
  /\ UNCHANGED <<dyn, fed, cfls>>

Conflict ==
  /\ sched = Fresh /\ cfls < SchedSamples
  /\ \E s \in {<<4, 1>>, <<3, 3>>} :           \* conflict level and lbd
       /\ dyn' = Update(dyn, s[1], s[2])
       /\ fed' = Fit(Append(fed, IF dyn.type = "lbd" THEN s[2] ELSE s[1]), dyn.avg.win)
  /\ cfls' = cfls + 1
  /\ UNCHANGED <<sched, origin, ticks>>

DoRestart ==
  /\ Reached(dyn)
  /\ dyn' = Restart(dyn, dyn.maxLbd, 14)
  /\ fed' = FedAfter(dyn, "restart")
  /\ UNCHANGED <<sched, origin, ticks, cfls>>

DoBlock ==
  /\ dyn' = ResetRun(dyn, "block")
  /\ fed' = FedAfter(dyn, "block")
  /\ UNCHANGED <<sched, origin, ticks, cfls>>

ResetAt == 3                   \* bound: the conflicts after which it is reset

\* reset forgets the averages of the whole search, too
ResetLimit ==
  /\ cfls = ResetAt
  /\ dyn' = ResetRun([dyn EXCEPT !.lbd = Clear(@), !.cfl = Clear(@)], "never")
  /\ fed' = FedAfter(dyn, "never")
  /\ UNCHANGED <<sched, origin, ticks, cfls>>

SchedNext == Tick \/ ResetSchedule \/ Conflict \/ DoRestart \/ DoBlock \/ ResetLimit

-----------------------------------------------------------------------------
(* Resuming a schedule with advance_to(n) puts it where n calls of next()  *)
(* put it, over any number of its growing periods: the closed formula and  *)
(* the loop of advance_to agree with the step in next().                   *)
AdvanceExact == AdvanceTo(origin, ticks) = sched

(* The fast average is the mean of exactly the last samples of the window  *)
(* since it was cleared: clearing leaves old samples in the ring buffer,   *)
(* and none of them may reach the mean again.                              *)
WindowMean ==
  /\ dyn.avg.sum = FoldLeft(+, 0, fed)
  /\ Count(dyn.avg) = Len(fed)

-----------------------------------------------------------------------------
(* Configurations *)

Lookback == {"berkmin", "vmtf", "vsids", "domain"}

DefaultSolver(id) ==
  [id |-> id, search |-> "learning", heu |-> "def", lookType |-> "none", lookOps |-> 0,
   dom |-> 0, learning |-> 0, lbd |-> "fixed"]

DefaultSearch ==
  [restart |-> "on", shuffle |-> 0, fReduce |-> 1, cfl |-> "none", grow |-> "def",
   fInit |-> 1, fMax |-> 3, protect |-> 0]

-----------------------------------------------------------------------------
(* SolverParams::prepare *)

PrepareHeuristic(s) ==
  IF s.search = "none" /\ s.heu \in Lookback
  THEN [cfg |-> [s EXCEPT !.heu = "none"], warn |-> {1}]
  ELSE [cfg |-> s, warn |-> {}]

PrepareLookahead(r) ==
  IF r.cfg.heu # "unit" THEN r
  ELSE IF r.cfg.lookType = "none"
  THEN [cfg |-> [r.cfg EXCEPT !.lookType = "atom", !.lookOps = 0], warn |-> r.warn \union {2}]
  ELSE [r EXCEPT !.cfg.lookOps = 0]

PrepareDomain(r) ==
  IF r.cfg.heu # "domain" /\ r.cfg.dom # 0
  THEN [cfg |-> [r.cfg EXCEPT !.dom = 0], warn |-> r.warn \union {4}]
  ELSE r

PrepareStrategies(r) ==
  IF r.cfg.search = "none"
  THEN [r EXCEPT !.cfg.learning = 0, !.cfg.lbd = "fixed"]
  ELSE r

PrepareSolverDomainFirst(s) ==
  LET d == PrepareDomain([cfg |-> s, warn |-> {}])
      h == PrepareHeuristic(d.cfg)
  IN PrepareStrategies(PrepareLookahead([h EXCEPT !.warn = @ \union d.warn]))
PrepareSolver(s) == PrepareStrategies(PrepareDomain(PrepareLookahead(PrepareHeuristic(s))))

(* SolveParams::prepare: RestartParams and ReduceParams *)

DisableReduce(c) ==
  [c EXCEPT !.cfl = "none", !.grow = "none", !.fReduce = 0, !.fInit = 0, !.fMax = 0]

PrepareReduce(c, lookback) ==
  IF ~lookback \/ c.fReduce = 0 THEN DisableReduce(c)
  ELSE [c EXCEPT !.cfl = IF @ = "def" /\ c.grow = "none" THEN "arith" ELSE @,
                 !.fMax = IF @ # 0 /\ @ < c.fInit THEN c.fInit ELSE @]

PrepareRestart(c, lookback) ==
  IF ~lookback \/ c.restart = "off" THEN [c EXCEPT !.restart = "off", !.shuffle = 0]
  ELSE c

PrepareSearch(c, lookback) == PrepareReduce(PrepareRestart(c, lookback), lookback)

\* the index of the search configuration that solver i uses
SearchOf(i, n) == ((i - 1) % n) + 1

PrepareOne(state, i) ==
  LET own == PrepareSolver(state.solvers[i])
      k == SearchOf(i, Len(state.searches))
      search == PrepareSearch(state.searches[k], own.cfg.search # "none")
      lbd == IF own.cfg.lbd = "fixed" /\ search.protect # 0 THEN {8} ELSE {}
  IN [solvers |-> [state.solvers EXCEPT ![i] = own.cfg],
      searches |-> [state.searches EXCEPT ![k] = search],
      warn |-> state.warn \union own.warn \union lbd]

PrepareAll ==
  FoldLeftDomain(PrepareOne, [solvers |-> solvers, searches |-> searches, warn |-> {}],
                 solvers)

-----------------------------------------------------------------------------
CfgInit ==
  /\ solvers = <<DefaultSolver(0)>>
  /\ searches = <<DefaultSearch>>
  /\ settled = FALSE
  /\ changes = 0

Changed == changes < CfgChanges /\ changes' = changes + 1 /\ settled' = FALSE

\* add_solver(i) and add_search(i) grow their list up to entry i
AddSolver ==
  /\ \E i \in Len(solvers)..CfgSolvers - 1 :
       solvers' = solvers \o [k \in 1..i + 1 - Len(solvers) |->
                                DefaultSolver(Len(solvers) + k - 1)]
  /\ Changed
  /\ UNCHANGED searches

AddSearch ==
  /\ \E i \in Len(searches)..CfgSearches - 1 :
       searches' = searches \o [k \in 1..i + 1 - Len(searches) |-> DefaultSearch]
  /\ Changed
  /\ UNCHANGED solvers

\* the options of a solver or a search as the command line sets them
SetSolver ==
  /\ \E i \in DOMAIN solvers, s \in {"learning", "none"}, d \in {0, 1},
       h \in {"vsids", "domain", "unit"} :
       solvers' = [solvers EXCEPT ![i].search = s, ![i].heu = h, ![i].dom = d,
                                  ![i].lookOps = d, ![i].learning = 1, ![i].lbd = "updated"]
  /\ Changed
  /\ UNCHANGED searches

SetSearch ==
  /\ \E k \in DOMAIN searches, f \in {0, 1}, g \in {"def", "none"}, r \in {"on", "off"} :
       searches' = [searches EXCEPT ![k].fReduce = f, ![k].cfl = "def", ![k].grow = g,
                                    ![k].fInit = 4, ![k].protect = f,
                                    ![k].restart = r, ![k].shuffle = 1]
  /\ Changed
  /\ UNCHANGED solvers

\* resize keeps the entries that stay and numbers the solvers anew
Fitted(seq, fresh) == [i \in DOMAIN fresh |-> IF i \in DOMAIN seq THEN seq[i] ELSE fresh[i]]

Resize ==
  /\ \E n \in 1..CfgSolvers, m \in 1..CfgSearches :
       /\ LET all == Fitted(solvers, [i \in 1..n |-> DefaultSolver(i - 1)])
          IN solvers' = [i \in 1..n |-> [all[i] EXCEPT !.id = i - 1]]
       /\ searches' = Fitted(searches, [i \in 1..m |-> DefaultSearch])
  /\ Changed

Reset ==
  /\ solvers' = <<DefaultSolver(0)>>
  /\ searches' = <<DefaultSearch>>
  /\ Changed

Prepare ==
  /\ solvers' = PrepareAll.solvers
  /\ searches' = PrepareAll.searches
  /\ settled' = TRUE
  /\ UNCHANGED changes

CfgNext == AddSolver \/ AddSearch \/ SetSolver \/ SetSearch \/ Resize \/ Reset \/ Prepare

-----------------------------------------------------------------------------
(* Preparing a configuration once is enough, although several solvers may  *)
(* share a search and prepare it one after the other, a learning one maybe *)
(* after one without learning: what prepare has settled a second prepare   *)
(* neither changes nor warns about again (but for the protection that a    *)
(* fixed LBD makes void, which stays), and nobody without learning is left *)
(* with restarts or with deletion.                                         *)
PrepareSettles ==
  settled =>
    /\ PrepareAll.solvers = solvers /\ PrepareAll.searches = searches
    /\ PrepareAll.warn \subseteq {8}
    /\ \A i \in DOMAIN solvers : solvers[i].search = "none" =>
         LET c == searches[SearchOf(i, Len(searches))]
         IN c.restart = "off" /\ c.fReduce = 0 /\ c.cfl = "none"
=============================================================================

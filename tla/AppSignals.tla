------------------------------ MODULE AppSignals ------------------------------
(***************************************************************************)
(* Application::main and the alarm of the time limit. The alarm is not a   *)
(* signal: every set_alarm starts a thread that sleeps, checks that its    *)
(* generation is still the active one and then runs process_signal on the  *)
(* application registered in the process-wide slot, concurrently with the  *)
(* main thread. The flags of ApplicationBase are atomics; each step below  *)
(* is one access to them, or one section under the lock of the slot or of  *)
(* the alarm state.                                                        *)
(***************************************************************************)
EXTENDS Integers, FiniteSets

CONSTANTS
  AppRuns,      \* calls of main in this process
  AppAlarms,    \* alarm threads ever started
  AppCalls      \* calls of the signal API that run() makes

VARIABLES appBase, slot, alarm, thr, appLeft

appVars == <<appBase, slot, alarm, thr, appLeft>>

Main == 0
AlarmThreads == 1..AppAlarms
SigAlrm == 14

(* appBase: the fields of ApplicationBase. slot: whether the application is*)
(* registered, and the thread that holds the slot's lock. alarm: the       *)
(* generations, and those that a successful kill has cancelled (history).  *)
(* thr: where a thread is, the error main caught, the value process_signal *)
(* saved; asked is set when a fast exit was asked for (history).           *)
NoOne == -1
Idle == [at |-> "idle", gen |-> 0, err |-> "none", saved |-> FALSE]

AppInit ==
  /\ appBase = [exit |-> "fail", running |-> FALSE, blocked |-> 0, pending |-> 0,
             fast |-> FALSE, timeout |-> 0, asked |-> FALSE, options |-> FALSE]
  /\ slot = [set |-> FALSE, owner |-> NoOne]
  /\ alarm = [gen |-> 0, active |-> 0, killed |-> {}]
  /\ thr = [t \in {Main} \cup AlarmThreads |-> Idle]
  /\ appLeft = [runs |-> AppRuns, calls |-> AppCalls]

At(t, pc) == thr[t].at = pc
Go(t, pc) == thr' = [thr EXCEPT ![t].at = pc]
SlotFree == slot.owner = NoOne

(***************************************************************************)
(* main, up to run().                                                      *)
(***************************************************************************)
(* init_instance.                                                          *)
StartMain ==
  /\ At(Main, "idle") /\ appLeft.runs > 0 /\ SlotFree
  /\ appLeft' = [appLeft EXCEPT !.runs = @ - 1]
  /\ slot' = [slot EXCEPT !.set = TRUE]
  /\ thr' = [thr EXCEPT ![Main] = [Idle EXCEPT !.at = "reset"]]
  /\ UNCHANGED <<appBase, alarm>>

ResetForRun ==
  /\ At(Main, "reset")
  /\ appBase' = [appBase EXCEPT !.exit = "fail", !.blocked = 0, !.pending = 0, !.fast = FALSE,
                          !.running = TRUE, !.asked = FALSE, !.options = FALSE]
  /\ Go(Main, "options") /\ UNCHANGED <<slot, alarm, appLeft>>

(* apply_options: wrong options, help or version, or a run with a time     *)
(* limit and --fast-exit as given. Only a run is shut down later.          *)
ApplyOptions ==
  /\ At(Main, "options")
  /\ \/ /\ thr' = [thr EXCEPT ![Main].at = "handle", ![Main].err = "failure"]
        /\ UNCHANGED appBase
     \/ /\ \E f \in BOOLEAN : appBase' = [appBase EXCEPT !.timeout = 0, !.fast = f, !.asked = f, !.exit = "ok"]
        /\ Go(Main, "finish")
     \/ \E limit \in {0, 1}, f \in BOOLEAN :
          /\ appBase' = [appBase EXCEPT !.timeout = limit, !.fast = f, !.asked = f, !.options = TRUE]
          /\ Go(Main, IF limit = 0 THEN "success" ELSE "limit")
  /\ UNCHANGED <<slot, alarm, appLeft>>

(* platform::set_alarm: kills the alarm, takes a new generation and starts *)
(* its thread. The generation stays active when no thread can be started.  *)
Cancel(a) ==
  IF a.active = 0 THEN a
  ELSE [a EXCEPT !.gen = @ + 1, !.active = 0, !.killed = @ \cup {a.active}]

SetAlarm(ok, failed) ==
  /\ LET a == Cancel(alarm)
     IN  /\ alarm' = [a EXCEPT !.gen = @ + 1, !.active = a.gen + 1]
         /\ \/ \E t \in AlarmThreads :
                 /\ thr[t].gen = 0 /\ \A u \in 1..t - 1 : thr[u].gen # 0
                 /\ thr' = [thr EXCEPT ![t] = [Idle EXCEPT !.at = "sleep", !.gen = a.gen + 1],
                                       ![Main].at = ok]
            \/ thr' = [thr EXCEPT ![Main].at = failed]
  /\ UNCHANGED <<appBase, slot, appLeft>>

ApplyLimit == At(Main, "limit") /\ SetAlarm("stored", "failing")

(* fail, while running: the exit code is set, the message thrown.          *)
Fail ==
  /\ At(Main, "failing")
  /\ appBase' = [appBase EXCEPT !.exit = "fail"]
  /\ thr' = [thr EXCEPT ![Main].at = "shutdown", ![Main].err = "failure"]
  /\ UNCHANGED <<slot, alarm, appLeft>>

StoreLimit ==
  /\ At(Main, "stored")
  /\ appBase' = [appBase EXCEPT !.timeout = 1]
  /\ Go(Main, "success") /\ UNCHANGED <<slot, alarm, appLeft>>

Succeed ==
  /\ At(Main, "success")
  /\ appBase' = [appBase EXCEPT !.exit = "ok"]
  /\ Go(Main, "run") /\ UNCHANGED <<slot, alarm, appLeft>>

(***************************************************************************)
(* setup() and run() of the application: anything of the public API.       *)
(***************************************************************************)
Calls(pc) == At(Main, "run") /\ appLeft.calls > 0 /\ appLeft' = [appLeft EXCEPT !.calls = @ - 1] /\ Go(Main, pc)

(* set_alarm_ms(0) only stores the limit.                                  *)
ClearLimit == Calls("run") /\ appBase' = [appBase EXCEPT !.timeout = 0] /\ UNCHANGED <<slot, alarm>>
ChangeLimit == Calls("rearm") /\ UNCHANGED <<appBase, slot, alarm>>
Rearm == At(Main, "rearm") /\ SetAlarm("rearmed", "run")
StoreRearmed ==
  /\ At(Main, "rearmed")
  /\ appBase' = [appBase EXCEPT !.timeout = 1]
  /\ Go(Main, "run") /\ UNCHANGED <<slot, alarm, appLeft>>

Block == Calls("blocked") /\ appBase' = [appBase EXCEPT !.blocked = @ + 1] /\ UNCHANGED <<slot, alarm>>

Unblock ==
  /\ At(Main, "blocked")
  /\ appBase' = [appBase EXCEPT !.blocked = @ - 1]
  /\ Go(Main, IF appBase.blocked = 1 THEN "take_pending" ELSE "run")
  /\ UNCHANGED <<slot, alarm, appLeft>>

TakePending ==
  /\ At(Main, "take_pending")
  /\ \E deliver \in BOOLEAN :
       Go(Main, IF appBase.pending # 0 /\ deliver THEN "block" ELSE "run")
  /\ appBase' = [appBase EXCEPT !.pending = 0]
  /\ UNCHANGED <<slot, alarm, appLeft>>

(* run() returns, stops or panics; a payload main does not know asks for a *)
(* fast exit.                                                              *)
EndRun ==
  /\ At(Main, "run")
  /\ \/ Go(Main, "shutdown") /\ UNCHANGED appBase
     \/ /\ \E code \in {"ok", "fail"} : appBase' = [appBase EXCEPT !.exit = code]
        /\ thr' = [thr EXCEPT ![Main].at = "shutdown", ![Main].err = "stop"]
     \/ Go(Main, "failing") /\ UNCHANGED appBase
     \/ /\ \E e \in {"failure", "unknown"} : thr' = [thr EXCEPT ![Main].at = "shutdown", ![Main].err = e]
        /\ UNCHANGED appBase
  /\ UNCHANGED <<slot, alarm, appLeft>>

(***************************************************************************)
(* main, from the shutdown on.                                             *)
(***************************************************************************)
BlockForShutdown ==
  /\ At(Main, "shutdown")
  /\ appBase' = [appBase EXCEPT !.blocked = @ + 1]
  /\ Go(Main, "kill") /\ UNCHANGED <<slot, alarm, appLeft>>

(* kill_alarm, then shutdown(), whose panic counts when there was no error.*)
KillAlarm ==
  /\ At(Main, "kill")
  /\ appBase' = [appBase EXCEPT !.timeout = 0]
  /\ Go(Main, IF appBase.timeout # 0 THEN "kill_platform" ELSE "shut")
  /\ UNCHANGED <<slot, alarm, appLeft>>
KillPlatform ==
  /\ At(Main, "kill_platform")
  /\ alarm' = Cancel(alarm)
  /\ Go(Main, "shut") /\ UNCHANGED <<appBase, slot, appLeft>>
Shutdown ==
  /\ At(Main, "shut")
  /\ \E panic \in {"none", "failure"} :
       LET e == IF thr[Main].err = "none" THEN panic ELSE thr[Main].err
       IN  thr' = [thr EXCEPT ![Main].err = e, ![Main].at = IF e = "none" THEN "finish" ELSE "handle"]
  /\ UNCHANGED <<appBase, slot, alarm, appLeft>>

\* Slip: the exit code is what run() or the handler left.
ExitKept(exit, stop) == exit

ExitAfter(exit, stop) == IF exit = "ok" /\ ~stop THEN "fail" ELSE exit

(* handle_exception: an exit code of 0 gives way to that of the error; the *)
(* application decides whether an error forces a fast exit.                *)
HandleException ==
  /\ At(Main, "handle")
  /\ \E force \in BOOLEAN :
       LET stop == thr[Main].err = "stop"
           fast == ~stop /\ (force \/ thr[Main].err = "unknown")
       IN  appBase' = [appBase EXCEPT !.exit = ExitAfter(@, stop),
                                !.fast = @ \/ fast, !.asked = @ \/ fast]
  /\ Go(Main, "finish") /\ UNCHANGED <<slot, alarm, appLeft>>

Finish ==
  /\ At(Main, "finish")
  /\ Go(Main, IF appBase.fast THEN "fast_exit" ELSE "flushed")
  /\ UNCHANGED <<appBase, slot, alarm, appLeft>>

(* fast_exit: flush_instance needs the lock of the slot, then the process  *)
(* ends and its threads with it.                                           *)
FastExit ==
  /\ At(Main, "fast_exit") /\ SlotFree
  /\ thr' = [t \in DOMAIN thr |-> [thr[t] EXCEPT !.at = "gone"]]
  /\ appLeft' = [appLeft EXCEPT !.runs = 0] /\ UNCHANGED <<appBase, slot, alarm>>

(* flush, running off, reset_instance.                                     *)
Return ==
  /\ At(Main, "flushed") /\ SlotFree
  /\ appBase' = [appBase EXCEPT !.running = FALSE]
  /\ slot' = [slot EXCEPT !.set = FALSE]
  /\ Go(Main, "idle") /\ UNCHANGED <<alarm, appLeft>>

(***************************************************************************)
(* The alarm thread and process_signal, which main runs too for a pending  *)
(* signal. A thread of the alarm holds the slot's lock all the while.      *)
(***************************************************************************)
\* Slip: any alarm fires that finds one active.
FiresAnyActive(t) == alarm.active # 0

Fires(t) == alarm.active = thr[t].gen

Wake(t) ==
  /\ At(t, "sleep")
  /\ Go(t, IF Fires(t) THEN "handler" ELSE "gone")
  /\ alarm' = IF Fires(t) THEN [alarm EXCEPT !.active = 0] ELSE alarm
  /\ UNCHANGED <<appBase, slot, appLeft>>

\* Slip: the slot is copied and its lock released, as flush_instance does.
HoldsNothing(t) == slot

(* alarm_handler: under the lock, and only if an application is registered.*)
Holds(t) == [slot EXCEPT !.owner = t]

EnterHandler(t) ==
  /\ At(t, "handler") /\ SlotFree
  /\ slot' = IF slot.set THEN Holds(t) ELSE slot
  /\ Go(t, IF slot.set THEN "block" ELSE "gone")
  /\ UNCHANGED <<appBase, alarm, appLeft>>

SigBlock(t) ==
  /\ At(t, "block")
  /\ appBase' = [appBase EXCEPT !.blocked = @ + 1]
  /\ Go(t, IF appBase.blocked = 0 THEN "swap" ELSE "pend")
  /\ UNCHANGED <<slot, alarm, appLeft>>

SigSwap(t) ==
  /\ At(t, "swap")
  /\ appBase' = [appBase EXCEPT !.fast = TRUE]
  /\ thr' = [thr EXCEPT ![t].at = "on_signal", ![t].saved = appBase.fast]
  /\ UNCHANGED <<slot, alarm, appLeft>>

SigLeave(t) ==
  /\ thr' = [thr EXCEPT ![t].at = IF t = Main THEN "run" ELSE "gone"]
  /\ slot' = IF slot.owner = t THEN [slot EXCEPT !.owner = NoOne] ELSE slot

(* on_signal: that of the trait sets exit code and fast_exit and lets the  *)
(* program go on, as any that answers TRUE; FALSE leaves signals blocked.  *)
OnSignal(t) ==
  /\ At(t, "on_signal")
  /\ \/ \E code \in {appBase.exit, "signal"} :
          /\ appBase' = [appBase EXCEPT !.exit = code, !.fast = @ \/ code = "signal"]
          /\ Go(t, "restore") /\ UNCHANGED slot
     \/ appBase' = [appBase EXCEPT !.asked = TRUE] /\ SigLeave(t)
     \/ appBase' = [appBase EXCEPT !.exit = "fail", !.fast = TRUE, !.asked = TRUE]
        /\ Go(t, "unblock") /\ UNCHANGED slot
  /\ UNCHANGED <<alarm, appLeft>>

SigRestore(t) ==
  /\ At(t, "restore")
  /\ appBase' = [appBase EXCEPT !.fast = thr[t].saved]
  /\ Go(t, "unblock") /\ UNCHANGED <<slot, alarm, appLeft>>

SigPend(t) ==
  /\ At(t, "pend")
  /\ appBase' = [appBase EXCEPT !.pending = IF @ = 0 THEN SigAlrm ELSE @]
  /\ Go(t, "unblock") /\ UNCHANGED <<slot, alarm, appLeft>>

SigUnblock(t) ==
  /\ At(t, "unblock")
  /\ appBase' = [appBase EXCEPT !.blocked = @ - 1]
  /\ SigLeave(t) /\ UNCHANGED <<alarm, appLeft>>

ThreadStep(t) ==
  \/ Wake(t) \/ EnterHandler(t)
  \/ SigBlock(t) \/ SigSwap(t) \/ OnSignal(t) \/ SigRestore(t) \/ SigPend(t) \/ SigUnblock(t)

MainStep ==
  \/ ResetForRun \/ ApplyOptions \/ ApplyLimit \/ Fail \/ StoreLimit \/ Succeed
  \/ ClearLimit \/ ChangeLimit \/ Rearm \/ StoreRearmed \/ Block \/ Unblock \/ TakePending \/ EndRun
  \/ BlockForShutdown \/ KillAlarm \/ KillPlatform \/ Shutdown \/ HandleException
  \/ Finish \/ FastExit \/ Return

AppNext == StartMain \/ MainStep \/ \E t \in {Main} \cup AlarmThreads : ThreadStep(t)

(***************************************************************************)
(* Properties.                                                             *)
(***************************************************************************)
Handling(t) == thr[t].at \in {"swap", "on_signal", "restore"}
InHandler(t) == Handling(t) \/ thr[t].at \in {"block", "pend", "unblock"}

(* The handler never works on an application whose main has returned (it   *)
(* may be gone). In the first run it never runs twice at a time; later a   *)
(* late alarm of the run before may have been counted in blocked when      *)
(* reset_for_run cleared it.                                               *)
HandlerSafe ==
  /\ \A t \in AlarmThreads : InHandler(t) => ~At(Main, "idle")
  /\ appLeft.runs = AppRuns - 1 =>
       \A t, u \in {Main} \cup AlarmThreads : Handling(t) /\ Handling(u) => t = u

(* An alarm that kill_alarm or a later set_alarm reports as cancelled does *)
(* not fire, even when it wakes up while the next one is active.           *)
SilentStep ==
  \A t \in AlarmThreads : At(t, "sleep") /\ thr'[t].at = "handler" => thr[t].gen \notin alarm.killed
KilledStaysSilent == [][SilentStep]_appVars

(* A run that ended in an error does not return success, whatever the      *)
(* handler of the alarm did to the exit code meanwhile.                    *)
ErrorExit ==
  At(Main, "flushed") /\ thr[Main].err \in {"failure", "unknown"} => appBase.exit # "ok"

(* main leaves the process only if somebody asked for a fast exit: the     *)
(* option, an error, or a handler that does not let the program go on.     *)
FastExitAsked == At(Main, "fast_exit") => appBase.asked
===============================================================================

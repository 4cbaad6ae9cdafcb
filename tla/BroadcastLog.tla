---------------------------- MODULE BroadcastLog ----------------------------
(***************************************************************************)
(* What MultiQueue promises its users: one growing sequence of messages    *)
(* that every consumer reads from the start, in order, each message once,  *)
(* until the queue is dropped. The message a consumer has read last stays  *)
(* valid until it reads again.                                             *)
(***************************************************************************)
EXTENDS Integers, Sequences

CONSTANTS Consumers, Messages

VARIABLES
  log,    \* the messages published so far
  pos,    \* how many of them each consumer has read
  held,   \* the message each consumer has read last, 0 if there is none
  closed  \* the queue has been dropped

vars == <<log, pos, held, closed>>

Init ==
  /\ log = <<>> /\ closed = FALSE
  /\ pos = [c \in Consumers |-> 0] /\ held = [c \in Consumers |-> 0]

Publish ==
  /\ ~closed
  /\ \E m \in Messages : log' = Append(log, m)
  /\ UNCHANGED <<pos, held, closed>>

Consume(c) ==
  /\ ~closed /\ pos[c] < Len(log)
  /\ pos' = [pos EXCEPT ![c] = @ + 1]
  /\ held' = [held EXCEPT ![c] = log[pos[c] + 1]]
  /\ UNCHANGED <<log, closed>>

Close ==
  /\ ~closed /\ closed' = TRUE
  /\ held' = [c \in Consumers |-> 0]
  /\ UNCHANGED <<log, pos>>

Next == Publish \/ Close \/ \E c \in Consumers : Consume(c)

(* Every consumer that keeps asking reads every message.                   *)
Spec == Init /\ [][Next]_vars
FairSpec == Spec /\ \A c \in Consumers : WF_vars(Consume(c))
=============================================================================

------------------------------ MODULE TaskQueue ------------------------------
(***************************************************************************)
(* What an EventQueue promises to the users of EventLoop::Schedule          *)
(* (include/pedronet/queue/event_queue.h): every callback that a thread     *)
(* adds is run once, the callbacks of one thread are run in the order that   *)
(* thread added them, and every callback is eventually run.  Nothing is      *)
(* promised about the relative order of two threads' callbacks.             *)
(*                                                                         *)
(* The n-th callback that adder p adds is identified by <<p, n>>, so the    *)
(* whole promise fits in two counters per adder.                            *)
(***************************************************************************)
EXTENDS Naturals

CONSTANTS
  Adders,     \* the threads that call Add
  MaxTasks    \* bound: callbacks added by one thread

VARIABLES
  sent,       \* sent[p]: callbacks p has added
  done        \* done[p]: number of the last callback of p that has been run

vars == <<sent, done>>

Init ==
  /\ sent = [p \in Adders |-> 0]
  /\ done = [p \in Adders |-> 0]

\* EventQueue::Add takes effect.
Add(p) ==
  /\ sent[p] < MaxTasks
  /\ sent' = [sent EXCEPT ![p] = @ + 1]
  /\ UNCHANGED done

\* The loop thread runs the oldest callback of p that has not been run.
Run(p) ==
  /\ done[p] < sent[p]
  /\ done' = [done EXCEPT ![p] = @ + 1]
  /\ UNCHANGED sent

Next == \E p \in Adders : Add(p) \/ Run(p)

Spec == Init /\ [][Next]_vars /\ \A p \in Adders : WF_vars(Run(p))
=============================================================================

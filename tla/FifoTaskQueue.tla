---------------------------- MODULE FifoTaskQueue ----------------------------
(***************************************************************************)
(* The stronger promise of the two queues that hold a mutex                 *)
(* (EventBlockingQueue, EventDoubleBufferQueue): callbacks are run once and *)
(* in one global first-in first-out order, whichever threads added them.    *)
(***************************************************************************)
EXTENDS Naturals, Sequences

CONSTANTS
  Adders,     \* the threads that call Add
  MaxTasks    \* bound: callbacks added by one thread

VARIABLES
  sent,       \* sent[p]: callbacks p has added; the n-th one is <<p, n>>
  done,       \* done[p]: number of the last callback of p that has been run
  pending     \* callbacks added and not run, oldest first

vars == <<sent, done, pending>>

Init ==
  /\ sent = [p \in Adders |-> 0]
  /\ done = [p \in Adders |-> 0]
  /\ pending = <<>>

\* EventQueue::Add takes effect.
Add(p) ==
  /\ sent[p] < MaxTasks
  /\ sent' = [sent EXCEPT ![p] = @ + 1]
  /\ pending' = Append(pending, <<p, sent[p] + 1>>)
  /\ UNCHANGED done

\* The loop thread runs the oldest callback.
Run ==
  /\ pending # <<>>
  /\ LET t == Head(pending)
     IN  done' = [done EXCEPT ![t[1]] = t[2]]
  /\ pending' = Tail(pending)
  /\ UNCHANGED sent

Next == Run \/ \E p \in Adders : Add(p)

Spec == Init /\ [][Next]_vars /\ WF_vars(Run)

-----------------------------------------------------------------------------

\* One global order is an order per adder: the promise of TaskQueue.
Abstract == INSTANCE TaskQueue
=============================================================================

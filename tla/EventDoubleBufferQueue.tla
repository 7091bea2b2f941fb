------------------------ MODULE EventDoubleBufferQueue ------------------------
(***************************************************************************)
(* EventDoubleBufferQueue                                                   *)
(* (include/pedronet/queue/event_double_buffer_queue.h) with the            *)
(* EventChannel that wakes the selector.  Add is as in EventBlockingQueue;  *)
(* Process swaps the two buffers under mu_ and runs the whole batch.        *)
(***************************************************************************)
EXTENDS QueueThreads, Naturals, Sequences

VARIABLES
  sent,       \* sent[p]: callbacks p has pushed; the n-th one is <<p, n>>
  done,       \* done[p]: number of the last callback of p that has been run
  pending,    \* pending_
  running,    \* running_
  next,       \* position in running_ of the callback that runs
  mu,         \* the thread inside Add's critical section, or None
  readable,   \* the counter of the eventfd is not 0
  at,         \* where the loop thread is in Process ("wait": outside of it)
  begun       \* history: sent when the last Process began

vars == <<sent, done, pending, running, next, mu, readable, at, begun>>

Task == Adders \X (1 .. MaxTasks)

TypeOK ==
  /\ sent \in [Adders -> 0 .. MaxTasks]
  /\ done \in [Adders -> 0 .. MaxTasks]
  /\ pending \in Seq(Task)
  /\ running \in Seq(Task)
  /\ next \in 1 .. Len(running) + 1
  /\ mu \in Adders \cup {None}
  /\ readable \in BOOLEAN
  /\ at \in {"wait", "swap", "run"}
  /\ begun \in [Adders -> 0 .. MaxTasks]

Init ==
  /\ sent = [p \in Adders |-> 0]
  /\ done = [p \in Adders |-> 0]
  /\ pending = <<>>
  /\ running = <<>>
  /\ next = 1
  /\ mu = None
  /\ readable = FALSE
  /\ at = "wait"
  /\ begun = [p \in Adders |-> 0]

-----------------------------------------------------------------------------
(* Add.  The loop thread adds from a callback that Process runs, or from    *)
(* the handler of another channel while it is outside of Process.           *)

Push(p) ==
  /\ p = Loop => at = "wait" \/ (at = "run" /\ next <= Len(running))
  /\ mu = None
  /\ sent[p] < MaxTasks
  /\ mu' = p
  /\ sent' = [sent EXCEPT ![p] = @ + 1]
  /\ pending' = Append(pending, <<p, sent[p] + 1>>)
  /\ UNCHANGED <<done, running, next, readable, at, begun>>

\* The rest of Add: WakeUp when pending_ was empty, then unlock.
WakeUpAndUnlock(p) ==
  /\ mu = p
  /\ readable' = (readable \/ Len(pending) = 1)
  /\ mu' = None
  /\ UNCHANGED <<sent, done, pending, running, next, at, begun>>

-----------------------------------------------------------------------------
(* Process, on the loop thread.                                             *)

\* EventChannel::HandleEvents: the read resets the eventfd, then Process.
HandleEvents ==
  /\ at = "wait"
  /\ mu # Loop
  /\ readable
  /\ readable' = FALSE
  /\ at' = "swap"
  /\ UNCHANGED <<sent, done, pending, running, next, mu, begun>>

\* Mutant of Swap: the pending callbacks are copied.
SwapCopies ==
  /\ at = "swap"
  /\ mu = None
  /\ running' = pending
  /\ next' = 1
  /\ at' = "run"
  /\ begun' = sent
  /\ UNCHANGED <<sent, done, pending, mu, readable>>

Swap ==
  /\ at = "swap"
  /\ mu = None
  /\ running' = pending
  /\ pending' = running
  /\ next' = 1
  /\ at' = "run"
  /\ begun' = sent
  /\ UNCHANGED <<sent, done, mu, readable>>

\* The callback at the current position returns.
Run ==
  /\ at = "run"
  /\ mu # Loop
  /\ next <= Len(running)
  /\ LET t == running[next]
     IN  done' = [done EXCEPT ![t[1]] = t[2]]
  /\ next' = next + 1
  /\ UNCHANGED <<sent, pending, running, mu, readable, at, begun>>

Clear ==
  /\ at = "run"
  /\ next > Len(running)
  /\ running' = <<>>
  /\ next' = 1
  /\ at' = "wait"
  /\ UNCHANGED <<sent, done, pending, mu, readable, begun>>

-----------------------------------------------------------------------------

ProcessStep == HandleEvents \/ Swap \/ Run \/ Clear

Next == ProcessStep \/ \E p \in Adders : Push(p) \/ WakeUpAndUnlock(p)

\* A thread inside Add and the loop thread keep running; nobody has to add.
Fairness ==
  /\ WF_vars(ProcessStep)
  /\ \A p \in Adders : WF_vars(WakeUpAndUnlock(p))

Spec == Init /\ [][Next]_vars /\ Fairness

-----------------------------------------------------------------------------

\* While the loop thread sleeps in the selector with nothing to read on the
\* eventfd, nothing is pending unless an adder is still inside Add.
NoLostWakeup ==
  at = "wait" /\ ~readable /\ pending # <<>> => mu # None

\* A callback runs only if it was added before the Process that runs it began
\* its batch, so a callback that schedules itself again cannot keep the loop
\* thread away from the selector.
BatchWasPending == \A p \in Adders : done[p] <= begun[p]

\* Exactly once, in one global order, and eventually.
Fifo == INSTANCE FifoTaskQueue
          WITH pending <- SubSeq(running, next, Len(running)) \o pending
Implements == Fifo!Spec
=============================================================================

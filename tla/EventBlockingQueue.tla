-------------------------- MODULE EventBlockingQueue --------------------------
(***************************************************************************)
(* EventBlockingQueue (include/pedronet/queue/event_blocking_queue.h) with  *)
(* the EventChannel that wakes the selector.  Add pushes and wakes inside   *)
(* one critical section of mu_; Process pops one callback per critical      *)
(* section and runs it unlocked, until the queue is empty.                  *)
(***************************************************************************)
EXTENDS QueueThreads, Naturals, Sequences

VARIABLES
  sent,       \* sent[p]: callbacks p has pushed; the n-th one is <<p, n>>
  done,       \* done[p]: number of the last callback of p that has been run
  queue,      \* queue_
  mu,         \* the thread inside Add's critical section, or None
  readable,   \* the counter of the eventfd is not 0
  at,         \* where the loop thread is in Process ("wait": outside of it)
  callback    \* the callback popped and not yet returned, as a sequence of 0 or 1

vars == <<sent, done, queue, mu, readable, at, callback>>

Task == Adders \X (1 .. MaxTasks)

TypeOK ==
  /\ sent \in [Adders -> 0 .. MaxTasks]
  /\ done \in [Adders -> 0 .. MaxTasks]
  /\ queue \in Seq(Task)
  /\ mu \in Adders \cup {None}
  /\ readable \in BOOLEAN
  /\ at \in {"wait", "pop", "run"}
  /\ callback \in Seq(Task)
  /\ Len(callback) = IF at = "run" THEN 1 ELSE 0

Init ==
  /\ sent = [p \in Adders |-> 0]
  /\ done = [p \in Adders |-> 0]
  /\ queue = <<>>
  /\ mu = None
  /\ readable = FALSE
  /\ at = "wait"
  /\ callback = <<>>

-----------------------------------------------------------------------------
(* Add.  The loop thread adds from a callback that Process runs, or from    *)
(* the handler of another channel while it is outside of Process.           *)

Push(p) ==
  /\ p = Loop => at \in {"wait", "run"}
  /\ mu = None
  /\ sent[p] < MaxTasks
  /\ mu' = p
  /\ sent' = [sent EXCEPT ![p] = @ + 1]
  /\ queue' = Append(queue, <<p, sent[p] + 1>>)
  /\ UNCHANGED <<done, readable, at, callback>>

\* The rest of Add: WakeUp when the queue was empty, then unlock.
WakeUpAndUnlock(p) ==
  /\ mu = p
  /\ readable' = (readable \/ Len(queue) = 1)
  /\ mu' = None
  /\ UNCHANGED <<sent, done, queue, at, callback>>

-----------------------------------------------------------------------------
(* Process, on the loop thread.                                             *)

\* EventChannel::HandleEvents: the read resets the eventfd, then Process.
HandleEvents ==
  /\ at = "wait"
  /\ mu # Loop
  /\ readable
  /\ readable' = FALSE
  /\ at' = "pop"
  /\ UNCHANGED <<sent, done, queue, mu, callback>>

Pop ==
  /\ at = "pop"
  /\ mu = None
  /\ queue # <<>>
  /\ callback' = <<Head(queue)>>
  /\ queue' = Tail(queue)
  /\ at' = "run"
  /\ UNCHANGED <<sent, done, mu, readable>>

PopEmpty ==
  /\ at = "pop"
  /\ mu = None
  /\ queue = <<>>
  /\ at' = "wait"
  /\ UNCHANGED <<sent, done, queue, mu, readable, callback>>

\* Mutant of Run: Process returns after one callback.
RunOne ==
  /\ at = "run"
  /\ mu # Loop
  /\ LET t == Head(callback)
     IN  done' = [done EXCEPT ![t[1]] = t[2]]
  /\ callback' = <<>>
  /\ at' = "wait"
  /\ UNCHANGED <<sent, queue, mu, readable>>

\* The callback returns.
Run ==
  /\ at = "run"
  /\ mu # Loop
  /\ LET t == Head(callback)
     IN  done' = [done EXCEPT ![t[1]] = t[2]]
  /\ callback' = <<>>
  /\ at' = "pop"
  /\ UNCHANGED <<sent, queue, mu, readable>>

-----------------------------------------------------------------------------

ProcessStep == HandleEvents \/ Pop \/ PopEmpty \/ Run

Next == ProcessStep \/ \E p \in Adders : Push(p) \/ WakeUpAndUnlock(p)

\* A thread inside Add and the loop thread keep running; nobody has to add.
Fairness ==
  /\ WF_vars(ProcessStep)
  /\ \A p \in Adders : WF_vars(WakeUpAndUnlock(p))

Spec == Init /\ [][Next]_vars /\ Fairness

-----------------------------------------------------------------------------

\* While the loop thread sleeps in the selector with nothing to read on the
\* eventfd, nothing is queued unless an adder is still inside Add: waking only
\* when the queue was empty before the push loses no wake-up, although Process
\* has emptied the queue long before it goes back to the selector.
NoLostWakeup ==
  at = "wait" /\ ~readable /\ queue # <<>> => mu # None

\* Exactly once, in one global order, and eventually.
Fifo == INSTANCE FifoTaskQueue WITH pending <- callback \o queue
Implements == Fifo!Spec
=============================================================================

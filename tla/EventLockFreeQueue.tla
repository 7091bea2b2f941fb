-------------------------- MODULE EventLockFreeQueue --------------------------
(***************************************************************************)
(* EventLockFreeQueue (include/pedronet/queue/event_lock_free_queue.h) with *)
(* the EventChannel (src/channel/event_channel.cc) that wakes the selector. *)
(*                                                                         *)
(* Add is three separate steps of the calling thread: enqueue, the atomic   *)
(* size_.fetch_add(1), and WakeUp if the old size was 0.  Process runs on   *)
(* the loop thread: bulk dequeue, size_.fetch_add(-n), run the batch, and   *)
(* again until a bulk dequeue returns nothing.  The bulk dequeue is not     *)
(* atomic either: moodycamel::ConcurrentQueue keeps one FIFO per producer   *)
(* thread and visits the producers it knows at the start one after another. *)
(*                                                                         *)
(* size_ is a size_t that wraps below 0 when a batch is subtracted before   *)
(* its adders have counted it; its only use is the test against 0, so an    *)
(* integer that may be negative is the same thing.                          *)
(***************************************************************************)
EXTENDS QueueThreads, Integers, FiniteSets

CONSTANT
  BatchMax    \* size of the buffer of Process (32 in the code)

ASSUME BatchMaxAssumption == BatchMax \in Nat \ {0}

VARIABLES
  sent,       \* sent[p]: callbacks p has enqueued; the n-th one is <<p, n>>
  done,       \* done[p]: number of the last callback of p that has been run
  queue,      \* callbacks in queue_
  taken,      \* callbacks in buf
  size,       \* size_
  readable,   \* the counter of the eventfd is not 0
  pc,         \* pc[p]: where p is in Add
  at,         \* where the loop thread is in Process ("wait": outside of it)
  scan        \* producers that the current bulk dequeue still has to visit

vars == <<sent, done, queue, taken, size, readable, pc, at, scan>>

Task == Adders \X (1 .. MaxTasks)

OfAdder(tasks, p) == {t \in tasks : t[1] = p}

\* t is the oldest of its adder in tasks.
IsOldest(t, tasks) == \A u \in OfAdder(tasks, t[1]) : t[2] <= u[2]

TypeOK ==
  /\ sent \in [Adders -> 0 .. MaxTasks]
  /\ done \in [Adders -> 0 .. MaxTasks]
  /\ queue \subseteq Task
  /\ taken \subseteq Task
  /\ Cardinality(taken) <= BatchMax
  /\ size \in Int
  /\ readable \in BOOLEAN
  /\ pc \in [Adders -> {"idle", "count", "wake"}]
  /\ at \in {"wait", "scan", "subtract", "run"}
  /\ scan \subseteq Adders

Init ==
  /\ sent = [p \in Adders |-> 0]
  /\ done = [p \in Adders |-> 0]
  /\ queue = {}
  /\ taken = {}
  /\ size = 0
  /\ readable = FALSE
  /\ pc = [p \in Adders |-> "idle"]
  /\ at = "wait"
  /\ scan = {}

-----------------------------------------------------------------------------
(* Add.  The loop thread adds from a callback that Process runs, or from    *)
(* the handler of another channel while it is outside of Process.           *)

MayAdd(p) == p = Loop => at \in {"wait", "run"}

Enqueue(p) ==
  /\ pc[p] = "idle"
  /\ MayAdd(p)
  /\ sent[p] < MaxTasks
  /\ sent' = [sent EXCEPT ![p] = @ + 1]
  /\ queue' = queue \cup {<<p, sent[p] + 1>>}
  /\ pc' = [pc EXCEPT ![p] = "count"]
  /\ UNCHANGED <<done, taken, size, readable, at, scan>>

Count(p) ==
  /\ pc[p] = "count"
  /\ size' = size + 1
  /\ pc' = [pc EXCEPT ![p] = IF size = 0 THEN "wake" ELSE "idle"]
  /\ UNCHANGED <<sent, done, queue, taken, readable, at, scan>>

WakeUp(p) ==
  /\ pc[p] = "wake"
  /\ readable' = TRUE
  /\ pc' = [pc EXCEPT ![p] = "idle"]
  /\ UNCHANGED <<sent, done, queue, taken, size, at, scan>>

-----------------------------------------------------------------------------
(* Process, on the loop thread.                                             *)

\* A bulk dequeue starts from the producers registered at this moment.
StartScan ==
  /\ at' = "scan"
  /\ scan' = {p \in Adders : sent[p] > 0}

\* EventChannel::HandleEvents: the read resets the eventfd, then Process.
HandleEvents ==
  /\ at = "wait"
  /\ pc[Loop] = "idle"
  /\ readable
  /\ readable' = FALSE
  /\ StartScan
  /\ UNCHANGED <<sent, done, queue, taken, size, pc>>

\* The oldest callbacks of p, as many as there are and the buffer has room for.
Batch(p, batch) ==
  LET mine == OfAdder(queue, p)
      room == BatchMax - Cardinality(taken)
  IN  /\ batch \subseteq mine
      /\ \A t \in batch, u \in mine \ batch : t[2] < u[2]
      /\ Cardinality(batch) <= room
      /\ batch = mine \/ Cardinality(batch) = room

Dequeue(p) ==
  /\ at = "scan"
  /\ p \in scan
  /\ Cardinality(taken) < BatchMax
  /\ \E batch \in SUBSET queue :
       /\ Batch(p, batch)
       /\ queue' = queue \ batch
       /\ taken' = taken \cup batch
  /\ scan' = scan \ {p}
  /\ UNCHANGED <<sent, done, size, readable, pc, at>>

\* try_dequeue_bulk returns: Process leaves when it has returned nothing.
EndScan ==
  /\ at = "scan"
  /\ scan = {} \/ Cardinality(taken) = BatchMax
  /\ at' = IF taken = {} THEN "wait" ELSE "subtract"
  /\ scan' = {}
  /\ UNCHANGED <<sent, done, queue, taken, size, readable, pc>>

\* Mutant of Subtract: the capacity of the buffer instead of the batch's size.
SubtractCapacity ==
  /\ at = "subtract"
  /\ size' = size - BatchMax
  /\ at' = "run"
  /\ UNCHANGED <<sent, done, queue, taken, readable, pc, scan>>

Subtract ==
  /\ at = "subtract"
  /\ size' = size - Cardinality(taken)
  /\ at' = "run"
  /\ UNCHANGED <<sent, done, queue, taken, readable, pc, scan>>

\* Mutant of Run: Process returns after one batch.
RunOneBatch(t) ==
  /\ at = "run"
  /\ pc[Loop] = "idle"
  /\ t \in taken
  /\ IsOldest(t, taken)
  /\ done' = [done EXCEPT ![t[1]] = t[2]]
  /\ taken' = taken \ {t}
  /\ at' = IF taken = {t} THEN "wait" ELSE at
  /\ UNCHANGED <<sent, queue, size, readable, pc, scan>>

\* Mutant of Run: the batch in an order of its own.
RunInAnyOrder(t) ==
  /\ at = "run"
  /\ pc[Loop] = "idle"
  /\ t \in taken
  /\ done' = [done EXCEPT ![t[1]] = t[2]]
  /\ taken' = taken \ {t}
  /\ IF taken = {t} THEN StartScan ELSE UNCHANGED <<at, scan>>
  /\ UNCHANGED <<sent, queue, size, readable, pc>>

\* The callback t returns; after the last of the batch Process dequeues again.
Run(t) ==
  /\ at = "run"
  /\ pc[Loop] = "idle"
  /\ t \in taken
  /\ IsOldest(t, taken)
  /\ done' = [done EXCEPT ![t[1]] = t[2]]
  /\ taken' = taken \ {t}
  /\ IF taken = {t} THEN StartScan ELSE UNCHANGED <<at, scan>>
  /\ UNCHANGED <<sent, queue, size, readable, pc>>

-----------------------------------------------------------------------------

AddStep(p) == Count(p) \/ WakeUp(p)

ProcessStep ==
  \/ HandleEvents
  \/ \E p \in Adders : Dequeue(p)
  \/ EndScan
  \/ Subtract
  \/ \E t \in Task : Run(t)

Next == ProcessStep \/ \E p \in Adders : Enqueue(p) \/ AddStep(p)

\* A thread inside Add and the loop thread keep running; nobody has to add.
Fairness ==
  /\ WF_vars(ProcessStep)
  /\ \A p \in Adders : WF_vars(AddStep(p))

Spec == Init /\ [][Next]_vars /\ Fairness

-----------------------------------------------------------------------------

Counting == {p \in Adders : pc[p] = "count"}

\* Callbacks that have left queue_ and are still in size_.
Unsubtracted == IF at \in {"scan", "subtract"} THEN taken ELSE {}

\* size_ is the number of callbacks in the queue or in a batch not subtracted
\* yet, less the ones whose adder has not executed its fetch_add: the
\* separate atomic updates of Add and Process never make it drift.
SizeAccounting ==
  size = Cardinality(queue) + Cardinality(Unsubtracted) - Cardinality(Counting)

\* While the loop thread sleeps in the selector with nothing to read on the
\* eventfd, a queued callback has an adder that is still inside Add and will
\* wake it: skipping WakeUp when size_ was not 0 loses no wake-up.
NoLostWakeup ==
  at = "wait" /\ ~readable /\ queue # {} => \E p \in Adders : pc[p] # "idle"

\* The queue keeps the promise of TaskQueue: exactly once, in the order of
\* each adder, and eventually.
Abstract == INSTANCE TaskQueue
Implements == Abstract!Spec
=============================================================================

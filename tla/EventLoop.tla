------------------------------ MODULE EventLoop ------------------------------
(***************************************************************************)
(* The life of an EventLoop (src/eventloop.cc): the thread that runs Loop,  *)
(* the user threads and callbacks that call Schedule, Add, Remove and       *)
(* Close, and the owner that waits for the thread and destroys the loop.    *)
(*                                                                         *)
(* The event queue appears by what its three kinds promise (TaskQueue and   *)
(* FifoTaskQueue) and by the steps a caller can be held up between.  The     *)
(* selector appears as EpollSelector (src/selector/epoller.cc) implements    *)
(* it.  "event" and "timer" are the loop's own channels, "chan" is a channel *)
(* of the user.                                                             *)
(***************************************************************************)
EXTENDS Integers, Sequences, FiniteSets

CONSTANTS
  Users,      \* user threads
  Owner,      \* the one of them that waits for the thread and destroys the loop
  Loop,       \* the thread that runs Loop()
  CloseFrom,  \* where Close may be called: "user", "task", "handler"
  Bulk,       \* callbacks that one bulk dequeue takes at most, 32 in the code
  MaxCalls    \* bound: calls of Schedule, Add, Remove and Close

ASSUME ThreadsAssumption == Owner \in Users /\ Loop \notin Users
ASSUME CloseFromAssumption == CloseFrom \subseteq {"user", "task", "handler"}
ASSUME BulkAssumption == Bulk \in Nat \ {0}
ASSUME MaxCallsAssumption == MaxCalls \in Nat

Threads == Users \cup {Loop}
Channels == {"event", "timer", "chan"}

VARIABLES
  kind,       \* the event queue that options_ asked for
  looping,    \* state_ & kLooping
  joinable,   \* state_ & kJoinable
  tasks,      \* event_queue_: what each pending closure does
  left,       \* callbacks that Process has taken and not run; during a bulk
              \* dequeue, how many it is bound to find
  readable,   \* the counter of the eventfd is not 0
  registered, \* channels in the selector
  latch,      \* close_latch_ has been counted down
  at,         \* where the loop thread is
  caller,     \* where a user callback on the loop thread returns to
  batch,      \* channels the last Wait reported, not handled yet
  closing,    \* threads between the two statements of Close
  adding,     \* threads between the two statements of Add of the lock-free queue
  owner,      \* what the owner of the loop has waited for
  calls,      \* number of calls made
  ran,        \* number of user tasks that have been run
  sent,       \* number of user tasks that have been scheduled
  closedFrom, \* history: where Close has been called
  closes      \* history: how often

loopVars == <<looping, joinable, tasks, left, readable, registered, latch>>
threadVars == <<at, caller, batch, closing, adding, owner>>
countVars == <<kind, calls, ran, sent, closedFrom, closes>>
vars == <<loopVars, threadVars, countVars>>

TypeOK ==
  /\ kind \in {"lock_free", "blocking", "double_buffer"}
  /\ looping \in BOOLEAN
  /\ joinable \in BOOLEAN
  /\ tasks \in Seq({"user", "again", "close", "add", "remove"})
  /\ left \in 0 .. Len(tasks)
  /\ readable \in BOOLEAN
  /\ registered \subseteq Channels
  /\ latch \in BOOLEAN
  /\ at \in {"start", "test", "wait", "handle", "fetch", "scan", "process", "again",
            "callback", "exited"}
  /\ caller \in {"handle", "process"}
  /\ batch \subseteq Channels
  /\ closing \subseteq Threads /\ adding \subseteq Threads
  /\ owner \in {"running", "joined", "destroyed"}
  /\ closedFrom \subseteq CloseFrom
  /\ {calls, sent, closes} \subseteq 0 .. MaxCalls /\ ran \in Nat

Init ==
  /\ kind \in {"lock_free", "blocking", "double_buffer"}
  /\ looping = FALSE
  /\ joinable = FALSE
  /\ tasks = <<>>
  /\ left = 0
  /\ readable = FALSE
  /\ registered = {"event", "timer"}
  /\ latch = FALSE
  /\ at = "start"
  /\ caller = "handle"
  /\ batch = {}
  /\ closing = {} /\ adding = {}
  /\ owner = "running"
  /\ calls = 0 /\ ran = 0 /\ sent = 0 /\ closes = 0
  /\ closedFrom = {}

-----------------------------------------------------------------------------
(* The selector.                                                            *)

Contain(c) == c \in registered

SelectorAdd(c) == registered' = registered \cup {c}

SelectorRemove(cs) == registered' = registered \ cs

\* Wait has left these channels in buf_; one whose descriptor is ready is one
\* of them, and the eventfd is ready while its counter is not 0.
Reported(cs) ==
  /\ cs \subseteq registered
  /\ Contain("event") => ("event" \in cs <=> readable)

-----------------------------------------------------------------------------
(* The event queue.                                                         *)

\* Process of the lock-free and of the blocking queue goes on until it finds
\* the queue empty; that of the double buffer runs one batch.
Drains == kind # "double_buffer"

\* Callbacks that have been taken out of the queue: the buf of the lock-free
\* queue, the one popped from the blocking queue, running_.
InHand == IF at = "scan" THEN 0 ELSE left

\* size_ of the lock-free queue: who is adding has not counted yet.
Size == Len(tasks) - InHand - Cardinality(adding)

\* Schedule, which is Add of the queue: the lock-free queue counts and wakes the
\* selector after the callback can be seen, the others under their mutex, with
\* nothing pending before.
Schedule(t, task) ==
  /\ tasks' = Append(tasks, task)
  /\ \/ kind = "lock_free" /\ adding' = adding \cup {t} /\ UNCHANGED readable
     \/ /\ kind # "lock_free" /\ UNCHANGED adding
        /\ readable' = (readable \/ Len(tasks) = InHand)


\* size_.fetch_add(1) == 0, and WakeUp.
CountAdded(t) ==
  /\ t \in adding /\ owner # "destroyed"
  /\ adding' = adding \ {t}
  /\ readable' = (readable \/ Size = 0)
  /\ UNCHANGED <<looping, joinable, tasks, left, registered, latch,
                 at, caller, batch, closing, owner, countVars>>

-----------------------------------------------------------------------------
(* Calls.  A user thread may call until the owner destroys the loop; the    *)
(* loop thread calls from inside a callback.                                *)

\* Threads inside a call; what such a thread does once the loop has been
\* destroyed is undefined, and it makes no step here.
Inside == closing \cup adding

MayCall(t) ==
  /\ owner # "destroyed"
  /\ t \notin Inside
  /\ t = Loop => at = "callback"

Counted ==
  /\ calls < MaxCalls
  /\ calls' = calls + 1

\* A "user" callback of Process may make calls; "again" is one that schedules
\* itself again, each time it is run.
CallSchedule(t) ==
  /\ MayCall(t)
  /\ Counted
  /\ \/ Schedule(t, "user") /\ sent' = sent + 1
     \/ Schedule(t, "again") /\ UNCHANGED sent
  /\ UNCHANGED <<looping, joinable, left, registered, latch, at, caller, batch, closing, owner,
                 kind, ran, closedFrom, closes>>

\* Add and Remove schedule themselves off the loop thread.
CallAdd(t) ==
  /\ MayCall(t)
  /\ Counted
  /\ \/ t = Loop /\ SelectorAdd("chan") /\ UNCHANGED <<tasks, readable, adding>>
     \/ t # Loop /\ Schedule(t, "add") /\ UNCHANGED registered
  /\ UNCHANGED <<looping, joinable, left, latch, at, caller, batch, closing, owner,
                 kind, ran, sent, closedFrom, closes>>

CallRemove(t) ==
  /\ MayCall(t)
  /\ Counted
  /\ \/ t = Loop /\ SelectorRemove({"chan"}) /\ UNCHANGED <<tasks, readable, adding>>
     \/ t # Loop /\ Schedule(t, "remove") /\ UNCHANGED registered
  /\ UNCHANGED <<looping, joinable, left, latch, at, caller, batch, closing, owner,
                 kind, ran, sent, closedFrom, closes>>

\* Where t stands when it calls Close.
Site(t) ==
  CASE t # Loop -> "user"
    [] t = Loop /\ caller = "process" -> "task"
    [] t = Loop /\ caller = "handle" -> "handler"

\* Close, first statement: state_.fetch_and(~kLooping).
ClearLooping(t) ==
  /\ MayCall(t)
  /\ Site(t) \in CloseFrom
  /\ Counted
  /\ closedFrom' = closedFrom \cup {Site(t)} /\ closes' = closes + 1
  /\ looping' = FALSE
  /\ closing' = closing \cup {t}
  /\ UNCHANGED <<joinable, tasks, left, readable, registered, latch,
                 at, caller, batch, adding, owner, kind, ran, sent>>

\* Close, second statement: Schedule the closure that counts the latch down.
ScheduleClose(t) ==
  /\ t \in closing /\ owner # "destroyed"
  /\ closing' = closing \ {t}
  /\ Schedule(t, "close")
  /\ UNCHANGED <<looping, joinable, left, registered, latch,
                 at, caller, batch, owner, countVars>>

-----------------------------------------------------------------------------
(* Loop, on the loop thread.                                                *)

\* The CAS at the start of Loop: nobody else runs this loop.
EnterLoop ==
  /\ at = "start"
  /\ at' = IF looping THEN "exited" ELSE "test"
  /\ looping' = TRUE
  /\ joinable' = (joinable \/ ~looping)
  /\ UNCHANGED <<tasks, left, readable, registered, latch,
                 caller, batch, closing, adding, owner, countVars>>

\* Mutant of TestLooping: the loop stays for what is still queued.
TestLoopingOrQueued ==
  /\ at = "test"
  /\ at' = IF looping \/ tasks # <<>> THEN "wait" ELSE "exited"
  /\ UNCHANGED <<loopVars, caller, batch, closing, adding, owner, countVars>>

TestLooping ==
  /\ at = "test"
  /\ at' = IF looping THEN "wait" ELSE "exited"
  /\ UNCHANGED <<loopVars, caller, batch, closing, adding, owner, countVars>>

\* selector_->Wait returns: with the channels that are ready, with none after
\* select_timeout, or with an error (an interrupted call) after which Loop
\* continues as if nothing were ready.
Wait ==
  /\ at = "wait"
  /\ at' = "handle"
  /\ \E cs \in SUBSET registered : Reported(cs) /\ batch' = cs
  /\ UNCHANGED <<loopVars, caller, closing, adding, owner, countVars>>

WaitFails ==
  /\ at = "wait"
  /\ at' = "test"
  /\ UNCHANGED <<loopVars, caller, batch, closing, adding, owner, countVars>>

\* Get(i) answers nullptr for a channel that has been removed meanwhile; the
\* handler of the eventfd reads it and calls Process, the handler of a channel of
\* the user, or of the timer, runs user code.
Handle(c) ==
  /\ at = "handle"
  /\ c \in batch
  /\ batch' = batch \ {c}
  /\ CASE ~Contain(c) ->
            UNCHANGED <<at, caller, readable>>
       [] Contain(c) /\ c = "event" ->
            /\ at' = "fetch"
            /\ readable' = FALSE
            /\ UNCHANGED caller
       [] Contain(c) /\ c # "event" ->
            /\ at' = "callback"
            /\ caller' = "handle"
            /\ UNCHANGED readable
  /\ UNCHANGED <<looping, joinable, tasks, left, registered, latch, closing, adding, owner, countVars>>

EndBatch ==
  /\ at = "handle"
  /\ batch = {}
  /\ at' = "test"
  /\ UNCHANGED <<loopVars, caller, batch, closing, adding, owner, countVars>>

\* Process takes callbacks: the double buffer all of them, the blocking queue
\* one, and the lock-free queue begins to look for those that fit into buf, ...
Fetch ==
  /\ at = "fetch"
  /\ \/ kind = "double_buffer" /\ left' = Len(tasks) /\ at' = "process"
     \/ kind = "blocking" /\ tasks # <<>> /\ left' = 1 /\ at' = "process"
     \/ kind = "blocking" /\ tasks = <<>> /\ left' = 0 /\ at' = "handle"
     \/ kind = "lock_free" /\ left' = (IF Len(tasks) < Bulk THEN Len(tasks) ELSE Bulk) /\ at' = "scan"
  /\ UNCHANGED <<looping, joinable, tasks, readable, registered, latch,
                 caller, batch, closing, adding, owner, countVars>>

\* ... which finds at least those that were there when it began, and of those
\* that came since what the producers it had still to visit have enqueued.
EndScan ==
  /\ at = "scan"
  /\ \E n \in left .. Len(tasks) :
       /\ n <= Bulk
       /\ left' = n
       /\ at' = IF n = 0 THEN "handle" ELSE "process"
  /\ UNCHANGED <<looping, joinable, tasks, readable, registered, latch,
                 caller, batch, closing, adding, owner, countVars>>

\* Process runs the next callback it has taken.
RunTask ==
  /\ at = "process" /\ left > 0
  /\ tasks' = Tail(tasks)
  /\ left' = left - 1
  /\ \/ /\ Head(tasks) = "user"
        /\ ran' = ran + 1
        /\ at' = "callback"
        /\ caller' = "process"
        /\ UNCHANGED <<registered, latch>>
     \/ /\ Head(tasks) = "again"
        /\ at' = "again"
        /\ UNCHANGED <<registered, latch, caller, ran>>
     \/ /\ Head(tasks) = "add"
        /\ SelectorAdd("chan")
        /\ UNCHANGED <<at, caller, latch, ran>>
     \/ /\ Head(tasks) = "remove"
        /\ SelectorRemove({"chan"})
        /\ UNCHANGED <<at, caller, latch, ran>>
     \/ /\ Head(tasks) = "close"
        /\ SelectorRemove({"event", "timer"})
        /\ latch' = TRUE
        /\ UNCHANGED <<at, caller, ran>>
  /\ UNCHANGED <<looping, joinable, readable, batch, closing, adding, owner,
                 kind, calls, sent, closedFrom, closes>>

\* The callback that schedules itself again.
Again ==
  /\ at = "again"
  /\ Schedule(Loop, "again")
  /\ at' = "callback"
  /\ caller' = "process"
  /\ UNCHANGED <<looping, joinable, left, registered, latch, batch, closing, owner, countVars>>

\* Mutant of EndTasks: Process stops as soon as kLooping is cleared.
EndTasksEarly ==
  /\ at = "process" /\ left = 0
  /\ at' = IF Drains /\ looping THEN "fetch" ELSE "handle"
  /\ UNCHANGED <<loopVars, caller, batch, closing, adding, owner, countVars>>

\* What Process had taken has been run.
EndTasks ==
  /\ at = "process" /\ left = 0
  /\ at' = IF Drains THEN "fetch" ELSE "handle"
  /\ UNCHANGED <<loopVars, caller, batch, closing, adding, owner, countVars>>

\* A user callback on the loop thread returns.
Return ==
  /\ at = "callback"
  /\ Loop \notin Inside
  /\ at' = caller
  /\ UNCHANGED <<loopVars, caller, batch, closing, adding, owner, countVars>>

-----------------------------------------------------------------------------
(* The owner waits for the thread (std::future, EventLoopGroup::HandleJoin) *)
(* and destroys the loop; ~EventLoop waits for close_latch_ if a Loop ran.  *)
(* Neither asks whether another thread is still inside a call.              *)

JoinThread ==
  /\ owner = "running" /\ Owner \notin Inside
  /\ at = "exited"
  /\ owner' = "joined"
  /\ UNCHANGED <<loopVars, at, caller, batch, closing, adding, countVars>>

\* Mutant of Destroy: ~EventLoop does not wait for the latch.
DestroyUnawaited ==
  /\ owner = "joined" /\ Owner \notin Inside
  /\ owner' = "destroyed"
  /\ UNCHANGED <<loopVars, at, caller, batch, closing, adding, countVars>>

Destroy ==
  /\ owner = "joined" /\ Owner \notin Inside
  /\ joinable => latch
  /\ owner' = "destroyed"
  /\ UNCHANGED <<loopVars, at, caller, batch, closing, adding, countVars>>

-----------------------------------------------------------------------------

Call(t) == CallSchedule(t) \/ CallAdd(t) \/ CallRemove(t) \/ ClearLooping(t)

GoOn(t) == ScheduleClose(t) \/ CountAdded(t)

LoopStep ==
  \/ EnterLoop \/ TestLooping \/ Wait \/ EndBatch
  \/ \E c \in Channels : Handle(c)
  \/ Fetch \/ EndScan \/ RunTask \/ Again \/ EndTasks \/ Return

Next ==
  \/ \E t \in Threads : Call(t) \/ GoOn(t)
  \/ LoopStep \/ WaitFails
  \/ JoinThread \/ Destroy

\* The thread that was started runs, Wait returns after select_timeout at the
\* latest and does not fail for ever, callbacks return, a thread inside a call
\* goes on, and the owner, once it waits, is not held up by anything else.
Fairness ==
  /\ WF_vars(LoopStep)
  /\ SF_vars(Wait)
  /\ \A t \in Threads : WF_vars(GoOn(t))
  /\ WF_vars(JoinThread)
  /\ WF_vars(Destroy)

Spec == Init /\ [][Next]_vars /\ Fairness

-----------------------------------------------------------------------------

\* What the owner of the loop can tell of its thread.
Phase ==
  CASE owner # "running" -> owner
    [] owner = "running" /\ at = "start" -> "created"
    [] owner = "running" /\ at = "exited" -> "ended"
    [] owner = "running" /\ at \notin {"start", "exited"} -> "looping"

Life == INSTANCE LoopLife WITH
  Self <- Loop, phase <- Phase,
  queued <- \E i \in 1 .. Len(tasks) : tasks[i] = "close"

\* Whatever its callbacks, channels and queue do meanwhile, the loop keeps the
\* promise of LoopLife: it is entered once, left only after a Close, and
\* destroyed only after its thread has ended and a closure of Close has run.
KeepsPromise == Life!Spec

\* When a loop that was closed once is destroyed, that Close has queued its
\* closure, whichever thread called it: ~EventLoop never frees a loop between the
\* two statements of its only Close.
DestroyedAfterClose == owner = "destroyed" /\ closes = 1 => closing = {}

\* A callback that schedules itself again lies in a queue that Process runs until
\* it is empty.
Recurs == Drains /\ (at = "again" \/ \E i \in 1 .. Len(tasks) : tasks[i] = "again")

\* Once Loop has begun, a Close that clears kLooping ends it: no batch of events,
\* no closed channel and no callback keeps the thread in the loop, but for one
\* that schedules itself again in a queue that drains.  With the double buffer
\* not even that does.
CloseEndsLoop == ~looping /\ at # "start" ~> at = "exited" \/ Recurs


\* With a queue that drains, a Close called from a scheduled callback always
\* ends the loop for good, unless another one schedules itself again for ever:
\* the closure it queues is run by the same Process, so ~EventLoop is not left
\* waiting for the latch.
CloseFromTaskTerminates ==
  Drains /\ closedFrom = {"task"} ~> owner = "destroyed" \/ closedFrom # {"task"} \/ Recurs

\* A loop that has been closed can be destroyed, unless a callback keeps Process
\* going: ~EventLoop does not wait for ever for a latch that only the closure
\* queued by Close counts down.
CloseTerminates == closedFrom # {} ~> owner = "destroyed" \/ Recurs
=============================================================================

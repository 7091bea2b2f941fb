---------------------------- MODULE EventLoopProofs ----------------------------
(***************************************************************************)
(* Proofs about EventLoop for every set of user threads, every number of    *)
(* calls and every place from which Close is called, and about the timers   *)
(* of a group of loops, for every number of loops, threads and timers.      *)
(***************************************************************************)
EXTENDS EventLoop, TimerNumbers, FiniteSetTheorems, TLAPS

\* The group has its own idea of where a thread is and of its loops.
CONSTANT NextModulus
VARIABLES next, thread, loopings, queued, latches, pc, place, ending, closed, early

Group == INSTANCE EventLoopGroup
           WITH looping <- loopings, latch <- latches, at <- place

-----------------------------------------------------------------------------
(* EventLoop.                                                               *)

Tasks == {"user", "again", "close", "add", "remove"}

\* A task that is scheduled was a call, and so was every Close.
TypeInv == TypeOK /\ sent <= calls /\ closes <= calls

LEMMA InitTypeInv == Init => TypeInv
<1> SUFFICES ASSUME Init PROVE TypeInv
  OBVIOUS
<1>1. {calls, sent, closes} \subseteq 0 .. MaxCalls /\ ran \in Nat /\ sent <= calls /\ closes <= calls
  BY MaxCallsAssumption DEF Init
<1>2. tasks \in Seq(Tasks) /\ left \in 0 .. Len(tasks)
  BY DEF Init
<1>3. /\ {looping, joinable, readable, latch} \subseteq BOOLEAN
      /\ registered \subseteq Channels /\ batch \subseteq Channels
      /\ closing \subseteq Threads /\ adding \subseteq Threads /\ closedFrom \subseteq CloseFrom
  BY DEF Init, Channels
<1> QED BY <1>1, <1>2, <1>3 DEF Init, TypeInv, TypeOK, Tasks

\* What Schedule does to the types.
LEMMA ScheduleType ==
  ASSUME TypeOK, NEW t \in Threads, NEW task \in Tasks, Schedule(t, task), left' = left
  PROVE  /\ tasks' \in Seq(Tasks) /\ left' \in 0 .. Len(tasks')
         /\ readable' \in BOOLEAN /\ adding' \subseteq Threads
<1>1. tasks \in Seq(Tasks) /\ left \in 0 .. Len(tasks)
  BY DEF TypeOK, Tasks
<1>2. tasks' \in Seq(Tasks) /\ Len(tasks') = Len(tasks) + 1
  BY <1>1 DEF Schedule
<1>3. readable' \in {readable, (readable \/ Len(tasks) = InHand)}
  BY DEF Schedule
<1>4. {readable, (readable \/ Len(tasks) = InHand)} \subseteq BOOLEAN
  BY DEF TypeOK
<1>5. adding' \in {adding, adding \cup {t}}
  BY DEF Schedule
<1>6. adding' \subseteq Threads
  BY <1>5 DEF TypeOK
<1>7. readable' \in BOOLEAN
  BY <1>3, <1>4
<1> QED BY <1>1, <1>2, <1>6, <1>7

\* What is scheduled by a call that schedules anything.
LEMMA CallQueues ==
  ASSUME NEW t \in Threads, Call(t)
  PROVE  /\ UNCHANGED <<left, kind, joinable, latch, at, caller, batch, owner, ran>>
         /\ \/ UNCHANGED <<tasks, readable, adding>>
            \/ \E task \in Tasks \ {"close"} : Schedule(t, task)
         /\ MayCall(t) /\ Counted
<1>1. CASE CallSchedule(t)
  BY <1>1 DEF CallSchedule, Tasks
<1>2. CASE CallAdd(t)
  BY <1>2 DEF CallAdd, Tasks
<1>3. CASE CallRemove(t)
  BY <1>3 DEF CallRemove, Tasks
<1>4. CASE ClearLooping(t)
  BY <1>4 DEF ClearLooping
<1> QED BY <1>1, <1>2, <1>3, <1>4 DEF Call

\* A call is counted, and counts what it schedules.
LEMMA CallType ==
  ASSUME TypeInv, NEW t \in Threads, Call(t)
  PROVE  TypeInv'
<1>1. /\ TypeOK /\ calls \in Nat /\ sent \in Nat /\ sent <= calls /\ closes \in Nat
      /\ closes <= calls
  BY DEF TypeInv, TypeOK
<1>2. Counted
  BY CallQueues
<1>3. calls' \in 0 .. MaxCalls /\ calls' = calls + 1
  BY <1>1, <1>2, MaxCallsAssumption DEF Counted
<1>4. sent' \in {sent, sent + 1} /\ closes' \in {closes, closes + 1}
  BY DEF Call, CallSchedule, CallAdd, CallRemove, ClearLooping
<1>5. {sent', closes'} \subseteq 0 .. MaxCalls /\ sent' <= calls' /\ closes' <= calls'
  BY <1>1, <1>3, <1>4, MaxCallsAssumption
<1>6. /\ tasks' \in Seq(Tasks) /\ left' \in 0 .. Len(tasks')
      /\ readable' \in BOOLEAN /\ adding' \subseteq Threads
  <2>1. left' = left
    BY CallQueues
  <2>2. CASE UNCHANGED <<tasks, readable, adding>>
    BY <1>1, <2>1, <2>2 DEF TypeOK, Tasks
  <2>3. CASE \E task \in Tasks \ {"close"} : Schedule(t, task)
    BY <1>1, <2>1, <2>3, ScheduleType
  <2> QED BY <2>2, <2>3, CallQueues
<1>7. registered' \subseteq Channels
  BY <1>1 DEF TypeOK, Channels, Call, CallSchedule, CallAdd, CallRemove, ClearLooping,
              SelectorAdd, SelectorRemove
<1>8. closing' \subseteq Threads /\ closedFrom' \subseteq CloseFrom /\ looping' \in BOOLEAN
  BY <1>1 DEF TypeOK, Call, CallSchedule, CallAdd, CallRemove, ClearLooping
<1>9. UNCHANGED <<kind, joinable, latch, at, caller, batch, owner, ran>>
  BY CallQueues
<1> QED BY <1>1, <1>3, <1>5, <1>6, <1>7, <1>8, <1>9 DEF TypeInv, TypeOK, Tasks

\* The steps of Process.
LEMMA ProcessType ==
  ASSUME TypeInv, Fetch \/ EndScan \/ RunTask \/ Again \/ EndTasks
  PROVE  TypeInv'
<1>1. TypeOK /\ tasks \in Seq(Tasks) /\ left \in 0 .. Len(tasks) /\ Len(tasks) \in Nat
  BY DEF TypeInv, TypeOK, Tasks
<1>2. CASE Fetch \/ EndScan
  <2>1. left' \in 0 .. Len(tasks) /\ at' \in {"scan", "process", "handle"}
    <3>1. CASE Fetch
      <4>1. left' \in {Len(tasks), 0, IF Len(tasks) < Bulk THEN Len(tasks) ELSE Bulk}
            \/ (left' = 1 /\ tasks # <<>>)
        BY <3>1 DEF Fetch
      <4>2. at' \in {"scan", "process", "handle"}
        BY <3>1 DEF Fetch
      <4> QED BY <1>1, <4>1, <4>2, BulkAssumption
    <3>2. CASE EndScan
      BY <1>1, <3>2 DEF EndScan
    <3> QED BY <1>2, <3>1, <3>2
  <2>2. UNCHANGED <<looping, joinable, tasks, readable, registered, latch,
                    caller, batch, closing, adding, owner, countVars>>
    BY <1>2 DEF Fetch, EndScan
  <2> QED BY <2>1, <2>2 DEF TypeInv, TypeOK, countVars
<1>3. CASE RunTask
  <2>1. tasks' = Tail(tasks) /\ left' = left - 1 /\ left > 0
    BY <1>3 DEF RunTask
  <2>2. tasks' \in Seq(Tasks) /\ left' \in 0 .. Len(tasks')
    <3>1. tasks # <<>>
      BY <1>1, <2>1
    <3>2. Tail(tasks) \in Seq(Tasks) /\ Len(Tail(tasks)) = Len(tasks) - 1
      BY <1>1, <3>1
    <3> QED BY <1>1, <2>1, <3>2
  <2>3. registered' \subseteq Channels
    BY <1>1, <1>3 DEF RunTask, SelectorAdd, SelectorRemove, TypeOK, Channels
  <2>4. /\ ran' \in {ran, ran + 1} /\ latch' \in {latch, TRUE}
        /\ at' \in {at, "callback", "again"} /\ caller' \in {caller, "process"}
    BY <1>3 DEF RunTask
  <2>5. latch' \in BOOLEAN
    BY <1>1, <2>4 DEF TypeOK
  <2>6. ran' \in Nat
    BY <1>1, <2>4 DEF TypeOK
  <2>7. UNCHANGED <<looping, joinable, readable, batch, closing, adding, owner, kind, calls, sent,
                    closedFrom, closes>>
    BY <1>3 DEF RunTask
  <2>8. TypeOK'
    BY <1>1, <2>2, <2>3, <2>4, <2>5, <2>6, <2>7 DEF TypeOK, Tasks
  <2> QED BY <2>7, <2>8 DEF TypeInv
<1>4. CASE Again
  <2>1. /\ tasks' \in Seq(Tasks) /\ left' \in 0 .. Len(tasks')
        /\ readable' \in BOOLEAN /\ adding' \subseteq Threads
    BY <1>1, <1>4, ScheduleType DEF Again, Tasks, Threads
  <2> QED BY <1>1, <1>4, <2>1 DEF Again, countVars, TypeInv, TypeOK, Tasks
<1>5. CASE EndTasks
  BY <1>5 DEF EndTasks, loopVars, countVars, TypeInv, TypeOK
<1> QED BY <1>2, <1>3, <1>4, <1>5

\* Every variable keeps its type, any number of calls from any threads.
THEOREM TypeCorrect == Spec => []TypeOK
<1>1. ASSUME TypeInv, [Next]_vars PROVE TypeInv'
  <2>1. TypeOK /\ Loop \in Threads
    BY <1>1 DEF TypeInv, Threads
  <2>2. ASSUME NEW t \in Threads, Call(t) PROVE TypeInv'
    BY <1>1, <2>2, CallType
  <2>3. ASSUME NEW t \in Threads, ScheduleClose(t) PROVE TypeInv'
    <3>1. /\ tasks' \in Seq(Tasks) /\ left' \in 0 .. Len(tasks')
          /\ readable' \in BOOLEAN /\ adding' \subseteq Threads
      BY <2>1, <2>3, ScheduleType DEF ScheduleClose, Tasks
    <3> QED BY <1>1, <2>1, <2>3, <3>1 DEF ScheduleClose, countVars, TypeInv, TypeOK, Tasks
  <2>4. ASSUME NEW t \in Threads, CountAdded(t) PROVE TypeInv'
    <3>1. readable' \in BOOLEAN
      BY <2>4 DEF CountAdded
    <3> QED BY <1>1, <2>1, <2>4, <3>1 DEF CountAdded, countVars, TypeInv, TypeOK
  <2>5. CASE EnterLoop
    <3>1. at' \in {"test", "exited"} /\ looping' = TRUE /\ joinable' \in BOOLEAN
      BY <2>1, <2>5 DEF EnterLoop, TypeOK
    <3> QED BY <1>1, <2>1, <2>5, <3>1 DEF EnterLoop, countVars, TypeInv, TypeOK
  <2>6. CASE TestLooping \/ EndBatch \/ Return \/ WaitFails
    BY <1>1, <2>1, <2>6 DEF TestLooping, EndBatch, Return, WaitFails, loopVars, countVars,
                      TypeInv, TypeOK
  <2>7. CASE Wait
    BY <1>1, <2>1, <2>7 DEF Wait, loopVars, countVars, TypeInv, TypeOK
  <2>8. ASSUME NEW c \in Channels, Handle(c) PROVE TypeInv'
    <3>1. /\ UNCHANGED <<looping, joinable, tasks, left, registered, latch, closing, adding, owner,
                         countVars>>
          /\ batch' \subseteq Channels
      BY <2>1, <2>8 DEF Handle, TypeOK
    <3>2. /\ at' \in {at, "fetch", "callback"} /\ caller' \in {caller, "handle"}
          /\ readable' \in {readable, FALSE}
      BY <2>8 DEF Handle
    <3>3. readable' \in BOOLEAN
      BY <2>1, <3>2 DEF TypeOK
    <3> QED BY <1>1, <2>1, <3>1, <3>2, <3>3 DEF countVars, TypeInv, TypeOK
  <2>9. CASE Fetch \/ EndScan \/ RunTask \/ Again \/ EndTasks
    BY <1>1, <2>9, ProcessType
  <2>10. CASE JoinThread \/ Destroy \/ UNCHANGED vars
    BY <1>1, <2>1, <2>10 DEF JoinThread, Destroy, vars, threadVars, loopVars, countVars, TypeInv, TypeOK
  <2> QED BY <1>1, <2>2, <2>3, <2>4, <2>5, <2>6, <2>7, <2>8, <2>9, <2>10 DEF Next, LoopStep, GoOn
<1>2. TypeInv => TypeOK
  BY DEF TypeInv
<1> QED BY <1>1, <1>2, InitTypeInv, PTL DEF Spec

-----------------------------------------------------------------------------
(* EventLoop keeps the promise of LoopLife.                                 *)

\* kLooping is not set before Loop, so that the CAS at its start succeeds; the
\* owner waits for the thread, and whoever calls on the loop thread is inside a
\* callback, so that the loop does not go on before the call has returned.
LifeInv ==
  /\ at = "start" => ~looping
  /\ at # "start" => joinable
  /\ owner # "running" => at = "exited"
  /\ Loop \in Inside => at = "callback"

LEMMA LifeInvHolds == Spec => [](TypeOK /\ LifeInv)
<1>1. Init => LifeInv
  BY DEF Init, LifeInv, Inside
<1>2. TypeOK /\ LifeInv /\ [Next]_vars => LifeInv'
  <2> SUFFICES ASSUME TypeOK, LifeInv, [Next]_vars PROVE LifeInv'
    OBVIOUS
  <2> USE DEF LifeInv
  <2>1. ASSUME NEW t \in Threads, Call(t) \/ ScheduleClose(t) \/ CountAdded(t) PROVE LifeInv'
    <3>1. /\ Inside' \subseteq Inside \cup {t} /\ (t = Loop => at = "callback")
          /\ UNCHANGED <<joinable, at, owner>> /\ (looping' => looping)
      <4>1. CASE CallSchedule(t) \/ CallAdd(t) \/ CallRemove(t)
        BY <4>1 DEF CallSchedule, CallAdd, CallRemove, Schedule, MayCall, Inside
      <4>2. CASE ClearLooping(t)
        BY <4>2 DEF ClearLooping, MayCall, Inside
      <4>3. CASE ScheduleClose(t)
        BY <4>3 DEF ScheduleClose, Schedule, Inside
      <4>4. CASE CountAdded(t)
        BY <4>4 DEF CountAdded, loopVars, Inside
      <4> QED BY <2>1, <4>1, <4>2, <4>3, <4>4 DEF Call
    <3> QED BY <3>1
  <2>2. CASE EnterLoop
    BY <2>2 DEF EnterLoop, Inside
  <2>3. CASE TestLooping \/ Wait \/ WaitFails \/ EndBatch \/ EndTasks
    BY <2>3 DEF TestLooping, Wait, WaitFails, EndBatch, EndTasks, loopVars, Inside
  <2>4. CASE Return
    BY <2>4 DEF Return, loopVars, TypeOK, Inside
  <2>5. ASSUME NEW c \in Channels, Handle(c) PROVE LifeInv'
    <3>1. at = "handle" /\ at' \in {"handle", "fetch", "callback"}
          /\ UNCHANGED <<looping, joinable, closing, adding, owner>>
      BY <2>5 DEF Handle
    <3> QED BY <3>1 DEF Inside
  <2>6. CASE Fetch \/ EndScan \/ RunTask
    <3>1. at \in {"fetch", "scan", "process"}
          /\ at' \in {"handle", "scan", "process", "again", "callback"}
          /\ UNCHANGED <<looping, joinable, closing, adding, owner>>
      BY <2>6 DEF Fetch, EndScan, RunTask
    <3> QED BY <3>1 DEF Inside
  <2>7. CASE Again
    BY <2>7 DEF Again
  <2>8. CASE JoinThread \/ Destroy \/ UNCHANGED vars
    BY <2>8 DEF JoinThread, Destroy, vars, threadVars, loopVars, Inside
  <2> QED BY <2>1, <2>2, <2>3, <2>4, <2>5, <2>6, <2>7, <2>8 DEF Next, LoopStep, GoOn
<1> QED BY <1>1, <1>2, TypeCorrect, PTL DEF Spec

\* A closure of Close is in a queue.
CloseIn(s) == \E i \in 1 .. Len(s) : s[i] = "close"

LEMMA CloseAppended ==
  ASSUME NEW s \in Seq(Tasks), NEW task \in Tasks
  PROVE  CloseIn(Append(s, task)) <=> CloseIn(s) \/ task = "close"
<1>1. /\ Len(Append(s, task)) = Len(s) + 1 /\ Len(s) \in Nat
      /\ \A i \in 1 .. Len(s) : Append(s, task)[i] = s[i]
      /\ Append(s, task)[Len(s) + 1] = task
  OBVIOUS
<1>2. \A i : i \in 1 .. Len(s) + 1 <=> i \in 1 .. Len(s) \/ i = Len(s) + 1
  BY <1>1
<1> QED BY <1>1, <1>2 DEF CloseIn

LEMMA CloseTaken ==
  ASSUME NEW s \in Seq(Tasks), s # <<>>
  PROVE  /\ CloseIn(s) <=> CloseIn(Tail(s)) \/ Head(s) = "close"
         /\ CloseIn(Tail(s)) \in BOOLEAN
<1>1. /\ Len(Tail(s)) = Len(s) - 1 /\ Len(s) \in Nat \ {0} /\ Head(s) = s[1]
      /\ \A i \in 1 .. Len(Tail(s)) : Tail(s)[i] = s[i + 1]
  OBVIOUS
<1>2. ASSUME CloseIn(Tail(s)) PROVE CloseIn(s)
  <2>1. PICK i \in 1 .. Len(Tail(s)) : Tail(s)[i] = "close"
    BY <1>2 DEF CloseIn
  <2>2. i + 1 \in 1 .. Len(s) /\ s[i + 1] = "close"
    BY <1>1, <2>1
  <2> QED BY <2>2 DEF CloseIn
<1>3. ASSUME CloseIn(s), Head(s) # "close" PROVE CloseIn(Tail(s))
  <2>1. PICK i \in 1 .. Len(s) : s[i] = "close"
    BY <1>3 DEF CloseIn
  <2>2. i # 1
    BY <1>1, <1>3, <2>1
  <2>3. i - 1 \in 1 .. Len(Tail(s)) /\ Tail(s)[i - 1] = "close"
    BY <1>1, <2>1, <2>2
  <2> QED BY <2>3 DEF CloseIn
<1>4. Head(s) = "close" => CloseIn(s)
  BY <1>1 DEF CloseIn
<1> QED BY <1>2, <1>3, <1>4 DEF CloseIn

\* What a step of the loop does to the closures of Close in its queue.
LEMMA ScheduleQueues ==
  ASSUME TypeOK, NEW t, NEW task \in Tasks, Schedule(t, task)
  PROVE  CloseIn(tasks') <=> CloseIn(tasks) \/ task = "close"
<1>1. tasks \in Seq(Tasks) /\ tasks' = Append(tasks, task)
  BY DEF TypeOK, Tasks, Schedule
<1> QED BY <1>1, CloseAppended

LEMMA CallKeepsQueued ==
  ASSUME TypeOK, NEW t \in Threads, Call(t)
  PROVE  CloseIn(tasks') <=> CloseIn(tasks)
<1>1. CASE UNCHANGED tasks
  BY <1>1
<1>2. CASE \E task \in Tasks \ {"close"} : Schedule(t, task)
  BY <1>2, ScheduleQueues
<1> QED BY <1>1, <1>2, CallQueues

\* The next callback is a closure of Close, or it leaves the queued ones there.
LEMMA RunQueues ==
  ASSUME TypeOK, RunTask
  PROVE  /\ CloseIn(tasks) <=> CloseIn(tasks') \/ Head(tasks) = "close"
         /\ CloseIn(tasks') \in BOOLEAN
         /\ IF Head(tasks) = "close" THEN latch' = TRUE ELSE UNCHANGED latch
<1>1. tasks \in Seq(Tasks) /\ left \in 0 .. Len(tasks) /\ left > 0 /\ tasks' = Tail(tasks)
  BY DEF TypeOK, Tasks, RunTask
<1>2. tasks # <<>>
  BY <1>1
<1>3. IF Head(tasks) = "close" THEN latch' = TRUE ELSE UNCHANGED latch
  BY DEF RunTask
<1> QED BY <1>1, <1>2, <1>3, CloseTaken

\* A step that the promise says nothing of.
LEMMA Unseen ==
  ASSUME UNCHANGED <<looping, closing, latch>>, CloseIn(tasks') <=> CloseIn(tasks), Phase' = Phase
  PROVE  UNCHANGED Life!vars
  BY DEF Life!vars, CloseIn

\* How the phase depends on where the thread and the owner are.
LEMMA Phases ==
  ASSUME TypeOK, LifeInv
  PROVE  /\ at = "start" => Phase = "created"
         /\ at \notin {"start", "exited"} => Phase = "looping"
         /\ at = "exited" /\ owner = "running" => Phase = "ended"
         /\ owner = "joined" => Phase = "joined"
         /\ owner = "destroyed" => Phase = "destroyed"
         /\ owner # "destroyed" => Phase # "destroyed"
<1>1. owner \in {"running", "joined", "destroyed"} /\ (owner # "running" => at = "exited")
  BY DEF TypeOK, LifeInv
<1> QED BY <1>1 DEF Phase

LEMMA CallsAreAllowed ==
  ASSUME TypeOK, LifeInv, NEW t \in Threads, Call(t) \/ GoOn(t)
  PROVE  Life!Next \/ UNCHANGED Life!vars
<1>1. CASE CallSchedule(t) \/ CallAdd(t) \/ CallRemove(t)
  <2>1. UNCHANGED <<looping, closing, latch, at, owner>>
    BY <1>1 DEF CallSchedule, CallAdd, CallRemove
  <2>2. CloseIn(tasks') <=> CloseIn(tasks)
    BY <1>1, CallKeepsQueued DEF Call
  <2>3. Phase' = Phase
    BY <2>1 DEF Phase
  <2> QED BY <2>1, <2>2, <2>3, Unseen
<1>2. CASE ClearLooping(t)
  <2>1. Phase # "destroyed" /\ (t = Loop => Phase = "looping")
    BY <1>2, Phases DEF ClearLooping, MayCall
  <2>2. Phase' = Phase
    BY <1>2 DEF ClearLooping, Phase
  <2>3. Life!Clear(t)
    BY <1>2, <2>1, <2>2 DEF ClearLooping, MayCall, Inside, Life!Clear
  <2> QED BY <2>3 DEF Life!Next
<1>3. CASE ScheduleClose(t)
  <2>1. CloseIn(tasks')
    BY <1>3, ScheduleQueues DEF ScheduleClose, Tasks
  <2>2. Phase' = Phase /\ Phase # "destroyed"
    BY <1>3, Phases DEF ScheduleClose, Phase
  <2>3. Life!Queue(t)
    BY <1>3, <2>1, <2>2 DEF ScheduleClose, Life!Queue, CloseIn
  <2> QED BY <2>3 DEF Life!Next
<1>4. CASE CountAdded(t)
  <2>1. UNCHANGED <<looping, closing, latch, at, owner, tasks>>
    BY <1>4 DEF CountAdded
  <2>2. Phase' = Phase
    BY <2>1 DEF Phase
  <2> QED BY <2>1, <2>2, Unseen
<1> QED BY <1>1, <1>2, <1>3, <1>4 DEF Call, GoOn

LEMMA LoopStepsAreAllowed ==
  ASSUME TypeOK, LifeInv, TypeOK', LifeInv', LoopStep \/ WaitFails
  PROVE  Life!Next \/ UNCHANGED Life!vars
<1>1. CASE EnterLoop
  <2>1. Phase = "created" /\ at' = "test" /\ looping' = TRUE
    BY <1>1, Phases DEF EnterLoop, LifeInv
  <2>2. Phase' = "looping"
    <3>1. at' \notin {"start", "exited"} /\ owner' = "running"
      BY <2>1 DEF LifeInv, TypeOK
    <3> QED BY <3>1 DEF Phase
  <2>3. Life!Enter
    BY <1>1, <2>1, <2>2 DEF EnterLoop, Life!Enter
  <2> QED BY <2>3 DEF Life!Next
<1>2. CASE TestLooping /\ ~looping
  <2>1. at = "test" /\ at' = "exited" /\ UNCHANGED <<owner, looping, tasks, closing, latch>>
    BY <1>2 DEF TestLooping, loopVars
  <2>2. owner = "running" /\ Loop \notin closing /\ Phase = "looping"
    BY <2>1, Phases DEF LifeInv, TypeOK, Inside
  <2>3. Phase' = "ended"
    BY <2>1, <2>2 DEF Phase
  <2>4. Life!Leave
    BY <1>2, <2>1, <2>2, <2>3 DEF Life!Leave
  <2> QED BY <2>4 DEF Life!Next
<1>3. ASSUME at \notin {"start", "exited"}, at' \notin {"start", "exited"}, UNCHANGED owner
      PROVE  Phase = "looping" /\ Phase' = "looping"
  <2>1. owner = "running" /\ owner' = "running"
    BY <1>3 DEF LifeInv, TypeOK
  <2> QED BY <1>3, <2>1 DEF Phase
<1>4. CASE TestLooping /\ looping
  <2>1. /\ at = "test" /\ at' = "wait"
        /\ UNCHANGED <<owner, looping, tasks, closing, latch>>
    BY <1>4 DEF TestLooping, loopVars
  <2> QED BY <1>3, <2>1, Unseen
<1>5. CASE Wait \/ WaitFails \/ EndBatch \/ Fetch \/ EndScan \/ EndTasks
  <2>1. /\ at \in {"wait", "handle", "fetch", "scan", "process"}
        /\ at' \in {"handle", "test", "fetch", "scan", "process"}
        /\ UNCHANGED <<owner, looping, tasks, closing, latch>>
    BY <1>5 DEF Wait, WaitFails, EndBatch, Fetch, EndScan, EndTasks, loopVars
  <2> QED BY <1>3, <2>1, Unseen
<1>6. CASE Return
  <2>1. /\ at = "callback" /\ at' \in {"handle", "process"}
        /\ UNCHANGED <<owner, looping, tasks, closing, latch>>
    BY <1>6 DEF Return, loopVars, TypeOK
  <2> QED BY <1>3, <2>1, Unseen
<1>7. ASSUME NEW c \in Channels, Handle(c) PROVE UNCHANGED Life!vars
  <2>1. /\ at = "handle" /\ at' \in {"handle", "fetch", "callback"}
        /\ UNCHANGED <<owner, looping, tasks, closing, latch>>
    BY <1>7 DEF Handle
  <2> QED BY <1>3, <2>1, Unseen
<1>8. CASE Again
  <2>1. /\ at = "again" /\ at' = "callback" /\ UNCHANGED <<owner, looping, closing, latch>>
    BY <1>8 DEF Again
  <2>2. CloseIn(tasks') <=> CloseIn(tasks)
    BY <1>8, ScheduleQueues DEF Again, Tasks
  <2> QED BY <1>3, <2>1, <2>2, Unseen
<1>9. CASE RunTask
  <2>1. /\ at = "process" /\ at' \in {"process", "again", "callback"}
        /\ UNCHANGED <<owner, looping, closing>>
    BY <1>9 DEF RunTask
  <2>2. Phase = "looping" /\ Phase' = "looping" /\ Loop \notin closing
    BY <1>3, <2>1 DEF LifeInv, Inside
  <2>3. CASE Head(tasks) = "close"
    <3>1. latch' = TRUE /\ CloseIn(tasks) /\ CloseIn(tasks') \in BOOLEAN
      BY <1>9, <2>3, RunQueues
    <3>2. Life!RunClose
      BY <2>1, <2>2, <3>1 DEF Life!RunClose, CloseIn
    <3> QED BY <3>2 DEF Life!Next
  <2>4. CASE Head(tasks) # "close"
    <3>1. UNCHANGED latch /\ (CloseIn(tasks') <=> CloseIn(tasks))
      BY <1>9, <2>4, RunQueues
    <3> QED BY <2>1, <2>2, <3>1, Unseen
  <2> QED BY <2>3, <2>4
<1> QED BY <1>1, <1>2, <1>4, <1>5, <1>6, <1>7, <1>8, <1>9 DEF LoopStep

\* Whoever calls Close, from whatever thread and callback and however often, and
\* whatever is queued and registered meanwhile: to its owner an EventLoop is a
\* LoopLife, which is all that EventLoopGroup knows of its loops.  Neither says
\* that nobody is inside Close when the loop is destroyed: ~EventLoop does not
\* see to that, and DestroyedAfterClose tells what it does see to.
THEOREM LoopKeepsPromise == Spec => KeepsPromise
<1>1. Init => Life!Init
  <2> SUFFICES ASSUME Init PROVE Life!Init
    OBVIOUS
  <2>1. Phase = "created" /\ tasks = <<>> /\ ~looping /\ closing = {} /\ ~latch
    BY DEF Init, Phase
  <2>2. ~\E i \in 1 .. Len(tasks) : tasks[i] = "close"
    BY <2>1
  <2> QED BY <2>1, <2>2 DEF Life!Init
<1>2. /\ TypeOK /\ LifeInv /\ TypeOK' /\ LifeInv' /\ [Next]_vars
      => [Life!Next]_(Life!vars)
  <2> SUFFICES ASSUME TypeOK, LifeInv, TypeOK', LifeInv', [Next]_vars
               PROVE  Life!Next \/ UNCHANGED Life!vars
    OBVIOUS
  <2>1. CASE JoinThread
    <3>1. Phase = "ended" /\ Phase' = "joined"
      BY <2>1, Phases DEF JoinThread, Phase
    <3>2. Life!Join
      BY <2>1, <3>1 DEF JoinThread, loopVars, Life!Join
    <3> QED BY <3>2 DEF Life!Next
  <2>2. CASE Destroy
    <3>1. Phase = "joined" /\ Phase' = "destroyed"
      BY <2>2, Phases DEF Destroy, Phase
    <3>2. latch
      BY <2>2 DEF Destroy, LifeInv
    <3>3. Life!Destroy
      BY <2>2, <3>1, <3>2 DEF Destroy, loopVars, Life!Destroy
    <3> QED BY <3>3 DEF Life!Next
  <2>3. CASE UNCHANGED vars
    BY <2>3 DEF vars, loopVars, threadVars, Life!vars, Phase
  <2> QED BY <2>1, <2>2, <2>3, CallsAreAllowed, LoopStepsAreAllowed DEF Next
<1> QED BY <1>1, <1>2, LifeInvHolds, PTL DEF Spec, KeepsPromise, Life!Spec

-----------------------------------------------------------------------------
(* What is over when ~EventLoop is.                                         *)

\* Before the first Close nothing is on its way to the latch.  While there has
\* been only one, its closure is nowhere before it has been queued.
OnceInv ==
  /\ closes = 0 => closing = {} /\ ~latch /\ ~CloseIn(tasks)
  /\ closes = 1 => /\ \A t, u \in closing : t = u
                   /\ latch \/ CloseIn(tasks) => closing = {}
  /\ owner = "destroyed" => latch

\* A step that gets no closure nearer to the latch.
LEMMA OnceStays ==
  ASSUME OnceInv, UNCHANGED <<closes, closing, latch>>, CloseIn(tasks') => CloseIn(tasks),
         owner' = "destroyed" => owner = "destroyed"
  PROVE  OnceInv'
  BY DEF OnceInv

LEMMA OnceStep == ASSUME TypeOK, LifeInv, OnceInv, [Next]_vars PROVE OnceInv'
<1>1. ASSUME NEW t \in Threads, CallSchedule(t) \/ CallAdd(t) \/ CallRemove(t) PROVE OnceInv'
  <2>1. UNCHANGED <<closes, closing, latch, owner>>
    BY <1>1 DEF CallSchedule, CallAdd, CallRemove
  <2>2. CloseIn(tasks') <=> CloseIn(tasks)
    BY <1>1, CallKeepsQueued DEF Call
  <2> QED BY <2>1, <2>2, OnceStays
<1>2. ASSUME NEW t \in Threads, ClearLooping(t) PROVE OnceInv'
  <2>1. /\ closes' = closes + 1 /\ closing' = closing \cup {t}
        /\ UNCHANGED <<tasks, latch, owner>> /\ closes \in Nat
    BY <1>2 DEF ClearLooping, TypeOK
  <2>2. closes' # 0 /\ (closes' = 1 => closes = 0)
    BY <2>1
  <2>3. closes = 0 => closing' = {t} /\ ~latch' /\ ~CloseIn(tasks')
    BY <2>1 DEF OnceInv
  <2> QED BY <2>1, <2>2, <2>3 DEF OnceInv
<1>3. ASSUME NEW t \in Threads, ScheduleClose(t) PROVE OnceInv'
  <2>1. /\ t \in closing /\ closing' = closing \ {t}
        /\ UNCHANGED <<closes, latch, owner>>
    BY <1>3 DEF ScheduleClose, countVars
  <2>2. closes # 0 /\ (closes = 1 => closing' = {})
    BY <2>1 DEF OnceInv
  <2> QED BY <2>1, <2>2 DEF OnceInv
<1>4. ASSUME NEW t \in Threads, CountAdded(t) PROVE OnceInv'
  BY <1>4, OnceStays DEF CountAdded, countVars
<1>5. CASE RunTask
  <2>1. UNCHANGED <<closes, closing, owner>>
    BY <1>5 DEF RunTask
  <2>2. (CloseIn(tasks') => CloseIn(tasks)) /\ (latch' /\ ~latch => CloseIn(tasks))
    BY <1>5, RunQueues
  <2> QED BY <1>5, <2>1, <2>2, RunQueues DEF OnceInv, LifeInv, RunTask
<1>6. CASE Again
  <2>1. CloseIn(tasks') <=> CloseIn(tasks)
    BY <1>6, ScheduleQueues DEF Again, Tasks
  <2> QED BY <1>6, <2>1, OnceStays DEF Again, countVars
<1>7. CASE \/ EnterLoop \/ TestLooping \/ Wait \/ WaitFails \/ EndBatch \/ Fetch \/ EndScan
           \/ EndTasks \/ Return \/ JoinThread \/ UNCHANGED vars
  <2>1. /\ UNCHANGED <<closes, closing, latch, tasks>>
        /\ owner' = "destroyed" => owner = "destroyed"
    BY <1>7 DEF EnterLoop, TestLooping, Wait, WaitFails, EndBatch, Fetch, EndScan, EndTasks, Return,
                JoinThread, vars, loopVars, threadVars, countVars
  <2> QED BY <2>1, OnceStays
<1>8. ASSUME NEW c \in Channels, Handle(c) PROVE OnceInv'
  BY <1>8, OnceStays DEF Handle, countVars
<1>9. CASE Destroy
  <2>1. latch /\ UNCHANGED <<closes, closing, latch, tasks>>
    BY <1>9 DEF Destroy, LifeInv, loopVars, countVars
  <2> QED BY <2>1 DEF OnceInv
<1> QED BY <1>1, <1>2, <1>3, <1>4, <1>5, <1>6, <1>7, <1>8, <1>9 DEF Next, LoopStep, Call, GoOn

\* Whichever thread or callback calls Close, and whatever the owner and the queue
\* do: a loop that has been closed once is never freed between the two statements
\* of that Close.  The latch is what this rests on, and what a second Close, or the
\* second half of Add in the lock-free queue, is not covered by.
THEOREM OnlyCloseHasQueued == Spec => []DestroyedAfterClose
<1>1. Init => OnceInv
  BY DEF Init, OnceInv, CloseIn
<1>2. TypeOK /\ LifeInv /\ OnceInv /\ [Next]_vars => OnceInv'
  BY OnceStep
<1>3. OnceInv => DestroyedAfterClose
  BY DEF OnceInv, DestroyedAfterClose
<1> QED BY <1>1, <1>2, <1>3, LifeInvHolds, PTL DEF Spec

-----------------------------------------------------------------------------
(* What TasksRun and CloseFromTaskTerminates rest on: the two things that    *)
(* the loop waits for, the eventfd and close_latch_, are always on their way. *)

\* While the loop waits for its selector and nobody has written the eventfd,
\* nothing is queued, or a thread inside Add is about to write it: a Schedule from
\* any thread, a callback or the end of a batch has always woken the loop for what
\* it left behind.
SleepsOnNothing == at = "wait" /\ ~readable => tasks = <<>> \/ adding # {}

\* With a queue that drains, a Close made from scheduled callbacks only leaves
\* nothing that ~EventLoop could wait for once the thread has been joined.
NothingHoldsDestroy ==
  Drains /\ closedFrom = {"task"} /\ owner = "joined" => closing = {} /\ latch

\* Inside Process, or in a callback that it runs.
InProcess ==
  \/ at \in {"fetch", "scan", "process", "again"}
  \/ at = "callback" /\ caller = "process"

\* Process has yet to look into the queue, and will find what is there now.
WillLook ==
  \/ at = "fetch"
  \/ Drains /\ InProcess /\ ~(at = "scan" /\ left = 0)

\* What has been counted has woken the loop, or Process will see it; callbacks are
\* in hand only while Process runs them; only the lock-free queue is scanned, and
\* only there is a thread seen between its enqueue and its count.
WakeInv ==
  /\ Size > 0 => readable \/ WillLook
  /\ left > 0 => InProcess
  /\ at = "fetch" => left = 0
  /\ at = "scan" => kind = "lock_free"
  /\ kind # "lock_free" => adding = {}
  /\ closing \cap adding = {}
  /\ IsFiniteSet(adding)

LEMMA SizeIsInt ==
  ASSUME TypeOK, WakeInv
  PROVE  /\ Len(tasks) \in Nat /\ left \in Nat /\ left <= Len(tasks)
         /\ Cardinality(adding) \in Nat /\ InHand \in 0 .. Len(tasks) /\ Size \in Int
         /\ Size = Len(tasks) - InHand - Cardinality(adding)
<1>1. tasks \in Seq(Tasks) /\ left \in 0 .. Len(tasks)
  BY DEF TypeOK, Tasks
<1>2. Len(tasks) \in Nat
  BY <1>1
<1>3. Cardinality(adding) \in Nat
  BY FS_CardinalityType DEF WakeInv
<1>4. InHand \in 0 .. Len(tasks)
  BY <1>1, <1>2 DEF InHand
<1> HIDE DEF InHand
<1>5. Size = Len(tasks) - InHand - Cardinality(adding)
  BY DEF Size
<1>6. Size \in Int
  BY <1>2, <1>3, <1>4, <1>5
<1> QED BY <1>1, <1>2, <1>3, <1>4, <1>5, <1>6

\* The queue grows at its end: a mutex queue that was empty is announced, and the
\* lock-free one has counted nothing yet.
LEMMA ScheduleWakes ==
  ASSUME TypeOK, WakeInv, NEW t \in Threads, NEW task \in Tasks, Schedule(t, task),
         t \notin adding, UNCHANGED <<left, kind>>, InHand' = InHand,
         WillLook => WillLook', InProcess => InProcess',
         at' # "fetch" \/ left = 0, at' # "scan" \/ kind = "lock_free",
         closing' \subseteq closing \ {t}
  PROVE  WakeInv'
<1>1. /\ tasks \in Seq(Tasks) /\ tasks' = Append(tasks, task)
      /\ IsFiniteSet(adding)
  BY DEF TypeOK, Tasks, Schedule, WakeInv
<1>2. Len(tasks') = Len(tasks) + 1
  BY <1>1
<1>3. /\ Len(tasks) \in Nat /\ Cardinality(adding) \in Nat /\ InHand \in 0 .. Len(tasks)
      /\ Size = Len(tasks) - InHand - Cardinality(adding)
  BY SizeIsInt
<1>4. Size' = Len(tasks') - InHand' - Cardinality(adding')
  BY DEF Size
<1> HIDE DEF InHand, Size
<1>5. CASE kind = "lock_free"
  <2>1. adding' = adding \cup {t} /\ UNCHANGED readable
    BY <1>5 DEF Schedule
  <2>2. IsFiniteSet(adding') /\ Cardinality(adding') = Cardinality(adding) + 1
    BY <1>1, <2>1, FS_AddElement
  <2>3. Size' = Size
    BY <1>2, <1>3, <1>4, <2>2
  <2> QED BY <1>5, <2>1, <2>2, <2>3 DEF WakeInv
<1>6. CASE kind # "lock_free"
  <2>1. adding' = {} /\ adding = {} /\ readable' = (readable \/ Len(tasks) = InHand)
    BY <1>6 DEF Schedule, WakeInv
  <2>2. Cardinality(adding) = 0
    BY <2>1, FS_EmptySet
  <2>3. Size = Len(tasks) - InHand /\ (Len(tasks) # InHand => Size > 0)
    BY <1>3, <2>2
  <2>4. readable' \/ WillLook'
    <3>1. CASE Len(tasks) = InHand
      BY <2>1, <3>1
    <3>2. CASE Len(tasks) # InHand
      BY <2>1, <2>3, <3>2 DEF WakeInv
    <3> QED BY <3>1, <3>2
  <2>5. IsFiniteSet(adding')
    BY <1>1, <2>1
  <2> QED BY <1>6, <2>1, <2>4, <2>5 DEF WakeInv
<1> QED BY <1>5, <1>6

\* Steps that concern neither the queue nor Process.
LEMMA WakeStays ==
  ASSUME WakeInv, UNCHANGED <<tasks, left, readable, kind, adding>>, closing' \subseteq closing,
         (~InProcess /\ ~InProcess') \/ UNCHANGED <<at, caller>>
  PROVE  WakeInv'
<1>1. CASE UNCHANGED <<at, caller>>
  BY <1>1 DEF WakeInv, WillLook, InProcess, Drains, Size, InHand
<1>2. CASE ~InProcess /\ ~InProcess'
  <2>1. at \notin {"fetch", "scan"} /\ at' \notin {"fetch", "scan"}
    BY <1>2 DEF InProcess
  <2>2. ~WillLook /\ Size' = Size
    BY <1>2, <2>1 DEF WillLook, Size, InHand
  <2> QED BY <1>2, <2>1, <2>2 DEF WakeInv
<1> QED BY <1>1, <1>2

LEMMA CallKeepsWake ==
  ASSUME TypeOK, LifeInv, WakeInv, NEW t \in Threads, Call(t)
  PROVE  WakeInv'
<1>1. UNCHANGED <<left, kind, at, caller>> /\ t \notin Inside
  BY CallQueues DEF MayCall
<1>2. /\ InHand' = InHand /\ (WillLook => WillLook') /\ (InProcess => InProcess')
      /\ at' # "fetch" \/ left = 0
      /\ at' # "scan" \/ kind = "lock_free"
  BY <1>1 DEF InHand, WillLook, InProcess, Drains, WakeInv
<1>3. CASE ClearLooping(t)
  <2>1. closing' = closing \cup {t} /\ UNCHANGED <<tasks, readable, adding>>
    BY <1>3 DEF ClearLooping
  <2>2. closing' \cap adding' = {}
    BY <1>1, <2>1 DEF Inside, WakeInv
  <2>3. Size' = Size
    BY <1>2, <2>1 DEF Size
  <2> QED BY <1>1, <1>2, <2>1, <2>2, <2>3 DEF WakeInv
<1>4. CASE CallSchedule(t) \/ CallAdd(t) \/ CallRemove(t)
  <2>1. closing' = closing /\ t \notin closing /\ t \notin adding
    BY <1>1, <1>4 DEF CallSchedule, CallAdd, CallRemove, Inside
  <2>2. CASE UNCHANGED <<tasks, readable, adding>>
    BY <1>1, <2>1, <2>2, WakeStays
  <2>3. CASE \E task \in Tasks \ {"close"} : Schedule(t, task)
    BY <1>1, <1>2, <2>1, <2>3, ScheduleWakes
  <2> QED BY <2>2, <2>3, CallQueues
<1> QED BY <1>3, <1>4 DEF Call

LEMMA CountKeepsWake ==
  ASSUME TypeOK, WakeInv, NEW t \in Threads, CountAdded(t)
  PROVE  WakeInv'
<1>1. /\ t \in adding /\ adding' = adding \ {t} /\ readable' = (readable \/ Size = 0)
      /\ UNCHANGED <<tasks, left, kind, at, caller, closing>>
  BY DEF CountAdded, countVars
<1>2. IsFiniteSet(adding') /\ Cardinality(adding') = Cardinality(adding) - 1
  BY <1>1, FS_RemoveElement DEF WakeInv
<1>3. InHand' = InHand /\ (WillLook' <=> WillLook) /\ (InProcess' <=> InProcess)
  BY <1>1 DEF InHand, WillLook, InProcess, Drains
<1>4. Size' = Size + 1 /\ Size \in Int
  <2>1. Size' = Len(tasks') - InHand' - Cardinality(adding')
    BY DEF Size
  <2> HIDE DEF InHand, Size
  <2> QED BY <1>1, <1>2, <1>3, <2>1, SizeIsInt
<1>5. Size' > 0 => readable' \/ WillLook'
  <2>1. CASE Size = 0
    BY <1>1, <2>1
  <2>2. CASE Size # 0
    <3>1. Size' > 0 => Size > 0
      BY <1>4, <2>2
    <3> QED BY <1>1, <1>3, <3>1 DEF WakeInv
  <2> QED BY <2>1, <2>2
<1> QED BY <1>1, <1>2, <1>3, <1>5 DEF WakeInv

LEMMA ProcessKeepsWake ==
  ASSUME TypeOK, LifeInv, WakeInv, Fetch \/ EndScan \/ RunTask \/ Again \/ EndTasks
  PROVE  WakeInv'
<1>1. /\ Len(tasks) \in Nat /\ left \in Nat /\ left <= Len(tasks)
      /\ Cardinality(adding) \in Nat /\ InHand \in 0 .. Len(tasks)
      /\ Size = Len(tasks) - InHand - Cardinality(adding) /\ Size \in Int
      /\ tasks \in Seq(Tasks)
  BY SizeIsInt DEF TypeOK, Tasks
<1>2. Size' = Len(tasks') - InHand' - Cardinality(adding')
  BY DEF Size
<1>3. CASE Fetch
  <2>1. /\ at = "fetch" /\ left = 0
        /\ UNCHANGED <<tasks, readable, adding, closing, kind>>
    BY <1>3 DEF Fetch, WakeInv, countVars
  <2>2. CASE kind = "double_buffer" /\ left' = Len(tasks) /\ at' = "process"
    <3>1. InHand' = Len(tasks) /\ InProcess'
      BY <2>2 DEF InHand, InProcess
    <3>2. ~(Size' > 0)
      BY <1>1, <1>2, <2>1, <3>1
    <3> QED BY <2>1, <2>2, <3>1, <3>2 DEF WakeInv
  <2>3. CASE kind = "blocking" /\ tasks # <<>> /\ left' = 1 /\ at' = "process"
    <3>1. InProcess' /\ WillLook'
      BY <2>1, <2>3 DEF InProcess, WillLook, Drains
    <3> QED BY <2>1, <2>3, <3>1 DEF WakeInv
  <2>4. CASE kind = "blocking" /\ tasks = <<>> /\ left' = 0 /\ at' = "handle"
    <3>1. Len(tasks') = 0 /\ InHand' = 0
      BY <2>1, <2>4 DEF InHand
    <3>2. ~(Size' > 0)
      BY <1>1, <1>2, <2>1, <3>1
    <3> QED BY <2>1, <2>4, <3>2 DEF WakeInv
  <2>5. CASE kind = "lock_free" /\ left' = (IF Len(tasks) < Bulk THEN Len(tasks) ELSE Bulk) /\ at' = "scan"
    <3>1. InHand' = 0 /\ InProcess'
      BY <2>5 DEF InHand, InProcess
    <3>2. CASE Len(tasks) = 0
      <4>1. ~(Size' > 0)
        BY <1>1, <1>2, <2>1, <3>1, <3>2
      <4> QED BY <2>1, <2>5, <3>1, <4>1 DEF WakeInv
    <3>3. CASE Len(tasks) # 0
      <4>1. left' # 0
        BY <1>1, <2>5, <3>3, BulkAssumption
      <4>2. WillLook'
        BY <2>1, <2>5, <3>1, <4>1 DEF WillLook, Drains
      <4> QED BY <2>1, <2>5, <3>1, <4>2 DEF WakeInv
    <3> QED BY <3>2, <3>3
  <2> QED BY <1>3, <2>2, <2>3, <2>4, <2>5 DEF Fetch
<1>4. CASE EndScan
  <2>1. PICK n \in left .. Len(tasks) :
          left' = n /\ at' = IF n = 0 THEN "handle" ELSE "process"
    BY <1>4 DEF EndScan
  <2>2. /\ at = "scan" /\ kind = "lock_free"
        /\ UNCHANGED <<tasks, readable, adding, closing, kind>>
    BY <1>4 DEF EndScan, WakeInv, countVars
  <2>3. CASE n = 0
    <3>1. left = 0 /\ left' = 0 /\ at' = "handle"
      BY <1>1, <2>1, <2>3
    <3>2. Size' = Size /\ ~WillLook
      BY <2>2, <3>1 DEF Size, InHand, WillLook
    <3> QED BY <2>2, <3>1, <3>2 DEF WakeInv
  <2>4. CASE n # 0
    <3>1. at' = "process" /\ InProcess' /\ WillLook'
      BY <2>1, <2>2, <2>4 DEF InProcess, WillLook, Drains
    <3> QED BY <2>2, <3>1 DEF WakeInv
  <2> QED BY <2>3, <2>4
<1>5. CASE RunTask
  <2>1. /\ at = "process" /\ left > 0 /\ tasks' = Tail(tasks) /\ left' = left - 1
        /\ at' \in {"process", "again", "callback"} /\ (at' = "callback" => caller' = "process")
        /\ UNCHANGED <<readable, adding, closing, kind>>
    BY <1>5 DEF RunTask
  <2>2. Len(tasks') = Len(tasks) - 1
    BY <1>1, <2>1
  <2>3. InHand = left /\ InHand' = left - 1 /\ InProcess' /\ (WillLook => WillLook')
    BY <2>1 DEF InHand, InProcess, WillLook, Drains
  <2>4. Size' = Size
    BY <1>1, <1>2, <2>1, <2>2, <2>3
  <2> QED BY <2>1, <2>3, <2>4 DEF WakeInv
<1>6. CASE Again
  <2>1. /\ at = "again" /\ at' = "callback" /\ caller' = "process"
        /\ UNCHANGED <<left, kind, closing>> /\ Loop \in Threads
    BY <1>6 DEF Again, countVars, Threads
  <2>2. InHand' = InHand /\ InProcess' /\ (WillLook => WillLook')
    BY <2>1 DEF InHand, InProcess, WillLook, Drains
  <2>3. Loop \notin adding /\ closing' \subseteq closing \ {Loop}
    BY <2>1 DEF LifeInv, Inside
  <2> QED BY <1>6, <2>1, <2>2, <2>3, ScheduleWakes DEF Again, Tasks
<1>7. CASE EndTasks
  <2>1. /\ at = "process" /\ left = 0 /\ at' = IF Drains THEN "fetch" ELSE "handle"
        /\ UNCHANGED <<tasks, left, readable, adding, closing, kind>>
    BY <1>7 DEF EndTasks, loopVars, countVars
  <2>2. Size' = Size
    BY <2>1 DEF Size, InHand
  <2>3. WillLook => WillLook'
    BY <2>1 DEF WillLook
  <2> QED BY <2>1, <2>2, <2>3 DEF WakeInv
<1> QED BY <1>3, <1>4, <1>5, <1>6, <1>7

LEMMA WakeStep == ASSUME TypeOK, LifeInv, WakeInv, [Next]_vars PROVE WakeInv'
<1>1. ASSUME NEW t \in Threads, Call(t) PROVE WakeInv'
  BY <1>1, CallKeepsWake
<1>2. ASSUME NEW t \in Threads, ScheduleClose(t) PROVE WakeInv'
  <2>1. /\ t \in closing /\ closing' = closing \ {t} /\ Schedule(t, "close")
        /\ UNCHANGED <<left, kind, at, caller>>
    BY <1>2 DEF ScheduleClose, countVars
  <2>2. /\ InHand' = InHand /\ (WillLook => WillLook') /\ (InProcess => InProcess')
        /\ at' # "fetch" \/ left = 0
        /\ at' # "scan" \/ kind = "lock_free"
        /\ t \notin adding
    BY <2>1 DEF InHand, WillLook, InProcess, Drains, WakeInv
  <2> QED BY <2>1, <2>2, ScheduleWakes DEF Tasks
<1>3. ASSUME NEW t \in Threads, CountAdded(t) PROVE WakeInv'
  BY <1>3, CountKeepsWake
<1>4. CASE EnterLoop \/ TestLooping \/ Wait \/ WaitFails \/ EndBatch
  <2>1. /\ at \in {"start", "test", "wait", "handle"}
        /\ at' \in {"start", "test", "wait", "handle", "exited"}
        /\ UNCHANGED <<tasks, left, readable, kind, adding, closing>>
    BY <1>4 DEF EnterLoop, TestLooping, Wait, WaitFails, EndBatch, loopVars, countVars
  <2> QED BY <2>1, WakeStays DEF InProcess
<1>5. ASSUME NEW c \in Channels, Handle(c) PROVE WakeInv'
  <2>1. at = "handle" /\ UNCHANGED <<tasks, left, kind, adding, closing>> /\ ~InProcess
    BY <1>5 DEF Handle, countVars, InProcess
  <2>2. left = 0
    BY <2>1, SizeIsInt DEF WakeInv
  <2>3. CASE UNCHANGED readable /\ (UNCHANGED at \/ (at' = "callback" /\ caller' = "handle"))
    BY <2>1, <2>3, WakeStays DEF InProcess
  <2>4. CASE at' = "fetch"
    BY <2>1, <2>2, <2>4 DEF WakeInv, WillLook
  <2> QED BY <1>5, <2>3, <2>4 DEF Handle
<1>6. CASE Fetch \/ EndScan \/ RunTask \/ Again \/ EndTasks
  BY <1>6, ProcessKeepsWake
<1>7. CASE Return
  <2>1. /\ at = "callback" /\ at' = caller /\ caller \in {"handle", "process"}
        /\ UNCHANGED <<caller, tasks, left, readable, kind, adding, closing>>
    BY <1>7 DEF Return, loopVars, countVars, TypeOK
  <2>2. /\ InProcess' <=> InProcess
        /\ WillLook' <=> WillLook
        /\ Size' = Size
    BY <2>1 DEF InProcess, WillLook, Drains, Size, InHand
  <2> QED BY <2>1, <2>2 DEF WakeInv
<1>8. CASE JoinThread \/ Destroy \/ UNCHANGED vars
  <2>1. UNCHANGED <<tasks, left, readable, kind, adding, closing, at, caller>>
    BY <1>8 DEF JoinThread, Destroy, vars, loopVars, threadVars, countVars
  <2> QED BY <2>1, WakeStays
<1> QED BY <1>1, <1>2, <1>3, <1>4, <1>5, <1>6, <1>7, <1>8 DEF Next, LoopStep, GoOn

\* No Schedule is lost between the eventfd and the queue, whichever queue it is:
\* the loop never sleeps on a task that nobody is about to announce.
THEOREM NoTaskIsSleptOn == Spec => []SleepsOnNothing
<1>1. Init => WakeInv
  <2> SUFFICES ASSUME Init PROVE WakeInv
    OBVIOUS
  <2>1. IsFiniteSet(adding) /\ Cardinality(adding) = 0 /\ Len(tasks) = 0 /\ InHand = 0
    BY FS_EmptySet DEF Init, InHand
  <2>2. Size = 0
    BY <2>1 DEF Size
  <2> QED BY <2>1, <2>2 DEF Init, WakeInv
<1>2. TypeOK /\ LifeInv /\ WakeInv /\ [Next]_vars => WakeInv'
  BY WakeStep
<1>3. TypeOK /\ WakeInv => SleepsOnNothing
  <2> SUFFICES ASSUME TypeOK, WakeInv, at = "wait", ~readable, adding = {} PROVE tasks = <<>>
    BY DEF SleepsOnNothing
  <2>1. ~InProcess /\ ~WillLook
    BY DEF InProcess, WillLook
  <2>2. left = 0 /\ InHand = 0 /\ ~(Size > 0) /\ Cardinality(adding) = 0
    BY <2>1, SizeIsInt, FS_EmptySet DEF WakeInv, InHand
  <2>3. Len(tasks) = 0 /\ tasks \in Seq(Tasks)
    BY <2>2, SizeIsInt DEF TypeOK, Tasks
  <2> QED BY <2>3
<1> QED BY <1>1, <1>2, <1>3, LifeInvHolds, PTL DEF Spec

-----------------------------------------------------------------------------

\* The closure of Close lies where this Process will find it.
WillClose == CloseIn(tasks) /\ InProcess /\ ~(at = "scan" /\ left = 0)

\* A Close from a callback of Process has its closure run by that Process.
TaskInv ==
  /\ \A t \in closing : t # Loop => "user" \in closedFrom
  /\ Drains /\ closedFrom = {"task"} => latch \/ (InProcess /\ Loop \in closing) \/ WillClose

LEMMA TaskStays ==
  ASSUME TaskInv, UNCHANGED <<kind, closedFrom, latch, closing>>, InProcess => InProcess',
         CloseIn(tasks) => CloseIn(tasks'), at' = "scan" => at = "scan" /\ left' = left
  PROVE  TaskInv'
  BY DEF TaskInv, WillClose, Drains

LEMMA TaskStep == ASSUME TypeOK, LifeInv, TaskInv, [Next]_vars PROVE TaskInv'
<1>1. ASSUME NEW t \in Threads, CallSchedule(t) \/ CallAdd(t) \/ CallRemove(t) PROVE TaskInv'
  <2>1. UNCHANGED <<kind, closedFrom, latch, closing, at, caller, left>>
    BY <1>1 DEF CallSchedule, CallAdd, CallRemove
  <2>2. CloseIn(tasks) => CloseIn(tasks')
    BY <1>1, CallKeepsQueued DEF Call
  <2>3. InProcess => InProcess'
    BY <2>1 DEF InProcess
  <2> QED BY <2>1, <2>2, <2>3, TaskStays
<1>2. ASSUME NEW t \in Threads, ClearLooping(t) PROVE TaskInv'
  <2>1. /\ MayCall(t) /\ closedFrom' = closedFrom \cup {Site(t)} /\ closing' = closing \cup {t}
        /\ UNCHANGED <<kind, tasks, latch, at, caller>>
    BY <1>2 DEF ClearLooping
  <2>2. t # Loop => Site(t) = "user"
    BY DEF Site
  <2>3. \A u \in closing' : u # Loop => "user" \in closedFrom'
    BY <2>1, <2>2 DEF TaskInv
  <2>4. ASSUME closedFrom' = {"task"} PROVE InProcess' /\ Loop \in closing'
    <3>1. Site(t) = "task"
      BY <2>1, <2>4
    <3>2. t = Loop /\ caller # "handle"
      BY <3>1 DEF Site
    <3>3. at = "callback" /\ caller = "process"
      BY <2>1, <3>2 DEF MayCall, TypeOK
    <3> QED BY <2>1, <3>2, <3>3 DEF InProcess
  <2> QED BY <2>3, <2>4 DEF TaskInv
<1>3. ASSUME NEW t \in Threads, ScheduleClose(t) PROVE TaskInv'
  <2>1. t \in closing /\ closing' = closing \ {t}
        /\ UNCHANGED <<kind, closedFrom, latch, at, caller>>
    BY <1>3 DEF ScheduleClose, countVars
  <2>2. CASE t # Loop
    <3>1. "user" \in closedFrom
      BY <2>1, <2>2 DEF TaskInv
    <3> QED BY <2>1, <3>1 DEF TaskInv
  <2>3. CASE t = Loop
    <3>1. CloseIn(tasks') /\ at' = "callback"
      BY <1>3, <2>1, <2>3, ScheduleQueues DEF ScheduleClose, Tasks, LifeInv, Inside
    <3>2. InProcess => InProcess'
      BY <2>1 DEF InProcess
    <3> QED BY <2>1, <3>1, <3>2 DEF TaskInv, WillClose, Drains
  <2> QED BY <2>2, <2>3
<1>4. ASSUME NEW t \in Threads, CountAdded(t) PROVE TaskInv'
  <2>1. UNCHANGED <<kind, closedFrom, latch, closing, at, caller, left, tasks>>
    BY <1>4 DEF CountAdded, countVars
  <2> QED BY <2>1, TaskStays DEF InProcess
<1>5. CASE EnterLoop \/ TestLooping \/ Wait \/ WaitFails \/ EndBatch
  <2>1. /\ ~InProcess /\ at' # "scan" /\ UNCHANGED <<tasks, kind, closedFrom, latch, closing>>
    BY <1>5 DEF EnterLoop, TestLooping, Wait, WaitFails, EndBatch, loopVars, countVars, InProcess
  <2> QED BY <2>1, TaskStays
<1>6. ASSUME NEW c \in Channels, Handle(c) PROVE TaskInv'
  <2>1. /\ ~InProcess /\ at' # "scan" /\ UNCHANGED <<tasks, kind, closedFrom, latch, closing>>
    BY <1>6 DEF Handle, countVars, InProcess
  <2> QED BY <2>1, TaskStays
<1>7. CASE Fetch \/ EndScan \/ EndTasks
  <2>1. /\ at \in {"fetch", "scan", "process"} /\ Loop \notin closing
        /\ UNCHANGED <<tasks, kind, closedFrom, latch, closing>>
    BY <1>7 DEF Fetch, EndScan, EndTasks, loopVars, countVars, LifeInv, Inside
  <2>2. tasks \in Seq(Tasks) /\ Len(tasks) \in Nat /\ (CloseIn(tasks) => Len(tasks) # 0)
    BY DEF TypeOK, Tasks, CloseIn
  <2>3. ASSUME WillClose, Drains PROVE WillClose'
    <3>1. CloseIn(tasks) /\ CloseIn(tasks') /\ Len(tasks) # 0
      BY <2>1, <2>2, <2>3 DEF WillClose
    <3>2. CASE Fetch
      <4>1. (at' = "process" \/ (at' = "scan" /\ left' # 0))
        BY <2>2, <2>3, <3>1, <3>2, BulkAssumption DEF Fetch, Drains
      <4> QED BY <3>1, <4>1 DEF WillClose, InProcess
    <3>3. CASE EndScan
      <4>1. at' = "process"
        <5>1. PICK n \in left .. Len(tasks) : at' = IF n = 0 THEN "handle" ELSE "process"
          BY <3>3 DEF EndScan
        <5>2. left \in Nat /\ left # 0
          BY <2>3, <3>3 DEF WillClose, EndScan, TypeOK
        <5> QED BY <2>2, <5>1, <5>2
      <4> QED BY <3>1, <4>1 DEF WillClose, InProcess
    <3>4. CASE EndTasks
      BY <2>3, <3>1, <3>4 DEF EndTasks, WillClose, InProcess
    <3> QED BY <1>7, <3>2, <3>3, <3>4
  <2> QED BY <2>1, <2>3 DEF TaskInv, Drains
<1>8. CASE RunTask
  <2>1. /\ at = "process" /\ at' \in {"process", "again", "callback"}
        /\ at' = "callback" => caller' = "process"
        /\ UNCHANGED <<kind, closedFrom, closing>>
    BY <1>8 DEF RunTask
  <2>2. InProcess'
    BY <2>1 DEF InProcess
  <2>3. CASE Head(tasks) = "close"
    <3>1. latch' = TRUE
      BY <1>8, <2>3, RunQueues
    <3> QED BY <2>1, <3>1 DEF TaskInv
  <2>4. CASE Head(tasks) # "close"
    <3>1. UNCHANGED latch /\ (CloseIn(tasks) => CloseIn(tasks'))
      BY <1>8, <2>4, RunQueues
    <3> QED BY <2>1, <2>2, <3>1, TaskStays
  <2> QED BY <2>3, <2>4
<1>9. CASE Again
  <2>1. /\ at' = "callback" /\ caller' = "process"
        /\ UNCHANGED <<kind, closedFrom, closing, latch>>
    BY <1>9 DEF Again, countVars
  <2>2. CloseIn(tasks) => CloseIn(tasks')
    BY <1>9, ScheduleQueues DEF Again, Tasks
  <2> QED BY <2>1, <2>2, TaskStays DEF InProcess
<1>10. CASE Return
  <2>1. /\ at = "callback" /\ at' = caller /\ caller \in {"handle", "process"}
        /\ UNCHANGED <<caller, tasks, kind, closedFrom, latch, closing>>
    BY <1>10 DEF Return, loopVars, countVars, TypeOK
  <2>2. InProcess => InProcess'
    BY <2>1 DEF InProcess
  <2> QED BY <2>1, <2>2, TaskStays
<1>11. CASE JoinThread \/ Destroy \/ UNCHANGED vars
  <2>1. UNCHANGED <<tasks, left, kind, closedFrom, latch, closing, at, caller>>
    BY <1>11 DEF JoinThread, Destroy, vars, loopVars, threadVars, countVars
  <2> QED BY <2>1, TaskStays DEF InProcess
<1> QED BY <1>1, <1>2, <1>3, <1>4, <1>5, <1>6, <1>7, <1>8, <1>9, <1>10, <1>11
        DEF Next, LoopStep, Call, GoOn

\* ~EventLoop does not wait for ever after a Close from a scheduled callback: the
\* closure that counts the latch down was run by the Process that ran the caller.
THEOREM CloseFromTaskCountsDown == Spec => []NothingHoldsDestroy
<1>1. Init => TaskInv
  BY DEF Init, TaskInv
<1>2. TypeOK /\ LifeInv /\ TaskInv /\ [Next]_vars => TaskInv'
  BY TaskStep
<1>3. TypeOK /\ LifeInv /\ TaskInv => NothingHoldsDestroy
  BY DEF TypeOK, LifeInv, TaskInv, WillClose, InProcess, NothingHoldsDestroy, Threads, Inside
<1> QED BY <1>1, <1>2, <1>3, LifeInvHolds, PTL DEF Spec

-----------------------------------------------------------------------------
(* EventLoopGroup.                                                          *)

\* What EventLoopGroup assumes of its constants.
GroupConstants ==
  /\ N \in Nat \ {0} /\ NextModulus \in Nat \ {0} /\ MaxTimers \in Nat
  /\ Owner \in Users /\ Users \cap Nat = {}

\* A number gives back the loop and the timer it was made of.
LEMMA IdApart ==
  ASSUME GroupConstants, NEW timer \in Nat, NEW l \in Group!Loops
  PROVE  /\ Group!GroupId(timer, l) \in Nat
         /\ Group!GroupId(timer, l) % N = l
         /\ Group!GroupId(timer, l) \div N = timer
<1> DEFINE id == timer * N + l
           q == id \div N
           r == id % N
<1>1. N \in Nat /\ 0 < N /\ l \in Nat /\ l < N
  BY DEF GroupConstants, Group!Loops
<1>2. id \in Nat
  <2>1. timer * N \in Nat
    BY <1>1
  <2> QED BY <1>1, <2>1
<1>3. id \in Int /\ N \in Int /\ 0 < N
  BY <1>1, <1>2
<1>4. id = N * q + r /\ r \in 0 .. N - 1
  <2> HIDE DEF id
  <2> QED BY <1>3
<1>5. q \in Nat
  BY <1>1, <1>2, <1>3, SMT
<1> HIDE DEF q, r
<1>6. N * (timer - q) = r - l
  <2>1. id = N * timer + l
    BY <1>1
  <2> QED BY <1>1, <1>4, <1>5, <2>1
<1>7. timer - q \in Int /\ r - l < N /\ -N < r - l
  BY <1>1, <1>4, <1>5
<1>8. timer = q
  <2>1. ASSUME NEW d \in Int, d >= 1 PROVE N * d >= N
    <3>1. d - 1 \in Nat /\ N * (d - 1) \in Nat
      BY <1>1, <2>1
    <3>2. N * d = N * (d - 1) + N
      BY <1>1, <2>1
    <3> QED BY <1>1, <3>1, <3>2
  <2>2. ~(timer - q >= 1)
    BY <1>1, <1>4, <1>6, <1>7, <2>1
  <2>3. ~(q - timer >= 1)
    <3>1. q - timer \in Int /\ N * (q - timer) = l - r
      BY <1>1, <1>4, <1>5, <1>6
    <3> QED BY <1>1, <1>4, <1>7, <2>1, <3>1
  <2> QED BY <1>5, <2>2, <2>3
<1>9. r = l
  BY <1>1, <1>4, <1>6, <1>8
<1> QED BY <1>2, <1>8, <1>9 DEF Group!GroupId, q, r

-----------------------------------------------------------------------------

Adders == {u \in Group!Threads : pc[u] = "add"}

\* What was returned: every timer that the queue of a loop has numbered, under
\* the number that was made of both.
GivenInv ==
  /\ \A g \in given : /\ g \in [id : Nat, loop : Group!Loops, timer : Nat]
                      /\ g.id = Group!GroupId(g.timer, g.loop) /\ g.timer \in 1 .. counter[g.loop]
  /\ dropped \subseteq {g.id : g \in given}

\* Every timer that was numbered was asked for and is counted by the bound.
CountInv ==
  /\ counter \in [Group!Loops -> Nat]
  /\ IsFiniteSet(given) /\ IsFiniteSet(Adders)
  /\ Cardinality(given) + Cardinality(Adders) <= MaxTimers
  /\ \A l \in Group!Loops : counter[l] <= Cardinality(given)

AliveInv ==
  /\ \A l \in Group!Loops : live[l] \subseteq 1 .. counter[l]
  /\ \A g \in given : g.timer \in live[g.loop] <=> g.id \notin dropped

\* The variables whose types do not depend on the others.
FlagsInv ==
  /\ next \in 0 .. NextModulus - 1
  /\ thread \in [Group!Loops -> {"created", "looping", "ended", "joined"}]
  /\ loopings \subseteq Group!Loops /\ queued \subseteq Group!Loops
  /\ latches \subseteq Group!Loops /\ closed \subseteq Group!Loops
  /\ live \in [Group!Loops -> SUBSET Nat]
  /\ pc \in [Group!Threads -> {"idle", "add", "clear", "schedule", "join", "destroy"}]
  /\ place \in [Group!Threads -> Group!Loops]
  /\ ending \in {"no", "joining", "closing", "waiting", "gone"}
  /\ early \in BOOLEAN

GroupInv == FlagsInv /\ CountInv /\ GivenInv /\ AliveInv

LEMMA GroupInvGives == ASSUME GroupConstants, GroupInv PROVE Group!TypeOK /\ AliveUntilCancelled
<1>1. Cardinality(given) \in Nat /\ Cardinality(Adders) \in Nat
  BY FS_CardinalityType DEF GroupInv, CountInv
<1>2. \A l \in Group!Loops : counter[l] \in 0 .. MaxTimers
  BY <1>1 DEF GroupConstants, GroupInv, CountInv
<1>3. counter \in [Group!Loops -> 0 .. MaxTimers]
  BY <1>2 DEF GroupInv, CountInv
<1>4. live \in [Group!Loops -> SUBSET (1 .. MaxTimers)]
  <2>1. ASSUME NEW l \in Group!Loops PROVE live[l] \subseteq 1 .. MaxTimers
    <3>1. live[l] \subseteq 1 .. counter[l]
      BY DEF GroupInv, AliveInv
    <3> QED BY <1>2, <3>1 DEF GroupConstants
  <2> QED BY <2>1 DEF GroupInv, FlagsInv
<1>5. given \subseteq [id : Nat, loop : Group!Loops, timer : 1 .. MaxTimers]
  <2>1. ASSUME NEW g \in given PROVE g \in [id : Nat, loop : Group!Loops, timer : 1 .. MaxTimers]
    <3>1. g \in [id : Nat, loop : Group!Loops, timer : Nat] /\ g.timer \in 1 .. counter[g.loop]
      BY DEF GroupInv, GivenInv
    <3>2. g.timer \in 1 .. MaxTimers
      BY <1>2, <3>1 DEF GroupConstants
    <3> QED BY <3>1, <3>2
  <2> QED BY <2>1
<1>6. UNION {loopings, queued, latches, closed} \subseteq Group!Loops
  BY DEF GroupInv, FlagsInv
<1>7. Group!TimersTypeOK
  BY <1>3, <1>4, <1>5 DEF GroupInv, GivenInv, Group!TimersTypeOK
<1>8. AliveUntilCancelled
  BY <1>7 DEF GroupInv, AliveInv, AliveUntilCancelled, TimersTypeOK, Group!TimersTypeOK,
              Loops, Group!Loops
<1> QED BY <1>6, <1>7, <1>8 DEF GroupInv, FlagsInv, Group!TypeOK

-----------------------------------------------------------------------------

\* Two records of one number are one record.
LEMMA NumbersDiffer ==
  ASSUME GroupConstants, CountInv, GivenInv, NEW g \in given, NEW h \in given
  PROVE  g.id = h.id <=> g.loop = h.loop /\ g.timer = h.timer
<1>1. ASSUME NEW k \in given
      PROVE  /\ k.loop \in Group!Loops /\ k.timer \in Nat
             /\ k.id = Group!GroupId(k.timer, k.loop)
             /\ k.id % N = k.loop /\ k.id \div N = k.timer
  <2>1. k \in [id : Nat, loop : Group!Loops, timer : Nat] /\ k.id = Group!GroupId(k.timer, k.loop)
    BY DEF GivenInv
  <2> QED BY <2>1, IdApart
<1> QED BY <1>1, Zenon

LEMMA InitGroupInv == ASSUME GroupConstants, Group!Init PROVE GroupInv
<1>1. 0 \in Group!Loops /\ 0 \in 0 .. NextModulus - 1
  BY DEF GroupConstants, Group!Loops
<1>2. FlagsInv
  BY <1>1 DEF Group!Init, Group!NoTimers, FlagsInv
<1>3. given = {} /\ dropped = {} /\ Adders = {} /\ counter = [l \in Group!Loops |-> 0]
  BY DEF Group!Init, Group!NoTimers, Adders
<1>4. CountInv
  BY <1>3, FS_EmptySet DEF GroupConstants, CountInv
<1>5. AliveInv /\ GivenInv
  BY <1>3 DEF Group!Init, Group!NoTimers, AliveInv, GivenInv
<1> QED BY <1>2, <1>4, <1>5 DEF GroupInv

\* What no step but the two ends of an Add changes.
AddVars == <<counter, given, Adders>>
TimerSets == <<live, dropped>>

LEMMA AddVarsStay ==
  ASSUME CountInv, GivenInv, UNCHANGED <<AddVars, dropped>>
  PROVE  CountInv' /\ GivenInv'
  BY DEF CountInv, GivenInv, AddVars

LEMMA TimersStay ==
  ASSUME CountInv, GivenInv, AliveInv, UNCHANGED <<AddVars, TimerSets>>
  PROVE  CountInv' /\ GivenInv' /\ AliveInv'
  BY AddVarsStay DEF AddVars, TimerSets, AliveInv

\* The bound leaves room for a timer when Draw begins an Add.
LEMMA DrawCounts ==
  ASSUME GroupConstants, GroupInv, NEW t \in Group!Threads, Group!Draw(t)
  PROVE  CountInv'
<1>1. /\ pc[t] = "idle" /\ UNCHANGED <<given, counter>>
      /\ Cardinality(given) + Cardinality(Adders) < MaxTimers
  BY DEF Group!Draw, Group!MayCall, Adders, Group!Cardinality, Cardinality
<1>2. Adders' = Adders \cup {t} /\ t \notin Adders
  BY <1>1 DEF Group!Draw, Group!Goto, GroupInv, FlagsInv, Adders
<1>3. IsFiniteSet(Adders') /\ Cardinality(Adders') = Cardinality(Adders) + 1
  BY <1>2, FS_AddElement DEF GroupInv, CountInv
<1>4. Cardinality(given) \in Nat /\ Cardinality(Adders) \in Nat
  BY FS_CardinalityType DEF GroupInv, CountInv
<1>5. Cardinality(given) + Cardinality(Adders') <= MaxTimers
  BY <1>1, <1>3, <1>4 DEF GroupConstants
<1> QED BY <1>1, <1>3, <1>5 DEF GroupInv, CountInv

\* The number that a queue hands out is new.
LEMMA AddStep ==
  ASSUME GroupConstants, GroupInv, NEW t \in Group!Threads, Group!AddTimer(t)
  PROVE  CountInv' /\ GivenInv' /\ AliveInv'
<1> DEFINE l == place[t]
           timer == counter[l] + 1
           g == [id |-> Group!GroupId(timer, l), loop |-> l, timer |-> timer]
<1>1. /\ l \in Group!Loops /\ counter[l] \in Nat /\ timer \in Nat /\ timer \notin 1 .. counter[l]
      /\ counter \in [Group!Loops -> Nat] /\ live \in [Group!Loops -> SUBSET Nat]
  BY DEF GroupInv, FlagsInv, CountInv
<1>2. /\ counter' = [counter EXCEPT ![l] = timer]
      /\ live' = [live EXCEPT ![l] = @ \cup {timer}]
      /\ given' = given \cup {g} /\ UNCHANGED dropped /\ pc[t] = "add"
  BY DEF Group!AddTimer, Group!NumberTimer
<1> HIDE DEF l, timer
<1>3. g \notin given
  <2>1. g.loop = l /\ g.timer = timer
    OBVIOUS
  <2> QED BY <1>1, <2>1 DEF GroupInv, GivenInv
<1>4. \A k \in Group!Loops : counter'[k] = IF k = l THEN counter[k] + 1 ELSE counter[k]
  BY <1>1, <1>2 DEF timer
<1>5. CountInv'
  <2>1. IsFiniteSet(given') /\ Cardinality(given') = Cardinality(given) + 1
    BY <1>2, <1>3, FS_AddElement DEF GroupInv, CountInv
  <2>2. Adders' = Adders \ {t} /\ t \in Adders
    BY <1>2 DEF Group!AddTimer, Group!Goto, GroupInv, FlagsInv, Adders
  <2>3. IsFiniteSet(Adders') /\ Cardinality(Adders') = Cardinality(Adders) - 1
    BY <2>2, FS_RemoveElement DEF GroupInv, CountInv
  <2>4. Cardinality(given) \in Nat /\ Cardinality(Adders) \in Nat
    BY FS_CardinalityType DEF GroupInv, CountInv
  <2>5. Cardinality(given') + Cardinality(Adders') <= MaxTimers
    BY <2>1, <2>3, <2>4 DEF GroupConstants, GroupInv, CountInv
  <2>6. counter' \in [Group!Loops -> Nat]
    BY <1>1, <1>2
  <2>7. \A k \in Group!Loops : counter'[k] <= Cardinality(given')
    BY <1>1, <1>4, <2>1, <2>4 DEF GroupInv, CountInv
  <2> QED BY <2>1, <2>3, <2>5, <2>6, <2>7 DEF CountInv
<1>6. GivenInv'
  <2>1. ASSUME NEW h \in given'
        PROVE  /\ h \in [id : Nat, loop : Group!Loops, timer : Nat]
               /\ h.id = Group!GroupId(h.timer, h.loop) /\ h.timer \in 1 .. counter'[h.loop]
    <3>1. CASE h = g
      <4>1. Group!GroupId(timer, l) \in Nat
        BY <1>1, IdApart
      <4>2. timer \in 1 .. counter'[l]
        BY <1>1, <1>4 DEF timer
      <4> QED BY <1>1, <3>1, <4>1, <4>2
    <3>2. CASE h \in given
      <4>1. /\ h \in [id : Nat, loop : Group!Loops, timer : Nat]
            /\ h.id = Group!GroupId(h.timer, h.loop) /\ h.timer \in 1 .. counter[h.loop]
        BY <3>2 DEF GroupInv, GivenInv
      <4>2. h.timer \in 1 .. counter'[h.loop]
        BY <1>1, <1>4, <4>1
      <4> QED BY <4>1, <4>2
    <3> QED BY <1>2, <2>1, <3>1, <3>2
  <2>2. dropped' \subseteq {h.id : h \in given'}
    BY <1>2 DEF GroupInv, GivenInv
  <2> QED BY <2>1, <2>2 DEF GivenInv
<1>7. AliveInv'
  <2>1. ASSUME NEW k \in Group!Loops PROVE live'[k] \subseteq 1 .. counter'[k]
    <3>1. live[k] \subseteq 1 .. counter[k] /\ counter[k] \in Nat
      BY <1>1 DEF GroupInv, AliveInv
    <3>2. live'[k] \subseteq live[k] \cup {IF k = l THEN timer ELSE 1} \/ k # l
      BY <1>1, <1>2
    <3>3. k # l => live'[k] = live[k]
      BY <1>1, <1>2
    <3> QED BY <1>1, <1>4, <3>1, <3>2, <3>3 DEF timer
  <2>2. ASSUME NEW h \in given' PROVE h.timer \in live'[h.loop] <=> h.id \notin dropped'
    <3>1. CASE h = g
      <4>1. h.timer \in live'[h.loop]
        BY <1>1, <1>2, <3>1
      <4>2. h.id \notin dropped
        <5>1. SUFFICES ASSUME h.id \in dropped PROVE FALSE
          OBVIOUS
        <5>2. PICK k \in given : k.id = h.id
          BY <5>1 DEF GroupInv, GivenInv
        <5>3. /\ k \in [id : Nat, loop : Group!Loops, timer : Nat]
              /\ k.id = Group!GroupId(k.timer, k.loop) /\ k.timer \in 1 .. counter[k.loop]
          BY <5>2 DEF GroupInv, GivenInv
        <5>4. h.id = Group!GroupId(timer, l)
          BY <3>1
        <5>5. k.loop = l /\ k.timer = timer
          <6>1. k.id % N = k.loop /\ k.id \div N = k.timer
            BY <5>3, IdApart
          <6>2. h.id % N = l /\ h.id \div N = timer
            BY <1>1, <5>4, IdApart
          <6> QED BY <5>2, <6>1, <6>2, Zenon
        <5> QED BY <1>1, <5>3, <5>5
      <4> QED BY <1>2, <4>1, <4>2
    <3>2. CASE h \in given
      <4>1. h.loop \in Group!Loops /\ h.timer \in 1 .. counter[h.loop]
        BY <3>2 DEF GroupInv, GivenInv
      <4>2. h.timer \in live'[h.loop] <=> h.timer \in live[h.loop]
        BY <1>1, <1>2, <4>1
      <4> QED BY <1>2, <3>2, <4>2 DEF GroupInv, AliveInv
    <3> QED BY <1>2, <2>2, <3>1, <3>2
  <2> QED BY <2>1, <2>2 DEF AliveInv
<1> QED BY <1>5, <1>6, <1>7

\* A timer that is cancelled, or has run for good, leaves the table of its own
\* loop, and no other timer does.
LEMMA DropStep ==
  ASSUME GroupConstants, GroupInv, NEW g \in given,
         live' = [live EXCEPT ![g.loop] = @ \ {g.timer}], dropped' = dropped \cup {g.id},
         UNCHANGED AddVars
  PROVE  CountInv' /\ GivenInv' /\ AliveInv'
<1>1. CountInv'
  BY DEF AddVars, GroupInv, CountInv
<1>2. GivenInv'
  BY DEF AddVars, GroupInv, GivenInv
<1>3. ASSUME NEW h \in given
      PROVE  /\ h.loop \in Group!Loops
             /\ h.id = g.id <=> h.loop = g.loop /\ h.timer = g.timer
  <2>1. h.id = g.id <=> h.loop = g.loop /\ h.timer = g.timer
    BY NumbersDiffer DEF GroupInv
  <2> QED BY <2>1 DEF GroupInv, GivenInv
<1>4. live \in [Group!Loops -> SUBSET Nat]
  BY DEF GroupInv, FlagsInv
<1>5. ASSUME NEW h \in given PROVE h.timer \in live'[h.loop] <=> h.id \notin dropped'
  <2>1. h.timer \in live'[h.loop] <=>
          h.timer \in live[h.loop] /\ ~(h.loop = g.loop /\ h.timer = g.timer)
    BY <1>3, <1>4
  <2>2. h.timer \in live[h.loop] <=> h.id \notin dropped
    BY DEF GroupInv, AliveInv
  <2> QED BY <1>3, <2>1, <2>2
<1>6. ASSUME NEW l \in Group!Loops PROVE live'[l] \subseteq 1 .. counter'[l]
  <2>1. live'[l] \subseteq live[l]
    BY <1>4
  <2> QED BY <2>1 DEF AddVars, GroupInv, AliveInv
<1>7. given' = given
  BY DEF AddVars
<1> QED BY <1>1, <1>2, <1>5, <1>6, <1>7 DEF AliveInv

\* Who goes from one place to another that is not inside an Add.
LEMMA GoesElsewhere ==
  ASSUME GroupInv, NEW t \in Group!Threads, NEW p, NEW l, Group!Goto(t, p, l), pc[t] # "add",
    p # "add"
  PROVE  Adders' = Adders
  BY DEF Group!Goto, Adders, GroupInv, FlagsInv

LEMMA TimersStep ==
  ASSUME GroupConstants, GroupInv, [Group!Next]_(Group!vars)
  PROVE  CountInv' /\ GivenInv' /\ AliveInv'
<1> USE DEF AddVars, TimerSets
<1>1. ASSUME UNCHANGED <<Group!timerVars, Adders>> PROVE CountInv' /\ GivenInv' /\ AliveInv'
  BY <1>1, TimersStay DEF Group!timerVars, GroupInv
<1>2. ASSUME UNCHANGED <<counter, given, live, dropped, pc>>
      PROVE  CountInv' /\ GivenInv' /\ AliveInv'
  BY <1>2, TimersStay DEF GroupInv, Adders
<1>3. ASSUME NEW t \in Group!Threads, NEW p, NEW l, Group!Goto(t, p, l), pc[t] # "add",
  p # "add", UNCHANGED Group!timerVars
      PROVE  CountInv' /\ GivenInv' /\ AliveInv'
  BY <1>1, <1>3, GoesElsewhere
<1>4. Owner \in Group!Threads
  BY DEF GroupConstants, Group!Threads
<1>5. ASSUME NEW t \in Group!Threads, Group!CallStep(t) PROVE CountInv' /\ GivenInv' /\ AliveInv'
  <2>1. CASE Group!ClearLooping(t)
    BY <1>3, <2>1 DEF Group!ClearLooping
  <2>2. CASE Group!ScheduleClose(t)
    BY <1>3, <2>2 DEF Group!ScheduleClose, Group!NextLoop, Group!AfterClose
  <2> QED BY <1>5, <2>1, <2>2, AddStep DEF Group!CallStep
<1>6. ASSUME NEW t \in Group!Threads, Group!Schedule(t) PROVE CountInv' /\ GivenInv' /\ AliveInv'
  BY <1>2, <1>6 DEF Group!Schedule
<1>7. ASSUME NEW t \in Group!Threads, Group!Draw(t) PROVE CountInv' /\ GivenInv' /\ AliveInv'
  <2>1. CountInv'
    BY <1>7, DrawCounts
  <2>2. UNCHANGED <<counter, given, live, dropped>>
    BY <1>7 DEF Group!Draw
  <2> QED BY <2>1, <2>2 DEF GroupInv, GivenInv, AliveInv
<1>8. ASSUME NEW t \in Group!Threads, Group!Close(t) PROVE CountInv' /\ GivenInv' /\ AliveInv'
  BY <1>3, <1>8 DEF Group!Close, Group!MayCall
<1>9. ASSUME NEW t \in Group!Threads, NEW g \in given, Group!ScheduleCancel(t, g.id)
      PROVE  CountInv' /\ GivenInv' /\ AliveInv'
  <2>1. g.id % N = g.loop /\ g.id \div N = g.timer
    BY IdApart DEF GroupInv, GivenInv
  <2>2. live' = [live EXCEPT ![g.id % N] = @ \ {g.id \div N}] /\ dropped' = dropped \cup {g.id}
        /\ UNCHANGED AddVars
    BY <1>9 DEF Group!ScheduleCancel, Group!DropTimer, Adders
  <2>3. live' = [live EXCEPT ![g.loop] = @ \ {g.timer}]
    BY <2>1, <2>2
  <2> QED BY <2>2, <2>3, DropStep
<1>10. ASSUME NEW l \in Group!Loops, Group!LoopStep(l) PROVE CountInv' /\ GivenInv' /\ AliveInv'
  BY <1>2, <1>10 DEF Group!LoopStep, Group!EnterLoop, Group!RunClose, Group!LeaveLoop,
                     Group!timerVars
<1>11. ASSUME NEW l \in Group!Loops, Group!TimerRuns(l) PROVE CountInv' /\ GivenInv' /\ AliveInv'
  <2>1. PICK g \in given : /\ g.loop = l /\ live' = [live EXCEPT ![l] = @ \ {g.timer}]
                           /\ dropped' = dropped \cup {g.id}
    BY <1>11 DEF Group!TimerRuns, Group!DropTimer
  <2>2. UNCHANGED AddVars
    BY <1>11 DEF Group!TimerRuns, Group!DropTimer, Adders
  <2> QED BY <2>1, <2>2, DropStep
<1>12. CASE Group!Join \/ Group!HandleJoin \/ Group!Destroy \/ Group!DestroyLoop
  BY <1>3, <1>4, <1>12 DEF Group!Join, Group!HandleJoin, Group!Destroy, Group!DestroyLoop,
                           Group!MayCall
<1>13. CASE UNCHANGED Group!vars
  BY <1>2, <1>13 DEF Group!vars, Group!timerVars
<1> QED BY <1>5, <1>6, <1>7, <1>8, <1>9, <1>10, <1>11, <1>12, <1>13 DEF Group!Next

\* next_ and the number of a loop stay in their ranges.
LEMMA NextInRange ==
  ASSUME GroupConstants, next \in 0 .. NextModulus - 1
  PROVE  (next + 1) % NextModulus \in 0 .. NextModulus - 1 /\ next % N \in Group!Loops
<1>1. /\ next \in Int /\ next + 1 \in Int
      /\ N \in Int /\ 0 < N /\ NextModulus \in Int /\ 0 < NextModulus
  BY DEF GroupConstants
<1>2. next % N \in 0 .. N - 1 /\ (next + 1) % NextModulus \in 0 .. NextModulus - 1
  BY <1>1
<1> QED BY <1>2 DEF Group!Loops

LEMMA GotoType ==
  ASSUME FlagsInv, NEW t \in Group!Threads, NEW l \in Group!Loops,
         NEW p \in {"idle", "add", "clear", "schedule", "join", "destroy"}, Group!Goto(t, p, l)
  PROVE  /\ pc' \in [Group!Threads -> {"idle", "add", "clear", "schedule", "join", "destroy"}]
         /\ place' \in [Group!Threads -> Group!Loops]
  BY DEF FlagsInv, Group!Goto

LEMMA FlagsStep == ASSUME GroupConstants, GroupInv, [Group!Next]_(Group!vars) PROVE FlagsInv'
<1> DEFINE Places ==
  /\ pc' \in [Group!Threads -> {"idle", "add", "clear", "schedule", "join", "destroy"}]
  /\ place' \in [Group!Threads -> Group!Loops]
<1>1. /\ FlagsInv /\ 0 \in Group!Loops /\ Owner \in Group!Threads
      /\ \A l \in Group!Loops : l + 1 < N => l + 1 \in Group!Loops
  BY DEF GroupConstants, GroupInv, Group!Loops, Group!Threads
<1>2. (next + 1) % NextModulus \in 0 .. NextModulus - 1 /\ next % N \in Group!Loops
  BY <1>1, NextInRange DEF FlagsInv
<1>3. \A t \in Group!Threads : place[t] \in Group!Loops
  BY <1>1 DEF FlagsInv
<1>4. ASSUME NEW t \in Group!Threads, Group!CallStep(t) PROVE FlagsInv'
  <2>1. CASE Group!AddTimer(t)
    <3>1. Places
      BY <1>1, <2>1, GotoType DEF Group!AddTimer
    <3>2. counter[place[t]] + 1 \in Nat
      BY <1>3 DEF GroupInv, CountInv
    <3>3. live' \in [Group!Loops -> SUBSET Nat]
      BY <1>1, <1>3, <2>1, <3>2 DEF Group!AddTimer, Group!NumberTimer, FlagsInv
    <3> QED BY <1>1, <2>1, <3>1, <3>3 DEF Group!AddTimer, FlagsInv, Group!loopVars
  <2>2. CASE Group!ClearLooping(t)
    <3>1. Places
      BY <1>1, <1>3, <2>2, GotoType DEF Group!ClearLooping
    <3>2. loopings' \subseteq Group!Loops /\ closed' \subseteq Group!Loops
      BY <1>1, <1>3, <2>2 DEF Group!ClearLooping, FlagsInv
    <3>3. early' \in BOOLEAN
      <4>1. early' = (early \/ thread[place[t]] = "created")
        BY <2>2 DEF Group!ClearLooping
      <4> QED BY <4>1, Zenon
    <3> QED BY <1>1, <2>2, <3>1, <3>2, <3>3 DEF Group!ClearLooping, FlagsInv, Group!timerVars
  <2>3. CASE Group!ScheduleClose(t)
    <3>1. Places
      BY <1>1, <1>3, <2>3, GotoType DEF Group!ScheduleClose, Group!NextLoop, Group!AfterClose
    <3> QED BY <1>1, <1>3, <2>3, <3>1 DEF Group!ScheduleClose, FlagsInv, Group!timerVars
  <2> QED BY <1>4, <2>1, <2>2, <2>3 DEF Group!CallStep
<1>5. ASSUME NEW t \in Group!Threads, Group!Schedule(t) PROVE FlagsInv'
  BY <1>1, <1>2, <1>5 DEF Group!Schedule, FlagsInv, Group!loopVars
<1>6. ASSUME NEW t \in Group!Threads, Group!Draw(t) PROVE FlagsInv'
  <2>1. Places
    BY <1>1, <1>2, <1>6, GotoType DEF Group!Draw
  <2> QED BY <1>1, <1>2, <1>6, <2>1 DEF Group!Draw, FlagsInv, Group!loopVars
<1>7. ASSUME NEW t \in Group!Threads, Group!Close(t) PROVE FlagsInv'
  <2>1. Places
    BY <1>1, <1>7, GotoType DEF Group!Close
  <2> QED BY <1>1, <1>7, <2>1 DEF Group!Close, FlagsInv, Group!loopVars, Group!timerVars
<1>8. ASSUME UNCHANGED <<next, thread, loopings, queued, latches, closed, pc, place, ending,
  early>>,
             NEW l, NEW k, live' = [live EXCEPT ![l] = @ \ {k}]
      PROVE  FlagsInv'
  <2>1. live' \in [Group!Loops -> SUBSET Nat]
    BY <1>1, <1>8 DEF FlagsInv
  <2> QED BY <1>1, <1>8, <2>1 DEF FlagsInv
<1>9. ASSUME NEW t \in Group!Threads, NEW g \in given, Group!ScheduleCancel(t, g.id) PROVE FlagsInv'
  BY <1>8, <1>9 DEF Group!ScheduleCancel, Group!DropTimer, Group!loopVars
<1>10. ASSUME NEW l \in Group!Loops, Group!LoopStep(l) PROVE FlagsInv'
  BY <1>1, <1>10 DEF Group!LoopStep, Group!EnterLoop, Group!RunClose, Group!LeaveLoop, FlagsInv,
                     Group!timerVars
<1>11. ASSUME NEW l \in Group!Loops, Group!TimerRuns(l) PROVE FlagsInv'
  BY <1>8, <1>11 DEF Group!TimerRuns, Group!DropTimer, Group!loopVars
<1>12. CASE Group!Join \/ Group!Destroy \/ Group!DestroyLoop
  <2>1. Places
    BY <1>1, <1>3, <1>12, GotoType DEF Group!Join, Group!Destroy, Group!DestroyLoop
  <2> QED BY <1>1, <1>12, <2>1 DEF Group!Join, Group!Destroy, Group!DestroyLoop, FlagsInv,
                              Group!loopVars, Group!timerVars
<1>13. CASE Group!HandleJoin
  <2>1. Places
    BY <1>1, <1>3, <1>13, GotoType DEF Group!HandleJoin
  <2>2. thread' \in [Group!Loops -> {"created", "looping", "ended", "joined"}]
    BY <1>1, <1>13 DEF Group!HandleJoin, FlagsInv
  <2> QED BY <1>1, <1>13, <2>1, <2>2 DEF Group!HandleJoin, FlagsInv, Group!timerVars
<1>14. CASE UNCHANGED Group!vars
  BY <1>1, <1>14 DEF Group!vars, Group!loopVars, Group!timerVars, FlagsInv
<1> QED BY <1>4, <1>5, <1>6, <1>7, <1>9, <1>10, <1>11, <1>12, <1>13, <1>14 DEF Group!Next

LEMMA GroupInvariant ==
  ASSUME GroupConstants
  PROVE  Group!Spec => []GroupInv
<1>1. Group!Init => GroupInv
  BY InitGroupInv
<1>2. GroupInv /\ [Group!Next]_(Group!vars) => GroupInv'
  BY FlagsStep, TimersStep DEF GroupInv
<1> QED BY <1>1, <1>2, PTL DEF Group!Spec

\* Whoever cancels a timer by its number, from any thread and in any order with
\* the timers that are added and run, stops that timer and no other: the number
\* of a timer stays its own, although each queue counts for itself.
THEOREM NumbersNameTimers ==
  ASSUME GroupConstants
  PROVE  Group!Spec => []AliveUntilCancelled
<1>1. GroupInv => AliveUntilCancelled
  BY GroupInvGives
<1> QED BY <1>1, GroupInvariant, PTL

\* Every variable of EventLoopGroup keeps its type, from which of its threads the
\* calls may come and however they interleave.
THEOREM GroupTypeCorrect ==
  ASSUME GroupConstants
  PROVE  Group!Spec => []Group!TypeOK
<1>1. GroupInv => Group!TypeOK
  BY GroupInvGives
<1> QED BY <1>1, GroupInvariant, PTL

-----------------------------------------------------------------------------
(* Every loop of a group is used as LoopLife lets it be used.               *)

Others == Group!Threads \ {Owner}

\* A thread of a loop is inside a call only while it is inside Loop; only the
\* owner joins and destroys, alone, and goes past the loops whose threads it has
\* joined.
PlaceInv ==
  /\ \A l \in Group!Loops : pc[l] # "idle" => thread[l] = "looping"
  /\ \A t \in Others : pc[t] \notin {"join", "destroy"}
  /\ ending \in {"closing", "waiting", "gone"} => \A t \in Others \ Group!Loops : pc[t] = "idle"
  /\ ending = "waiting" <=> pc[Owner] = "destroy"
  /\ ending = "gone" => pc[Owner] = "idle"
  /\ pc[Owner] = "join" => ending \in {"joining", "closing"}
  /\ pc[Owner] = "join" => \A k \in Group!Loops : k < place[Owner] => thread[k] = "joined"
  /\ ending \in {"waiting", "gone"} => \A l \in Group!Loops : thread[l] = "joined"

\* What Goto does to the functions.
LEMMA GotoFacts ==
  ASSUME FlagsInv, NEW t \in Group!Threads, NEW p, NEW k, Group!Goto(t, p, k)
  PROVE  /\ pc'[t] = p /\ place'[t] = k
         /\ \A u \in Group!Threads : u # t => pc'[u] = pc[u] /\ place'[u] = place[u]
  BY DEF FlagsInv, Group!Goto

LEMMA OwnerApart ==
  ASSUME GroupConstants
  PROVE  /\ Owner \in Group!Threads /\ Owner \notin Group!Loops
         /\ Group!Loops \subseteq Others /\ Others \subseteq Group!Threads
         /\ \A t \in Group!Threads : t \in Others \/ t = Owner
         /\ 0 \in Group!Loops
         /\ \A l \in Group!Loops : l \in Nat /\ l < N /\ (l + 1 < N => l + 1 \in Group!Loops)
  BY DEF GroupConstants, Group!Threads, Group!Loops, Others

\* A thread that is not the owner, or the owner before the end, goes from one
\* step of a call to another.
LEMMA GoesOn ==
  ASSUME GroupConstants, FlagsInv, PlaceInv, NEW t \in Group!Threads, NEW p, NEW k,
         Group!Goto(t, p, k), p \in {"idle", "add", "clear", "schedule"}, pc[t] \notin {"join", "destroy"},
         UNCHANGED <<thread, ending>>,
         t \in Group!Loops => thread[t] = "looping",
         p # "idle" => ending \notin {"waiting", "gone"} /\ (ending = "closing" => t = Owner \/ t \in Group!Loops)
  PROVE  PlaceInv'
<1>1. /\ pc'[t] = p
      /\ \A u \in Group!Threads : u # t => pc'[u] = pc[u] /\ place'[u] = place[u]
  BY GotoFacts
<1>2. CASE t = Owner
  <2>1. ~(ending = "waiting") /\ pc[Owner] # "destroy" /\ pc'[Owner] \notin {"join", "destroy"}
    BY <1>1, <1>2 DEF PlaceInv
  <2>2. \A u \in Others : pc'[u] = pc[u]
    BY <1>1, <1>2 DEF Others
  <2>3. ending = "gone" => pc'[Owner] = "idle"
    BY <1>1, <1>2
  <2>4. \A l \in Group!Loops : pc'[l] = pc[l]
    BY <2>2, OwnerApart
  <2> QED BY <2>1, <2>2, <2>3, <2>4 DEF PlaceInv, Others
<1>3. CASE t # Owner
  <2>1. pc'[Owner] = pc[Owner] /\ place'[Owner] = place[Owner]
    BY <1>1, <1>3, OwnerApart
  <2>2. \A u \in Others : pc'[u] = IF u = t THEN p ELSE pc[u]
    BY <1>1 DEF Others
  <2>3. \A l \in Group!Loops : pc'[l] # "idle" => thread'[l] = "looping"
    BY <2>2, OwnerApart DEF PlaceInv
  <2>4. ending \in {"closing", "waiting", "gone"} => \A u \in Others \ Group!Loops : pc'[u] = "idle"
    BY <1>3, <2>2 DEF PlaceInv
  <2> QED BY <2>1, <2>2, <2>3, <2>4 DEF PlaceInv, Others
<1> QED BY <1>2, <1>3

\* A thread of a loop that nobody has joined goes from one phase to the next.
LEMMA ThreadGoesOn ==
  ASSUME GroupConstants, FlagsInv, PlaceInv, NEW l \in Group!Loops, NEW p,
         thread' = [thread EXCEPT ![l] = p], thread[l] # "joined", pc[l] = "idle",
         UNCHANGED <<pc, place, ending>>
  PROVE  PlaceInv'
<1>1. \A k \in Group!Loops : k # l => thread'[k] = thread[k]
  BY DEF FlagsInv
<1>2. ending \notin {"waiting", "gone"}
  BY DEF PlaceInv
<1>3. \A k \in Group!Loops : thread[k] = "joined" => thread'[k] = "joined"
  BY <1>1
<1>4. \A k \in Group!Loops : pc'[k] # "idle" => thread'[k] = "looping"
  BY <1>1 DEF PlaceInv
<1> QED BY <1>2, <1>3, <1>4 DEF PlaceInv, Others

LEMMA PlaceStays ==
  ASSUME PlaceInv, UNCHANGED <<thread, pc, place, ending>>
  PROVE  PlaceInv'
  BY DEF PlaceInv, Others

\* The owner joins one thread after the other and begins to destroy when it has
\* joined them all.
LEMMA JoinKeepsPlace ==
  ASSUME GroupConstants, FlagsInv, PlaceInv, Group!HandleJoin
  PROVE  PlaceInv'
<1> DEFINE l == place[Owner]
<1>1. /\ pc[Owner] = "join" /\ thread[l] \in {"ended", "joined"}
      /\ thread' = [thread EXCEPT ![l] = "joined"]
      /\ IF l + 1 < N
         THEN Group!Goto(Owner, "join", l + 1) /\ UNCHANGED ending
         ELSE IF ending = "joining"
              THEN Group!Goto(Owner, "idle", 0) /\ ending' = "no"
              ELSE Group!Goto(Owner, "destroy", 0) /\ ending' = "waiting"
  BY DEF Group!HandleJoin
<1>2. l \in Group!Loops /\ l \in Nat
  BY OwnerApart DEF FlagsInv
<1>3. \A k \in Group!Loops : thread'[k] = IF k = l THEN "joined" ELSE thread[k]
  BY <1>1, <1>2 DEF FlagsInv
<1>4. /\ ending \in {"joining", "closing"}
      /\ \A k \in Group!Loops : k < l => thread[k] = "joined"
  BY <1>1 DEF PlaceInv
<1>5. \A t \in Others : pc'[t] = pc[t] /\ t # Owner
  <2>1. \E p, k : Group!Goto(Owner, p, k)
    BY <1>1
  <2> QED BY <2>1, GotoFacts, OwnerApart DEF Others
<1>6. \A k \in Group!Loops : pc'[k] # "idle" => thread'[k] = "looping"
  BY <1>1, <1>2, <1>3, <1>5, OwnerApart DEF PlaceInv
<1>7. \A t \in Others : pc'[t] \notin {"join", "destroy"}
  BY <1>5 DEF PlaceInv
<1> HIDE DEF l
<1>8. \A k \in Group!Loops : k < l + 1 => thread'[k] = "joined"
  <2> SUFFICES ASSUME NEW k \in Group!Loops, k < l + 1 PROVE thread'[k] = "joined"
    OBVIOUS
  <2>1. k = l \/ k < l
    BY <1>2, OwnerApart
  <2> QED BY <1>3, <1>4, <2>1
<1>9. CASE l + 1 < N
  <2>1. Group!Goto(Owner, "join", l + 1) /\ ending' = ending
    BY <1>1, <1>9 DEF l
  <2>2. pc'[Owner] = "join" /\ place'[Owner] = l + 1
    BY <2>1, GotoFacts, OwnerApart
  <2>3. ending' = "closing" => \A t \in Others \ Group!Loops : pc'[t] = "idle"
    BY <1>5, <2>1 DEF PlaceInv
  <2> QED BY <1>4, <1>6, <1>7, <1>8, <2>1, <2>2, <2>3 DEF PlaceInv, Others
<1>10. CASE ~(l + 1 < N) /\ ending = "joining"
  <2>1. Group!Goto(Owner, "idle", 0) /\ ending' = "no"
    BY <1>1, <1>10 DEF l
  <2>2. pc'[Owner] = "idle"
    BY <2>1, GotoFacts, OwnerApart
  <2> QED BY <1>6, <1>7, <2>1, <2>2 DEF PlaceInv, Others
<1>11. CASE ~(l + 1 < N) /\ ending # "joining"
  <2>1. Group!Goto(Owner, "destroy", 0) /\ ending' = "waiting" /\ ending = "closing"
    BY <1>1, <1>4, <1>11 DEF l
  <2>2. pc'[Owner] = "destroy"
    BY <2>1, GotoFacts, OwnerApart
  <2>3. \A t \in Others \ Group!Loops : pc'[t] = "idle"
    BY <1>5, <2>1 DEF PlaceInv
  <2>4. \A k \in Group!Loops : k < l + 1
    BY <1>2, <1>11, OwnerApart DEF GroupConstants
  <2>5. \A k \in Group!Loops : thread'[k] = "joined"
    BY <1>8, <2>4
  <2> QED BY <1>6, <1>7, <2>1, <2>2, <2>3, <2>5 DEF PlaceInv, Others
<1> QED BY <1>9, <1>10, <1>11

LEMMA PlaceStep ==
  ASSUME GroupConstants, GroupInv, PlaceInv, [Group!Next]_(Group!vars)
  PROVE  PlaceInv'
<1>1. FlagsInv
  BY DEF GroupInv
<1>2. ASSUME NEW t \in Group!Threads, Group!MayCall(t)
      PROVE  /\ t \in Group!Loops => thread[t] = "looping"
             /\ pc[t] = "idle"
             /\ ending \in {"no", "joining"} \/ (ending = "closing" /\ t \in Group!Loops)
  <2>1. ending \in {"no", "joining"} \/ (ending = "closing" /\ t \in Group!Loops)
    BY <1>2 DEF Group!MayCall
  <2> QED BY <1>2, <2>1 DEF Group!MayCall
<1>3. ASSUME NEW t \in Group!Threads, pc[t] # "idle"
      PROVE  /\ t \in Group!Loops => thread[t] = "looping"
             /\ ending = "closing" => t = Owner \/ t \in Group!Loops
             /\ ending \in {"waiting", "gone"} => pc[t] = "destroy"
  <2>1. t \in Group!Loops => thread[t] = "looping" /\ ending \notin {"waiting", "gone"}
    BY <1>3 DEF PlaceInv
  <2> QED BY <1>3, <2>1, OwnerApart DEF PlaceInv
<1>4. ASSUME NEW t \in Group!Threads, Group!CallStep(t) PROVE PlaceInv'
  <2>1. CASE Group!AddTimer(t)
    BY <1>1, <1>3, <2>1, GoesOn DEF Group!AddTimer, Group!loopVars
  <2>2. CASE Group!ClearLooping(t)
    BY <1>1, <1>3, <2>2, GoesOn DEF Group!ClearLooping
  <2>3. CASE Group!ScheduleClose(t)
    <3>1. pc[t] = "schedule" /\ UNCHANGED <<thread, ending>> /\ Group!NextLoop(t)
      BY <2>3 DEF Group!ScheduleClose
    <3>2. CASE Group!Goto(t, "clear", place[t] + 1) \/ Group!Goto(t, "idle", 0)
      BY <1>1, <1>3, <3>1, <3>2, GoesOn
    <3>3. CASE t = Owner /\ ending = "closing" /\ Group!Goto(t, "join", 0)
      <4>1. /\ pc'[Owner] = "join" /\ place'[Owner] = 0
            /\ \A u \in Others : pc'[u] = pc[u]
        BY <1>1, <3>3, GotoFacts DEF Others
      <4>2. \A k \in Group!Loops : ~(k < 0) /\ pc'[k] = pc[k]
        BY <4>1, OwnerApart
      <4> QED BY <3>1, <3>3, <4>1, <4>2 DEF PlaceInv, Others
    <3> QED BY <3>1, <3>2, <3>3 DEF Group!NextLoop, Group!AfterClose
  <2> QED BY <1>4, <2>1, <2>2, <2>3 DEF Group!CallStep
<1>5. ASSUME NEW t \in Group!Threads, Group!Schedule(t) PROVE PlaceInv'
  BY <1>5, PlaceStays DEF Group!Schedule, Group!loopVars
<1>6. ASSUME NEW t \in Group!Threads, Group!Draw(t) \/ Group!Close(t) PROVE PlaceInv'
  <2>1. Group!MayCall(t) /\ UNCHANGED <<thread, ending>>
        /\ (Group!Goto(t, "add", next % N) \/ Group!Goto(t, "clear", 0))
    BY <1>6 DEF Group!Draw, Group!Close, Group!loopVars
  <2> QED BY <1>1, <1>2, <2>1, GoesOn
<1>7. ASSUME NEW t \in Group!Threads, NEW id, Group!ScheduleCancel(t, id) PROVE PlaceInv'
  BY <1>7, PlaceStays DEF Group!ScheduleCancel, Group!loopVars
<1>8. ASSUME NEW l \in Group!Loops, Group!TimerRuns(l) PROVE PlaceInv'
  BY <1>8, PlaceStays DEF Group!TimerRuns, Group!loopVars
<1>9. ASSUME NEW l \in Group!Loops, Group!LoopStep(l) PROVE PlaceInv'
  <2>1. CASE Group!EnterLoop(l)
    <3>1. pc[l] = "idle"
      BY <2>1 DEF Group!EnterLoop, PlaceInv
    <3> QED BY <1>1, <2>1, <3>1, ThreadGoesOn DEF Group!EnterLoop
  <2>2. CASE Group!RunClose(l)
    BY <2>2, PlaceStays DEF Group!RunClose
  <2>3. CASE Group!LeaveLoop(l)
    BY <1>1, <2>3, ThreadGoesOn DEF Group!LeaveLoop
  <2> QED BY <1>9, <2>1, <2>2, <2>3 DEF Group!LoopStep
<1>10. CASE Group!Join \/ Group!Destroy
  <2>1. /\ Group!MayCall(Owner) /\ UNCHANGED thread
        /\ \/ ending' = "joining" /\ Group!Goto(Owner, "join", 0)
           \/ /\ ending' = "closing" /\ Group!Goto(Owner, "clear", 0)
              /\ \A t \in Users : pc[t] = "idle"
    BY <1>10 DEF Group!Join, Group!Destroy, Group!loopVars
  <2>2. /\ pc'[Owner] \in {"join", "clear"} /\ place'[Owner] = 0
        /\ \A u \in Others : pc'[u] = pc[u]
    BY <1>1, <2>1, GotoFacts, OwnerApart DEF Others
  <2>4. ending' = "closing" => \A u \in Others \ Group!Loops : pc[u] = "idle"
    BY <2>1 DEF Others, Group!Threads
  <2>5. \A k \in Group!Loops : ~(k < 0) /\ pc'[k] = pc[k]
    <3>1. \A k \in Group!Loops : k \in Nat /\ k \in Others
      BY OwnerApart
    <3> QED BY <2>2, <3>1
  <2> QED BY <2>1, <2>2, <2>4, <2>5 DEF PlaceInv, Others
<1>11. CASE Group!HandleJoin
  BY <1>1, <1>11, JoinKeepsPlace
<1>12. CASE Group!DestroyLoop
  <2>1. /\ pc[Owner] = "destroy" /\ UNCHANGED thread
        /\ \/ Group!Goto(Owner, "destroy", place[Owner] + 1) /\ UNCHANGED ending
           \/ Group!Goto(Owner, "idle", 0) /\ ending' = "gone"
    BY <1>12 DEF Group!DestroyLoop, Group!loopVars
  <2>2. /\ \A u \in Others : pc'[u] = pc[u]
        /\ \/ pc'[Owner] = "destroy" /\ UNCHANGED ending
           \/ pc'[Owner] = "idle" /\ ending' = "gone"
    BY <1>1, <2>1, GotoFacts, OwnerApart DEF Others
  <2>3. \A k \in Group!Loops : pc'[k] = pc[k]
    BY <2>2, OwnerApart
  <2> QED BY <2>1, <2>2, <2>3 DEF PlaceInv, Others
<1>13. CASE UNCHANGED Group!vars
  BY <1>13, PlaceStays DEF Group!vars, Group!loopVars
<1> QED BY <1>4, <1>5, <1>6, <1>7, <1>8, <1>9, <1>10, <1>11, <1>12, <1>13 DEF Group!Next

LEMMA PlaceInvHolds ==
  ASSUME GroupConstants
  PROVE  Group!Spec => [](GroupInv /\ PlaceInv)
<1>1. Group!Init => PlaceInv
  BY OwnerApart DEF Group!Init, PlaceInv, Others
<1>2. GroupInv /\ PlaceInv /\ [Group!Next]_(Group!vars) => PlaceInv'
  BY PlaceStep
<1> QED BY <1>1, <1>2, GroupInvariant, PTL DEF Group!Spec

-----------------------------------------------------------------------------

\* The threads between the two statements of the Close of l.
InClose(l) == {t \in Group!Threads : pc[t] = "schedule" /\ place[t] = l}

PhaseOf(l) == IF Group!Destroyed(l) THEN "destroyed" ELSE thread[l]

\* A step in which the life of l does not go on.
LEMMA LifeUnseen ==
  ASSUME NEW l \in Group!Loops, InClose(l)' = InClose(l), PhaseOf(l)' = PhaseOf(l),
         l \in loopings' <=> l \in loopings, l \in queued' <=> l \in queued,
         l \in latches' <=> l \in latches
  PROVE  UNCHANGED Group!Life(l)!vars
  BY DEF Group!Life!vars, InClose, PhaseOf

LEMMA InCloseStays ==
  ASSUME FlagsInv, NEW l \in Group!Loops, NEW t \in Group!Threads, NEW p, NEW k,
         Group!Goto(t, p, k), pc[t] # "schedule" \/ place[t] # l, p # "schedule" \/ k # l
  PROVE  InClose(l)' = InClose(l)
<1>1. /\ pc'[t] = p /\ place'[t] = k
      /\ \A u \in Group!Threads : u # t => pc'[u] = pc[u] /\ place'[u] = place[u]
  BY GotoFacts
<1> QED BY <1>1 DEF InClose

\* Only DestroyLoop, and whoever is not the owner at it, leaves loops destroyed.
LEMMA DestroyedStays ==
  ASSUME PlaceInv, NEW l \in Group!Loops, UNCHANGED ending,
         place'[Owner] = place[Owner] \/ pc[Owner] # "destroy"
  PROVE  Group!Destroyed(l)' <=> Group!Destroyed(l)
  BY DEF PlaceInv, Group!Destroyed

LEMMA NotYetDestroyed ==
  ASSUME PlaceInv, NEW l \in Group!Loops, thread[l] # "joined"
  PROVE  ~Group!Destroyed(l) /\ ending \notin {"waiting", "gone"}
  BY DEF PlaceInv, Group!Destroyed

\* A step of a call by a thread that is not at DestroyLoop.
LEMMA CallPhase ==
  ASSUME GroupConstants, FlagsInv, PlaceInv, NEW l \in Group!Loops, NEW t \in Group!Threads, NEW p,
         NEW k, Group!Goto(t, p, k), pc[t] # "destroy", UNCHANGED <<thread, ending>>
  PROVE  PhaseOf(l)' = PhaseOf(l)
<1>1. place'[Owner] = place[Owner] \/ pc[Owner] # "destroy"
  BY GotoFacts, OwnerApart
<1>2. Group!Destroyed(l)' <=> Group!Destroyed(l)
  BY <1>1, DestroyedStays
<1> QED BY <1>2 DEF PhaseOf

LEMMA CallsOfGroup ==
  ASSUME GroupConstants, FlagsInv, PlaceInv, NEW l \in Group!Loops, NEW t \in Group!Threads,
         Group!ClearLooping(t) \/ Group!ScheduleClose(t)
  PROVE  Group!Life(l)!Next \/ UNCHANGED Group!Life(l)!vars
<1>1. pc[t] \in {"clear", "schedule"} /\ UNCHANGED <<thread, ending, latches>>
  BY DEF Group!ClearLooping, Group!ScheduleClose
<1>2. /\ ending \notin {"waiting", "gone"}
      /\ t \in Group!Loops => thread[t] = "looping"
  BY <1>1, OwnerApart DEF PlaceInv
<1>3. ~Group!Destroyed(l) /\ PhaseOf(l) = thread[l]
  BY <1>2 DEF Group!Destroyed, PhaseOf
<1>4. CASE Group!ClearLooping(t)
  <2>1. /\ pc[t] = "clear" /\ loopings' = loopings \ {place[t]} /\ UNCHANGED queued
        /\ Group!Goto(t, "schedule", place[t])
    BY <1>4 DEF Group!ClearLooping
  <2>2. PhaseOf(l)' = PhaseOf(l)
    BY <1>1, <2>1, CallPhase
  <2>3. CASE place[t] # l
    <3>1. InClose(l)' = InClose(l)
      BY <2>1, <2>3, InCloseStays
    <3> QED BY <1>1, <2>1, <2>2, <2>3, <3>1, LifeUnseen
  <2>4. CASE place[t] = l
    <3>1. InClose(l)' = InClose(l) \cup {t} /\ t \notin InClose(l)
      BY <2>1, <2>4, GotoFacts DEF InClose
    <3>2. PhaseOf(l) # "destroyed" /\ (t = l => PhaseOf(l) = "looping")
      BY <1>2, <1>3 DEF FlagsInv
    <3>3. l \notin loopings' /\ (l \in queued' <=> l \in queued) /\ (l \in latches' <=> l \in latches)
      BY <1>1, <2>1, <2>4
    <3>4. Group!Life(l)!Clear(t)
      BY <2>2, <3>1, <3>2, <3>3 DEF Group!Life!Clear, InClose, PhaseOf
    <3> QED BY <3>4 DEF Group!Life!Next
  <2> QED BY <2>3, <2>4
<1>5. CASE Group!ScheduleClose(t)
  <2>1. /\ pc[t] = "schedule" /\ queued' = queued \cup {place[t]} /\ UNCHANGED loopings
        /\ \E p \in {"clear", "join", "idle"} : \E k : Group!Goto(t, p, k)
    BY <1>5 DEF Group!ScheduleClose, Group!NextLoop, Group!AfterClose
  <2>2. PICK p \in {"clear", "join", "idle"} : \E k : Group!Goto(t, p, k)
    BY <2>1
  <2>3. PICK k : Group!Goto(t, p, k)
    BY <2>2
  <2>4. PhaseOf(l)' = PhaseOf(l)
    BY <1>1, <2>1, <2>3, CallPhase
  <2>5. CASE place[t] # l
    <3>1. InClose(l)' = InClose(l)
      BY <2>3, <2>5, InCloseStays
    <3> QED BY <1>1, <2>1, <2>4, <2>5, <3>1, LifeUnseen
  <2>6. CASE place[t] = l
    <3>1. InClose(l)' = InClose(l) \ {t} /\ t \in InClose(l)
      BY <2>1, <2>3, <2>6, GotoFacts DEF InClose
    <3>2. l \in queued' /\ (l \in loopings' <=> l \in loopings) /\ (l \in latches' <=> l \in latches)
      BY <1>1, <2>1, <2>6
    <3>3. PhaseOf(l) # "destroyed"
      BY <1>3 DEF FlagsInv
    <3>4. Group!Life(l)!Queue(t)
      BY <2>4, <3>1, <3>2, <3>3 DEF Group!Life!Queue, InClose, PhaseOf
    <3> QED BY <3>4 DEF Group!Life!Next
  <2> QED BY <2>5, <2>6
<1> QED BY <1>4, <1>5

LEMMA ThreadsOfGroup ==
  ASSUME GroupConstants, FlagsInv, PlaceInv, NEW l \in Group!Loops, NEW k \in Group!Loops,
         Group!LoopStep(k)
  PROVE  Group!Life(l)!Next \/ UNCHANGED Group!Life(l)!vars
<1>1. /\ UNCHANGED <<pc, place, ending>> /\ thread[k] # "joined"
      /\ k # l => thread'[l] = thread[l]
  BY DEF Group!LoopStep, Group!EnterLoop, Group!RunClose, Group!LeaveLoop, FlagsInv
<1>2. InClose(l)' = InClose(l) /\ (Group!Destroyed(l)' <=> Group!Destroyed(l))
  BY <1>1 DEF InClose, Group!Destroyed
<1>3. CASE k # l
  <2>1. /\ l \in loopings' <=> l \in loopings
        /\ l \in queued' <=> l \in queued
        /\ l \in latches' <=> l \in latches
    BY <1>3 DEF Group!LoopStep, Group!EnterLoop, Group!RunClose, Group!LeaveLoop
  <2> QED BY <1>1, <1>2, <1>3, <2>1, LifeUnseen DEF PhaseOf
<1>4. CASE k = l
  <2>1. PhaseOf(l) = thread[l] /\ PhaseOf(l)' = thread'[l]
    BY <1>1, <1>2, <1>4, NotYetDestroyed DEF PhaseOf
  <2>2. CASE Group!EnterLoop(l)
    <3>1. thread[l] = "created" /\ thread'[l] = "looping" /\ l \in loopings'
          /\ UNCHANGED <<queued, latches>>
      BY <2>2 DEF Group!EnterLoop, FlagsInv
    <3>2. Group!Life(l)!Enter
      BY <1>2, <2>1, <3>1 DEF Group!Life!Enter, InClose, PhaseOf
    <3> QED BY <3>2 DEF Group!Life!Next
  <2>3. CASE Group!RunClose(l)
    <3>1. /\ thread[l] = "looping" /\ l \notin InClose(l) /\ l \in queued /\ l \notin queued'
          /\ l \in latches' /\ UNCHANGED <<thread, loopings>>
      BY <2>3 DEF Group!RunClose, InClose
    <3>2. Group!Life(l)!RunClose
      BY <1>2, <2>1, <3>1 DEF Group!Life!RunClose, InClose, PhaseOf
    <3> QED BY <3>2 DEF Group!Life!Next
  <2>4. CASE Group!LeaveLoop(l)
    <3>1. /\ thread[l] = "looping" /\ thread'[l] = "ended" /\ l \notin InClose(l)
          /\ l \notin loopings /\ UNCHANGED <<loopings, queued, latches>>
      BY <2>4 DEF Group!LeaveLoop, InClose, FlagsInv
    <3>2. Group!Life(l)!Leave
      BY <1>2, <2>1, <3>1 DEF Group!Life!Leave, InClose, PhaseOf
    <3> QED BY <3>2 DEF Group!Life!Next
  <2> QED BY <1>4, <2>2, <2>3, <2>4 DEF Group!LoopStep
<1> QED BY <1>3, <1>4

LEMMA JoinsOfGroup ==
  ASSUME GroupConstants, FlagsInv, PlaceInv, NEW l \in Group!Loops, Group!HandleJoin
  PROVE  Group!Life(l)!Next \/ UNCHANGED Group!Life(l)!vars
<1>1. /\ pc[Owner] = "join" /\ thread[place[Owner]] \in {"ended", "joined"}
      /\ thread' = [thread EXCEPT ![place[Owner]] = "joined"]
      /\ UNCHANGED <<loopings, queued, latches>>
  BY DEF Group!HandleJoin
<1>2. ending \in {"joining", "closing"} /\ ~Group!Destroyed(l)
  BY <1>1 DEF PlaceInv, Group!Destroyed
<1>3. /\ \E p \in {"join", "idle", "destroy"} : \E k : Group!Goto(Owner, p, k)
      /\ \/ ending' \in {ending, "no"}
         \/ ending' = "waiting" /\ Group!Goto(Owner, "destroy", 0)
  <2>1. \/ Group!Goto(Owner, "join", place[Owner] + 1) /\ UNCHANGED ending
        \/ Group!Goto(Owner, "idle", 0) /\ ending' = "no"
        \/ Group!Goto(Owner, "destroy", 0) /\ ending' = "waiting"
    BY DEF Group!HandleJoin
  <2> QED BY <2>1
<1>4. InClose(l)' = InClose(l)
  <2>1. PICK p \in {"join", "idle", "destroy"} : \E k : Group!Goto(Owner, p, k)
    BY <1>3
  <2>2. PICK k : Group!Goto(Owner, p, k)
    BY <2>1
  <2> QED BY <1>1, <2>2, InCloseStays, OwnerApart
<1>5. ~Group!Destroyed(l)'
  <2>1. CASE ending' \in {ending, "no"}
    BY <1>2, <2>1 DEF Group!Destroyed
  <2>2. CASE ending' = "waiting" /\ Group!Goto(Owner, "destroy", 0)
    <3>1. place'[Owner] = 0 /\ ~(l < 0)
      <4>1. l \in Nat
        BY OwnerApart
      <4>2. place'[Owner] = 0
        BY <2>2, GotoFacts, OwnerApart
      <4> QED BY <4>1, <4>2
    <3> QED BY <2>2, <3>1 DEF Group!Destroyed
  <2> QED BY <1>3, <2>1, <2>2
<1>6. PhaseOf(l) = thread[l] /\ PhaseOf(l)' = thread'[l]
  BY <1>2, <1>5 DEF PhaseOf
<1>7. thread'[l] = IF l = place[Owner] THEN "joined" ELSE thread[l]
  BY <1>1 DEF FlagsInv
<1>8. CASE thread'[l] = thread[l]
  BY <1>1, <1>4, <1>6, <1>8, LifeUnseen
<1>9. CASE thread'[l] # thread[l]
  <2>1. thread[l] = "ended" /\ thread'[l] = "joined"
    BY <1>1, <1>7, <1>9
  <2>2. Group!Life(l)!Join
    BY <1>1, <1>4, <1>6, <2>1 DEF Group!Life!Join, InClose, PhaseOf
  <2> QED BY <2>2 DEF Group!Life!Next
<1> QED BY <1>8, <1>9

\* Once the owner has joined them all, nobody else is inside a call.
LEMMA AllIdle ==
  ASSUME GroupConstants, PlaceInv, ending \in {"waiting", "gone"}, NEW t \in Group!Threads
  PROVE  pc[t] \in {"idle", "destroy"}
<1>1. CASE t = Owner
  BY <1>1 DEF PlaceInv
<1>2. CASE t \in Group!Loops
  BY <1>2 DEF PlaceInv
<1>3. CASE t \in Others \ Group!Loops
  BY <1>3 DEF PlaceInv
<1> QED BY <1>1, <1>2, <1>3, OwnerApart

LEMMA DestroysOfGroup ==
  ASSUME GroupConstants, FlagsInv, PlaceInv, NEW l \in Group!Loops, Group!DestroyLoop
  PROVE  Group!Life(l)!Next \/ UNCHANGED Group!Life(l)!vars
<1> DEFINE k == place[Owner]
<1>1. /\ pc[Owner] = "destroy" /\ k \in latches /\ ending = "waiting"
      /\ UNCHANGED <<thread, loopings, queued, latches>>
      /\ IF k + 1 < N
         THEN Group!Goto(Owner, "destroy", k + 1) /\ UNCHANGED ending
         ELSE Group!Goto(Owner, "idle", 0) /\ ending' = "gone"
  BY DEF Group!DestroyLoop, Group!loopVars, PlaceInv
<1>2. thread[l] = "joined" /\ InClose(l) = {}
  <2>1. \A t \in Group!Threads : pc[t] \in {"idle", "destroy"}
    BY <1>1, AllIdle
  <2> QED BY <1>1, <2>1 DEF PlaceInv, InClose
<1>3. InClose(l)' = InClose(l)
  <2>1. PICK p \in {"destroy", "idle"} : \E i : Group!Goto(Owner, p, i)
    BY <1>1
  <2>2. PICK i : Group!Goto(Owner, p, i)
    BY <2>1
  <2> QED BY <1>1, <2>2, InCloseStays, OwnerApart
<1>4. Group!Destroyed(l) <=> l < k
  BY <1>1 DEF Group!Destroyed
<1>5. l \in Nat /\ k \in Nat /\ l < N /\ k < N /\ N \in Nat
  BY OwnerApart DEF FlagsInv, GroupConstants
<1>6. Group!Destroyed(l)' <=> l < k + 1
  <2>1. CASE k + 1 < N
    <3>1. place'[Owner] = k + 1 /\ ending' = "waiting"
      BY <1>1, <2>1, GotoFacts, OwnerApart
    <3> QED BY <3>1 DEF Group!Destroyed
  <2>2. CASE ~(k + 1 < N)
    <3>1. ending' = "gone" /\ l < k + 1
      BY <1>1, <1>5, <2>2
    <3> QED BY <3>1 DEF Group!Destroyed
  <2> QED BY <2>1, <2>2
<1>7. CASE l = k
  <2>1. PhaseOf(l) = "joined" /\ PhaseOf(l)' = "destroyed"
    BY <1>1, <1>2, <1>4, <1>5, <1>6, <1>7 DEF PhaseOf
  <2>2. Group!Life(l)!Destroy
    BY <1>1, <1>2, <1>3, <1>7, <2>1 DEF Group!Life!Destroy, InClose, PhaseOf
  <2> QED BY <2>2 DEF Group!Life!Next
<1>8. CASE l # k
  <2>1. Group!Destroyed(l)' <=> Group!Destroyed(l)
    BY <1>4, <1>5, <1>6, <1>8
  <2>2. PhaseOf(l)' = PhaseOf(l)
    BY <1>1, <2>1 DEF PhaseOf
  <2> QED BY <1>1, <1>3, <2>2, LifeUnseen
<1> QED BY <1>7, <1>8

LEMMA PromiseStep ==
  ASSUME GroupConstants, GroupInv, PlaceInv, [Group!Next]_(Group!vars), NEW l \in Group!Loops
  PROVE  Group!Life(l)!Next \/ UNCHANGED Group!Life(l)!vars
<1>1. FlagsInv
  BY DEF GroupInv
<1>2. ASSUME UNCHANGED <<Group!loopVars, pc, place, ending>> PROVE UNCHANGED Group!Life(l)!vars
  BY <1>2, LifeUnseen DEF Group!loopVars, InClose, PhaseOf, Group!Destroyed
<1>3. ASSUME NEW t \in Group!Threads, NEW p \in {"idle", "add", "clear", "join"}, NEW k,
             Group!Goto(t, p, k), pc[t] \in {"idle", "add"}, UNCHANGED Group!loopVars,
             UNCHANGED ending \/ {ending, ending'} \subseteq {"no", "joining", "closing"}
      PROVE  UNCHANGED Group!Life(l)!vars
  <2>1. InClose(l)' = InClose(l)
    BY <1>1, <1>3, InCloseStays
  <2>2. UNCHANGED <<thread, loopings, queued, latches>>
    BY <1>3 DEF Group!loopVars
  <2>3. PhaseOf(l)' = PhaseOf(l)
    <3>1. CASE UNCHANGED ending
      BY <1>1, <1>3, <2>2, <3>1, CallPhase
    <3>2. CASE {ending, ending'} \subseteq {"no", "joining", "closing"}
      BY <2>2, <3>2 DEF PhaseOf, Group!Destroyed
    <3> QED BY <1>3, <3>1, <3>2
  <2> QED BY <2>1, <2>2, <2>3, LifeUnseen
<1>4. ASSUME NEW t \in Group!Threads, Group!CallStep(t)
      PROVE  Group!Life(l)!Next \/ UNCHANGED Group!Life(l)!vars
  <2>1. CASE Group!AddTimer(t)
    BY <1>3, <2>1 DEF Group!AddTimer
  <2> QED BY <1>1, <1>4, <2>1, CallsOfGroup DEF Group!CallStep
<1>5. ASSUME NEW t \in Group!Threads, Group!Schedule(t) PROVE UNCHANGED Group!Life(l)!vars
  BY <1>2, <1>5 DEF Group!Schedule
<1>6. ASSUME NEW t \in Group!Threads, Group!Draw(t) \/ Group!Close(t)
      PROVE  UNCHANGED Group!Life(l)!vars
  BY <1>3, <1>6 DEF Group!Draw, Group!Close, Group!MayCall
<1>7. ASSUME NEW t \in Group!Threads, NEW id, Group!ScheduleCancel(t, id)
      PROVE  UNCHANGED Group!Life(l)!vars
  BY <1>2, <1>7 DEF Group!ScheduleCancel
<1>8. ASSUME NEW k \in Group!Loops, Group!TimerRuns(k) PROVE UNCHANGED Group!Life(l)!vars
  BY <1>2, <1>8 DEF Group!TimerRuns
<1>9. CASE Group!Join \/ Group!Destroy
  BY <1>3, <1>9, OwnerApart DEF Group!Join, Group!Destroy, Group!MayCall
<1>10. CASE UNCHANGED Group!vars
  BY <1>2, <1>10 DEF Group!vars
<1> QED BY <1>1, <1>4, <1>5, <1>6, <1>7, <1>8, <1>9, <1>10, ThreadsOfGroup, JoinsOfGroup,
           DestroysOfGroup DEF Group!Next

\* However calls of Close, Join and the destructor of a group interleave with its
\* threads and with the calls of callbacks, each loop is closed only while it
\* exists, joined once its thread has ended, and destroyed after its latch, with
\* nobody inside its Close: EventLoop asks no more of those who use it, and
\* LoopKeepsPromise says that it gives what EventLoopGroup takes for granted.
THEOREM GroupKeepsPromise ==
  ASSUME GroupConstants
  PROVE  Group!Spec => Group!LoopsKeepPromise
<1>1. Group!Init => \A l \in Group!Loops : Group!Life(l)!Init
  <2> SUFFICES ASSUME Group!Init, NEW l \in Group!Loops PROVE Group!Life(l)!Init
    OBVIOUS
  <2>1. /\ InClose(l) = {} /\ thread[l] = "created" /\ ending = "no"
        /\ l \notin loopings /\ l \notin queued /\ l \notin latches
    BY DEF Group!Init, InClose
  <2> QED BY <2>1 DEF Group!Life!Init, InClose, Group!Destroyed
<1>2. GroupInv /\ PlaceInv /\ [Group!Next]_(Group!vars)
      => [\A l \in Group!Loops : [Group!Life(l)!Next]_(Group!Life(l)!vars)]_(Group!vars)
  BY PromiseStep
<1>3. PlaceInv => \A l \in Group!Loops : Group!Destroyed(l) =>
                    \A t \in Group!Threads : ~(pc[t] = "schedule" /\ place[t] = l)
  BY AllIdle DEF Group!Destroyed
<1> QED BY <1>1, <1>2, <1>3, PlaceInvHolds, PTL DEF Group!Spec, Group!LoopsKeepPromise

-----------------------------------------------------------------------------
(* What JoinAfterClose rests on.                                            *)

\* A Close that has returned, having found every Loop begun, leaves no loop that
\* runs on, and the closure that ~EventLoop waits for in every queue, unless it
\* has run: whichever threads closed the group, and however they overtook each
\* other between the loops.
CloseIsForAll ==
  Group!Closed /\ ~early => loopings = {} /\ Group!Loops \subseteq queued \cup latches

Closers == {t \in Group!Threads : pc[t] \in {"clear", "schedule"}}

\* Who is inside Close has closed the loops before the one it is at; when nobody
\* is, all are closed, or none.  A closed loop that had begun does not run on,
\* and its closure is queued, or run, or about to be queued.
CloseInv ==
  /\ \A t \in Closers : \A k \in Group!Loops :
       k < place[t] \/ (k = place[t] /\ pc[t] = "schedule") => k \in closed
  /\ closed = Group!Loops \/ closed = {} \/ Closers # {}
  /\ ~early => \A l \in closed : l \notin loopings /\ thread[l] # "created"
  /\ \A l \in closed : l \in queued \cup latches \/ InClose(l) # {}

\* A step outside of Close, or one that begins it.
LEMMA CloseStays ==
  ASSUME CloseInv, UNCHANGED <<closed, early>>,
         \A u \in Closers : pc'[u] = pc[u] /\ place'[u] = place[u],
         \A u \in Closers' : u \in Closers \/ (pc'[u] = "clear" /\ place'[u] = 0),
         closed \subseteq Group!Loops, Group!Loops \subseteq Nat,
         \A l \in closed : l \in loopings' => l \in loopings,
         \A l \in closed : thread'[l] = "created" => thread[l] = "created",
         queued \cup latches \subseteq queued' \cup latches'
  PROVE  CloseInv'
<1>1. ASSUME NEW t \in Closers', NEW k \in Group!Loops,
             k < place'[t] \/ (k = place'[t] /\ pc'[t] = "schedule")
      PROVE  k \in closed'
  <2>1. CASE t \in Closers
    BY <1>1, <2>1 DEF CloseInv
  <2>2. CASE pc'[t] = "clear" /\ place'[t] = 0
    BY <1>1, <2>2
  <2> QED BY <2>1, <2>2
<1>2. Closers # {} => Closers' # {}
  BY DEF Closers
<1>3. \A l \in closed : InClose(l) # {} => InClose(l)' # {}
  BY DEF InClose, Closers
<1>4. ~early => \A l \in closed' : l \notin loopings' /\ thread'[l] # "created"
  BY DEF CloseInv
<1>5. \A l \in closed' : l \in queued' \cup latches' \/ InClose(l)' # {}
  BY <1>3 DEF CloseInv
<1> QED BY <1>1, <1>2, <1>4, <1>5 DEF CloseInv

\* A thread that is not inside Close goes elsewhere, or into it.
LEMMA ElsewhereKeepsClose ==
  ASSUME FlagsInv, CloseInv, GroupConstants, NEW t \in Group!Threads, NEW p, NEW k,
         Group!Goto(t, p, k), t \notin Closers,
         p \notin {"clear", "schedule"} \/ (p = "clear" /\ k = 0),
         UNCHANGED <<closed, early, loopings, queued, latches>>,
         \A l \in closed : thread'[l] = "created" => thread[l] = "created"
  PROVE  CloseInv'
<1>1. /\ pc'[t] = p /\ place'[t] = k
      /\ \A u \in Group!Threads : u # t => pc'[u] = pc[u] /\ place'[u] = place[u]
  BY GotoFacts
<1>2. \A u \in Closers : pc'[u] = pc[u] /\ place'[u] = place[u]
  BY <1>1 DEF Closers
<1>3. \A u \in Closers' : u \in Closers \/ (pc'[u] = "clear" /\ place'[u] = 0)
  BY <1>1 DEF Closers
<1>4. closed \subseteq Group!Loops /\ Group!Loops \subseteq Nat
  BY OwnerApart DEF FlagsInv
<1> QED BY <1>2, <1>3, <1>4, CloseStays

LEMMA ClearKeepsClose ==
  ASSUME GroupConstants, FlagsInv, CloseInv, NEW t \in Group!Threads, Group!ClearLooping(t)
  PROVE  CloseInv'
<1> DEFINE l == place[t]
<1>1. /\ pc[t] = "clear" /\ loopings' = loopings \ {l} /\ closed' = closed \cup {l}
      /\ Group!Goto(t, "schedule", l) /\ UNCHANGED <<thread, queued, latches>>
  BY DEF Group!ClearLooping
<1>2. early' = (early \/ thread[l] = "created")
  BY DEF Group!ClearLooping
<1>3. /\ pc'[t] = "schedule" /\ place'[t] = l
      /\ \A u \in Group!Threads : u # t => pc'[u] = pc[u] /\ place'[u] = place[u]
  BY <1>1, GotoFacts
<1>4. t \in Closers /\ Closers' = Closers
  BY <1>1, <1>3 DEF Closers
<1>5. ASSUME NEW u \in Closers', NEW k \in Group!Loops,
             k < place'[u] \/ (k = place'[u] /\ pc'[u] = "schedule")
      PROVE  k \in closed'
  <2>1. u \in Closers /\ u \in Group!Threads
    BY <1>4, <1>5 DEF Closers
  <2>2. CASE u = t
    BY <1>1, <1>3, <1>5, <2>1, <2>2 DEF CloseInv
  <2>3. CASE u # t
    BY <1>1, <1>3, <1>5, <2>1, <2>3 DEF CloseInv
  <2> QED BY <2>2, <2>3
<1>6. ASSUME ~early', NEW k \in closed' PROVE k \notin loopings' /\ thread'[k] # "created"
  <2>1. ~early /\ thread[l] # "created"
    BY <1>2, <1>6
  <2> QED BY <1>1, <1>6, <2>1 DEF CloseInv
<1>7. ASSUME NEW k \in closed' PROVE k \in queued' \cup latches' \/ InClose(k)' # {}
  <2>1. CASE k = l
    BY <1>3, <2>1 DEF InClose
  <2>2. CASE k # l /\ k \in closed
    <3>1. InClose(k) \subseteq InClose(k)'
      BY <1>1, <1>3, <2>2 DEF InClose
    <3> QED BY <1>1, <2>2, <3>1 DEF CloseInv
  <2> QED BY <1>1, <1>7, <2>1, <2>2
<1>8. Closers' # {}
  BY <1>4
<1> QED BY <1>5, <1>6, <1>7, <1>8 DEF CloseInv

LEMMA QueueKeepsClose ==
  ASSUME GroupConstants, FlagsInv, CloseInv, NEW t \in Group!Threads, Group!ScheduleClose(t)
  PROVE  CloseInv'
<1> DEFINE l == place[t]
<1>1. /\ pc[t] = "schedule" /\ queued' = queued \cup {l}
      /\ UNCHANGED <<thread, loopings, latches, closed, early>>
      /\ IF l + 1 < N
         THEN Group!Goto(t, "clear", l + 1)
         ELSE \E p \in {"join", "idle"} : Group!Goto(t, p, 0)
  BY DEF Group!ScheduleClose, Group!NextLoop, Group!AfterClose
<1>2. /\ t \in Closers /\ l \in Group!Loops /\ l \in Nat
      /\ \A k \in Group!Loops : k \in Nat /\ k < N
  BY <1>1, OwnerApart DEF Closers, FlagsInv
<1>3. \A u \in Group!Threads : u # t => pc'[u] = pc[u] /\ place'[u] = place[u]
  <2>1. \E p, k : Group!Goto(t, p, k)
    BY <1>1
  <2> QED BY <2>1, GotoFacts
<1>4. \A k \in Group!Loops : k < l + 1 => k \in closed
  <2> SUFFICES ASSUME NEW k \in Group!Loops, k < l + 1 PROVE k \in closed
    OBVIOUS
  <2>1. k < l \/ k = l
    BY <1>2
  <2> QED BY <1>1, <1>2, <2>1 DEF CloseInv
<1>5. \A k \in closed : k \in queued' \cup latches' \/ InClose(k)' # {}
  <2> SUFFICES ASSUME NEW k \in closed PROVE k \in queued' \cup latches' \/ InClose(k)' # {}
    OBVIOUS
  <2>1. CASE k = l
    BY <1>1, <2>1
  <2>2. CASE k # l
    <3>1. InClose(k) \subseteq InClose(k)'
      BY <1>1, <1>3, <2>2 DEF InClose
    <3> QED BY <1>1, <3>1 DEF CloseInv
  <2> QED BY <2>1, <2>2
<1>6. ~early' => \A k \in closed' : k \notin loopings' /\ thread'[k] # "created"
  BY <1>1 DEF CloseInv
<1>7. ASSUME NEW u \in Closers', u # t, NEW k \in Group!Loops,
             k < place'[u] \/ (k = place'[u] /\ pc'[u] = "schedule")
      PROVE  k \in closed'
  <2>1. u \in Closers /\ pc'[u] = pc[u] /\ place'[u] = place[u]
    BY <1>3, <1>7 DEF Closers
  <2> QED BY <1>1, <1>7, <2>1 DEF CloseInv
<1> HIDE DEF l
<1>8. CASE l + 1 < N
  <2>1. pc'[t] = "clear" /\ place'[t] = l + 1 /\ t \in Closers'
    BY <1>1, <1>8, GotoFacts DEF Closers, l
  <2>2. ASSUME NEW u \in Closers', NEW k \in Group!Loops,
               k < place'[u] \/ (k = place'[u] /\ pc'[u] = "schedule")
        PROVE  k \in closed'
    BY <1>1, <1>4, <1>7, <2>1, <2>2
  <2>3. Closers' # {}
    BY <2>1
  <2> QED BY <1>1, <1>5, <1>6, <2>2, <2>3 DEF CloseInv
<1>9. CASE ~(l + 1 < N)
  <2>1. pc'[t] \in {"join", "idle"} /\ t \notin Closers'
    BY <1>1, <1>9, GotoFacts DEF Closers, l
  <2>2. \A k \in Group!Loops : k < l + 1
    BY <1>2, <1>9 DEF GroupConstants
  <2>3. closed' = Group!Loops
    BY <1>1, <1>4, <2>2 DEF FlagsInv
  <2> QED BY <1>1, <1>5, <1>6, <1>7, <2>1, <2>3 DEF CloseInv
<1> QED BY <1>8, <1>9

LEMMA CloseStep ==
  ASSUME GroupConstants, GroupInv, PlaceInv, CloseInv, [Group!Next]_(Group!vars)
  PROVE  CloseInv'
<1>1. FlagsInv /\ closed \subseteq Group!Loops /\ Group!Loops \subseteq Nat
  BY OwnerApart DEF GroupInv, FlagsInv
<1>2. ASSUME UNCHANGED <<Group!loopVars, pc, place, closed, early>> PROVE CloseInv'
  <2>1. Closers' = Closers /\ UNCHANGED <<thread, loopings, queued, latches>>
    BY <1>2 DEF Closers, Group!loopVars
  <2> QED BY <1>1, <1>2, <2>1, CloseStays
<1>3. ASSUME NEW t \in Group!Threads, NEW p, NEW k, Group!Goto(t, p, k),
             pc[t] \notin {"clear", "schedule"},
             p \notin {"clear", "schedule"} \/ (p = "clear" /\ k = 0),
             UNCHANGED <<Group!loopVars, closed, early>>
      PROVE  CloseInv'
  <2>1. t \notin Closers /\ UNCHANGED <<thread, loopings, queued, latches>>
    BY <1>3 DEF Closers, Group!loopVars
  <2> QED BY <1>1, <1>3, <2>1, ElsewhereKeepsClose
<1>4. ASSUME NEW t \in Group!Threads, Group!CallStep(t) PROVE CloseInv'
  <2>1. CASE Group!AddTimer(t)
    BY <1>3, <2>1 DEF Group!AddTimer
  <2> QED BY <1>1, <1>4, <2>1, ClearKeepsClose, QueueKeepsClose DEF Group!CallStep
<1>5. ASSUME NEW t \in Group!Threads, Group!Schedule(t) PROVE CloseInv'
  BY <1>2, <1>5 DEF Group!Schedule
<1>6. ASSUME NEW t \in Group!Threads, Group!Draw(t) \/ Group!Close(t) PROVE CloseInv'
  BY <1>3, <1>6 DEF Group!Draw, Group!Close, Group!MayCall, Group!timerVars
<1>7. ASSUME NEW t \in Group!Threads, NEW id, Group!ScheduleCancel(t, id) PROVE CloseInv'
  BY <1>2, <1>7 DEF Group!ScheduleCancel
<1>8. ASSUME NEW l \in Group!Loops, Group!TimerRuns(l) PROVE CloseInv'
  BY <1>2, <1>8 DEF Group!TimerRuns
<1>9. ASSUME NEW l \in Group!Loops, Group!LoopStep(l) PROVE CloseInv'
  <2>1. UNCHANGED <<pc, place, closed, early>> /\ Closers' = Closers
    BY <1>9 DEF Group!LoopStep, Group!EnterLoop, Group!RunClose, Group!LeaveLoop, Closers
  <2>2. queued \cup latches \subseteq queued' \cup latches'
    BY <1>9 DEF Group!LoopStep, Group!EnterLoop, Group!RunClose, Group!LeaveLoop
  <2>3. \A k \in closed : thread'[k] = "created" => thread[k] = "created"
    BY <1>1, <1>9 DEF Group!LoopStep, Group!EnterLoop, Group!RunClose, Group!LeaveLoop, FlagsInv
  <2>4. CASE ~Group!EnterLoop(l)
    <3>1. UNCHANGED loopings
      BY <1>9, <2>4 DEF Group!LoopStep, Group!RunClose, Group!LeaveLoop
    <3> QED BY <1>1, <2>1, <2>2, <2>3, <3>1, CloseStays
  <2>5. CASE Group!EnterLoop(l)
    <3>1. thread[l] = "created" /\ loopings' = loopings \cup {l}
      BY <2>5 DEF Group!EnterLoop
    <3>2. CASE l \notin closed
      BY <1>1, <2>1, <2>2, <2>3, <3>1, <3>2, CloseStays
    <3>3. CASE l \in closed
      <4>1. early /\ early'
        BY <2>1, <3>1, <3>3 DEF CloseInv
      <4>2. \A k \in closed : InClose(k)' = InClose(k)
        BY <2>1 DEF InClose
      <4>3. \A k \in closed' : k \in queued' \cup latches' \/ InClose(k)' # {}
        BY <2>1, <2>2, <4>2 DEF CloseInv
      <4> QED BY <2>1, <4>1, <4>3 DEF CloseInv
    <3> QED BY <3>2, <3>3
  <2> QED BY <2>4, <2>5
<1>10. CASE Group!Join \/ Group!Destroy
  BY <1>3, <1>10, OwnerApart DEF Group!Join, Group!Destroy, Group!MayCall
<1>11. CASE Group!HandleJoin
  <2>1. /\ pc[Owner] = "join" /\ UNCHANGED <<loopings, queued, latches, closed, early>>
        /\ thread' = [thread EXCEPT ![place[Owner]] = "joined"]
        /\ \E p \in {"join", "idle", "destroy"} : \E k : Group!Goto(Owner, p, k)
    BY <1>11 DEF Group!HandleJoin
  <2>2. \A l \in closed : thread'[l] = "created" => thread[l] = "created"
    BY <1>1, <2>1 DEF FlagsInv
  <2>3. Owner \in Group!Threads /\ Owner \notin Closers
    BY <2>1, OwnerApart DEF Closers
  <2>4. PICK p \in {"join", "idle", "destroy"} : \E k : Group!Goto(Owner, p, k)
    BY <2>1
  <2>5. PICK k : Group!Goto(Owner, p, k)
    BY <2>4
  <2> QED BY <1>1, <2>1, <2>2, <2>3, <2>5, ElsewhereKeepsClose
<1>12. CASE Group!DestroyLoop
  <2>1. /\ pc[Owner] = "destroy" /\ UNCHANGED <<Group!loopVars, closed, early>>
        /\ \E p \in {"idle", "destroy"} : \E k : Group!Goto(Owner, p, k)
    BY <1>12 DEF Group!DestroyLoop
  <2> QED BY <1>3, <2>1, OwnerApart
<1>13. CASE UNCHANGED Group!vars
  BY <1>2, <1>13 DEF Group!vars
<1> QED BY <1>4, <1>5, <1>6, <1>7, <1>8, <1>9, <1>10, <1>11, <1>12, <1>13 DEF Group!Next

\* Close reaches every loop of the group, also when several threads close it at
\* once, and what it has stopped stays stopped.
THEOREM CloseReachesEveryLoop ==
  ASSUME GroupConstants
  PROVE  Group!Spec => []CloseIsForAll
<1>1. Group!Init => CloseInv
  BY DEF Group!Init, CloseInv, Closers
<1>2. GroupInv /\ PlaceInv /\ CloseInv /\ [Group!Next]_(Group!vars) => CloseInv'
  BY CloseStep
<1>3. GroupInv /\ CloseInv => CloseIsForAll
  <2> SUFFICES ASSUME GroupInv, CloseInv, Group!Closed, ~early
               PROVE  loopings = {} /\ Group!Loops \subseteq queued \cup latches
    BY DEF CloseIsForAll
  <2>1. Closers = {} /\ closed # {}
    BY DEF Group!Closed, Closers
  <2>2. closed = Group!Loops /\ loopings \subseteq Group!Loops
    BY <2>1 DEF CloseInv, GroupInv, FlagsInv
  <2>3. \A l \in Group!Loops : InClose(l) = {}
    BY <2>1 DEF Closers, InClose
  <2> QED BY <2>2, <2>3 DEF CloseInv
<1> QED BY <1>1, <1>2, <1>3, PlaceInvHolds, PTL DEF Group!Spec
=============================================================================

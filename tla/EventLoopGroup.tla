--------------------------- MODULE EventLoopGroup ---------------------------
(***************************************************************************)
(* A group of event loops (include/pedronet/eventloopgroup.h,               *)
(* src/eventloopgroup.cc): the loop a task is given to, the numbers of       *)
(* timers, which hold the number of the loop, and the end of the group.      *)
(* A loop appears by what EventLoop does with Loop, Close and the closure    *)
(* that Close schedules; its timer queue by the timers that are alive.       *)
(***************************************************************************)
EXTENDS TimerNumbers, Naturals, FiniteSets

CONSTANTS
  Users,        \* user threads
  Owner,        \* the one of them that joins and destroys the group
  NextModulus   \* next_ is counted modulo this, 2^64 in the code

Threads == Users \cup Loops

ASSUME NextModulusAssumption == NextModulus \in Nat \ {0}
ASSUME UsersAssumption == Owner \in Users /\ Users \cap Nat = {}

VARIABLES
  next,      \* next_
  thread,    \* thread[l]: "created", "looping", "ended" or "joined"
  looping,   \* loops whose kLooping is set
  queued,    \* loops with a closure of Close in their queue
  latch,     \* loops whose close_latch_ has been counted down
  pc,        \* pc[t]: "idle", "add" a timer, "clear" kLooping, "schedule" the
             \* closure of Close, "join", "destroy"
  at,        \* at[t]: the loop which that concerns
  ending,    \* "no", "joining", "closing" or "waiting" in ~EventLoopGroup, "gone"
  closed,    \* history: loops whose kLooping some Close has cleared
  early      \* history: ... before their Loop had begun

loopVars == <<thread, looping, queued, latch>>
timerVars == <<next, counter, live, given, dropped>>
vars == <<loopVars, timerVars, pc, at, ending, closed, early>>

Goto(t, p, l) == pc' = [pc EXCEPT ![t] = p] /\ at' = [at EXCEPT ![t] = l]

Init ==
  /\ next = 0
  /\ thread = [l \in Loops |-> "created"]
  /\ looping = {} /\ queued = {} /\ latch = {}
  /\ NoTimers
  /\ pc = [t \in Threads |-> "idle"]
  /\ at = [t \in Threads |-> 0]
  /\ ending = "no"
  /\ closed = {} /\ early = FALSE

\* A loop thread calls from inside a callback, also while ~EventLoopGroup closes
\* the loops and waits for their threads.
MayCall(t) ==
  /\ pc[t] = "idle"
  /\ ending \in {"no", "joining"} \/ (ending = "closing" /\ t \in Loops)
  /\ t \in Loops => thread[t] = "looping"

-----------------------------------------------------------------------------
(* Timers.                                                                  *)

\* Schedule, and who asks for the Next loop of a connection: the rest of it is
\* the business of that loop.
Schedule(t) ==
  /\ MayCall(t)
  /\ next' = (next + 1) % NextModulus
  /\ UNCHANGED <<loopVars, counter, live, pc, at, ending, given, dropped, closed, early>>

\* ScheduleAfter and ScheduleEvery draw a loop ...
Draw(t) ==
  /\ MayCall(t)
  /\ Cardinality(given) + Cardinality({u \in Threads : pc[u] = "add"}) < MaxTimers
  /\ next' = (next + 1) % NextModulus
  /\ Goto(t, "add", next % N)
  /\ UNCHANGED <<loopVars, counter, live, ending, given, dropped, closed, early>>

\* ... have its queue number the timer, and return one number for both.
AddTimer(t) ==
  /\ pc[t] = "add"
  /\ NumberTimer(at[t])
  /\ Goto(t, "idle", 0)
  /\ UNCHANGED <<next, loopVars, ending, closed, early>>

\* ScheduleCancel takes the number apart.
ScheduleCancel(t, id) ==
  /\ MayCall(t)
  /\ DropTimer(id % N, id \div N, id)
  /\ UNCHANGED <<next, loopVars, pc, at, ending, closed, early>>

\* The loop runs a single timer and takes it out of its table.
TimerRuns(l) ==
  /\ thread[l] = "looping" /\ pc[l] = "idle"
  /\ \E g \in given :
       /\ g.loop = l /\ g.timer \in live[l]
       /\ DropTimer(l, g.timer, g.id)
  /\ UNCHANGED <<next, loopVars, pc, at, ending, closed, early>>

-----------------------------------------------------------------------------
(* The threads of the loops.                                                *)

\* The CAS of Loop sets kLooping, whatever Close has done before.
EnterLoop(l) ==
  /\ thread[l] = "created"
  /\ thread' = [thread EXCEPT ![l] = "looping"]
  /\ looping' = looping \cup {l}
  /\ UNCHANGED <<queued, latch, timerVars, pc, at, ending, closed, early>>

\* The closure of EventLoop::Close.
RunClose(l) ==
  /\ thread[l] = "looping" /\ pc[l] = "idle"
  /\ l \in queued
  /\ queued' = queued \ {l}
  /\ latch' = latch \cup {l}
  /\ UNCHANGED <<thread, looping, timerVars, pc, at, ending, closed, early>>

LeaveLoop(l) ==
  /\ thread[l] = "looping" /\ pc[l] = "idle"
  /\ l \notin looping
  /\ thread' = [thread EXCEPT ![l] = "ended"]
  /\ UNCHANGED <<looping, queued, latch, timerVars, pc, at, ending, closed, early>>

-----------------------------------------------------------------------------
(* The end of the group.                                                    *)

Close(t) ==
  /\ MayCall(t)
  /\ closed = {}
  /\ Goto(t, "clear", 0)
  /\ UNCHANGED <<loopVars, timerVars, ending, closed, early>>

\* EventLoop::Close of the next loop: kLooping first, then the closure.
ClearLooping(t) ==
  LET l == at[t]
  IN  /\ pc[t] = "clear"
      /\ looping' = looping \ {l}
      /\ closed' = closed \cup {l}
      /\ early' = (early \/ thread[l] = "created")
      /\ Goto(t, "schedule", l)
      /\ UNCHANGED <<thread, queued, latch, timerVars, ending>>

\* What follows when every loop is closed.
AfterClose(t) ==
  IF t = Owner /\ ending = "closing"
  THEN Goto(t, "join", 0)
  ELSE Goto(t, "idle", 0)

\* Mutant of NextLoop: the last loop is left out.
NextLoopStopsShort(t) == IF at[t] + 2 < N THEN Goto(t, "clear", at[t] + 1) ELSE AfterClose(t)

NextLoop(t) == IF at[t] + 1 < N THEN Goto(t, "clear", at[t] + 1) ELSE AfterClose(t)

ScheduleClose(t) ==
  /\ pc[t] = "schedule"
  /\ queued' = queued \cup {at[t]}
  /\ NextLoop(t)
  /\ UNCHANGED <<thread, looping, latch, timerVars, ending, closed, early>>

\* Join, for the threads that have not been joined.
Join ==
  /\ MayCall(Owner)
  /\ ending' = "joining"
  /\ Goto(Owner, "join", 0)
  /\ UNCHANGED <<loopVars, timerVars, closed, early>>

\* HandleJoin waits for one thread after the other.
HandleJoin ==
  LET l == at[Owner]
  IN  /\ pc[Owner] = "join"
      /\ thread[l] \in {"ended", "joined"}
      /\ thread' = [thread EXCEPT ![l] = "joined"]
      /\ IF l + 1 < N
         THEN Goto(Owner, "join", l + 1) /\ UNCHANGED ending
         ELSE IF ending = "joining"
              THEN Goto(Owner, "idle", 0) /\ ending' = "no"
              ELSE Goto(Owner, "destroy", 0) /\ ending' = "waiting"
      /\ UNCHANGED <<looping, queued, latch, timerVars, closed, early>>

\* ~EventLoopGroup, when no other user uses the group: Close, HandleJoin, and
\* the loops.
Destroy ==
  /\ MayCall(Owner) /\ ending = "no"
  /\ \A t \in Users : pc[t] = "idle"
  /\ ending' = "closing"
  /\ Goto(Owner, "clear", 0)
  /\ UNCHANGED <<loopVars, timerVars, closed, early>>

\* ~EventLoop waits for close_latch_.
DestroyLoop ==
  /\ pc[Owner] = "destroy"
  /\ at[Owner] \in latch
  /\ IF at[Owner] + 1 < N
     THEN Goto(Owner, "destroy", at[Owner] + 1) /\ UNCHANGED ending
     ELSE Goto(Owner, "idle", 0) /\ ending' = "gone"
  /\ UNCHANGED <<loopVars, timerVars, closed, early>>

-----------------------------------------------------------------------------

CallStep(t) == AddTimer(t) \/ ClearLooping(t) \/ ScheduleClose(t)
LoopStep(l) == EnterLoop(l) \/ RunClose(l) \/ LeaveLoop(l)

Next ==
  \/ \E t \in Threads : CallStep(t) \/ Schedule(t) \/ Draw(t) \/ Close(t)
  \/ \E t \in Threads : \E g \in given : ScheduleCancel(t, g.id)
  \/ \E l \in Loops : LoopStep(l) \/ TimerRuns(l)
  \/ Join \/ HandleJoin \/ Destroy \/ DestroyLoop

\* A thread inside a call goes on, a loop thread runs and comes back to its
\* queue and to the test of its while, and a wait ends when it can.
Fairness ==
  /\ \A t \in Threads : WF_vars(CallStep(t))
  /\ \A l \in Loops : WF_vars(EnterLoop(l)) /\ WF_vars(RunClose(l) \/ LeaveLoop(l))
  /\ WF_vars(HandleJoin) /\ WF_vars(DestroyLoop)

Spec == Init /\ [][Next]_vars /\ Fairness

-----------------------------------------------------------------------------

TypeOK ==
  /\ TimersTypeOK
  /\ next \in 0 .. NextModulus - 1
  /\ thread \in [Loops -> {"created", "looping", "ended", "joined"}]
  /\ UNION {looping, queued, latch, closed} \subseteq Loops
  /\ pc \in [Threads -> {"idle", "add", "clear", "schedule", "join", "destroy"}]
  /\ at \in [Threads -> Loops]
  /\ ending \in {"no", "joining", "closing", "waiting", "gone"}
  /\ early \in BOOLEAN

\* A loop is destroyed when DestroyLoop has gone past it.
Destroyed(l) == ending = "gone" \/ (ending = "waiting" /\ l < at[Owner])

Life(l) == INSTANCE LoopLife WITH
  Self <- l, phase <- IF Destroyed(l) THEN "destroyed" ELSE thread[l],
  looping <- l \in looping, queued <- l \in queued, latch <- l \in latch,
  closing <- {t \in Threads : pc[t] = "schedule" /\ at[t] = l}

\* Every loop of the group is used as LoopLife, the promise of EventLoop, lets
\* it be used, and none is destroyed while a thread is inside its Close, which
\* ~EventLoop does not see to.
LoopsKeepPromise ==
  /\ \A l \in Loops : Life(l)!Init
  /\ [][\A l \in Loops : [Life(l)!Next]_(Life(l)!vars)]_vars
  /\ [](\A l \in Loops : Destroyed(l) => \A t \in Threads : ~(pc[t] = "schedule" /\ at[t] = l))

\* A thread waits in HandleJoin.
Waits == pc[Owner] = "join"

\* A Close has returned.
Closed == closed # {} /\ \A t \in Threads : pc[t] \notin {"clear", "schedule"}

\* After a Close that found every Loop begun, the threads end and Join returns,
\* whoever called Close and from where.
JoinAfterClose == Closed /\ ~early /\ Waits ~> ~Waits
=============================================================================

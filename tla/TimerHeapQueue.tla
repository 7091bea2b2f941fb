---------------------------- MODULE TimerHeapQueue ----------------------------
(***************************************************************************)
(* TimerHeapQueue (src/queue/timer_heap_queue.cc) with the TimerChannel     *)
(* (src/channel/timer_channel.cc): the heap of weak timeouts, the table     *)
(* that owns the timers, and the timerfd that wakes the loop thread.        *)
(*                                                                         *)
(* Time is what remains until an expiry, in units of kMinWakeUpDuration, so *)
(* it is finite: Tick lets one unit pass everywhere.  last_wakeup_us_ does  *)
(* not count down, as in the code: it keeps the delay that was asked for.   *)
(***************************************************************************)
EXTENDS Integers, FiniteSets

CONSTANTS
  Users,      \* user threads
  Loop,       \* the loop thread, which adds and cancels from callbacks
  None,       \* no thread, no timer
  Delays,     \* delays of Add
  Intervals,  \* intervals of Add; 0 is a timer that runs once
  MaxTimers   \* bound: timers ever added

ASSUME ThreadsAssumption == Loop \notin Users /\ None \notin Users \cup {Loop}
ASSUME TimeAssumption == Delays \subseteq Nat /\ Intervals \subseteq Nat
ASSUME MaxTimersAssumption == MaxTimers \in Nat /\ None \notin 1 .. MaxTimers

Threads == Users \cup {Loop}
Ids == 1 .. MaxTimers
Off == -1                 \* the timerfd is not armed, an expiry is not set
Min == 0                  \* last_wakeup_us_ = numeric_limits::min()
Infinite == 1000000       \* last_wakeup_us_ = numeric_limits::max()

ASSUME InfiniteAssumption ==
  \A d \in Delays \cup Intervals : d < Infinite

VARIABLES
  counter,    \* counter_: the last id given
  interval,   \* the interval of each timer
  expires,    \* time left until the timer expires
  heap,       \* timers with an entry in queue_
  table,      \* timers in table_
  mu,         \* the thread that holds mu_
  adding,     \* adding[t]: the timer that t is adding, or None
  usec,       \* usec[t]: what t will arm the timerfd with, or Off before the CAS
  lastWakeup, \* last_wakeup_us_
  fd,         \* time left until the timerfd expires
  readable,   \* the timerfd has expired and was not read
  at,         \* where the loop thread is
  due,        \* timers that had expired when Process read the time
  current,    \* the timer whose callback Process runs
  runs        \* history: runs[i] is the number of runs of a timer, up to 2

timerVars == <<counter, interval, heap, table>>
chanVars == <<lastWakeup, fd, readable>>
loopVars == <<at, due, current>>
vars == <<timerVars, expires, mu, adding, usec, chanVars, loopVars, runs>>

MaxOf(m, n) == IF m >= n THEN m ELSE n

TypeOK ==
  /\ counter \in 0 .. MaxTimers
  /\ interval \in [Ids -> Intervals \cup {0}]
  /\ expires \in [Ids -> Nat \cup {Off}]
  /\ heap \subseteq Ids /\ table \subseteq Ids
  /\ mu \in Threads \cup {None}
  /\ adding \in [Threads -> Ids \cup {None}]
  /\ usec \in [Threads -> Nat \cup {Off}]
  /\ lastWakeup \in 0 .. Infinite
  /\ fd \in Nat \cup {Off}
  /\ readable \in BOOLEAN
  /\ at \in {"wait", "read", "reset", "process", "pop", "call", "callback"}
  /\ due \subseteq Ids
  /\ current \in Ids \cup {None}
  /\ runs \in [Ids -> 0 .. 2]

Init ==
  /\ counter = 0
  /\ interval = [i \in Ids |-> 0]
  /\ expires = [i \in Ids |-> Off]
  /\ heap = {} /\ table = {}
  /\ mu = None
  /\ adding = [t \in Threads |-> None]
  /\ usec = [t \in Threads |-> Off]
  /\ lastWakeup = Infinite /\ fd = Off /\ readable = FALSE
  /\ at = "wait" /\ due = {} /\ current = None
  /\ runs = [i \in Ids |-> 0]

\* One unit of time passes.
Tick ==
  /\ expires' = [i \in Ids |-> IF expires[i] > 0 THEN expires[i] - 1 ELSE expires[i]]
  /\ fd' = IF fd > 1 THEN fd - 1 ELSE Off
  /\ readable' = (readable \/ fd \in {0, 1})
  /\ UNCHANGED <<timerVars, mu, adding, usec, lastWakeup, loopVars, runs>>

-----------------------------------------------------------------------------
(* Add and Cancel, on a user thread or inside a callback.                   *)

MayCall(t) ==
  /\ adding[t] = None
  /\ t = Loop => at = "callback"

\* The expiry is computed before mu_ is taken.
BeginAdd(t) ==
  /\ MayCall(t)
  /\ counter < MaxTimers
  /\ counter' = counter + 1
  /\ \E d \in Delays, v \in Intervals :
       /\ expires' = [expires EXCEPT ![counter'] = d]
       /\ interval' = [interval EXCEPT ![counter'] = v]
  /\ adding' = [adding EXCEPT ![t] = counter']
  /\ UNCHANGED <<heap, table, mu, usec, chanVars, loopVars, runs>>

\* Mutant of Earlier: the comparison the other way round.
Later(d) == MaxOf(d, 1) > lastWakeup

\* WakeUpAfter(d) changes last_wakeup_us_ only if it asks for less than that.
Earlier(d) == MaxOf(d, 1) < lastWakeup

\* Under mu_: the heap, the table, and the CAS of WakeUpAfter.
Insert(t) ==
  /\ adding[t] # None
  /\ mu = None
  /\ LET i == adding[t]
     IN  /\ heap' = heap \cup {i}
         /\ table' = table \cup {i}
         /\ IF Earlier(expires[i])
            THEN /\ lastWakeup' = MaxOf(expires[i], 1)
                 /\ usec' = [usec EXCEPT ![t] = MaxOf(expires[i], 1)]
                 /\ mu' = t
                 /\ UNCHANGED adding
            ELSE /\ adding' = [adding EXCEPT ![t] = None]
                 /\ UNCHANGED <<lastWakeup, usec, mu>>
  /\ UNCHANGED <<counter, interval, expires, fd, readable, loopVars, runs>>

\* Still under mu_: timerfd_settime, which also forgets an expiry not read.
SetTime(t) ==
  /\ mu = t
  /\ usec[t] # Off
  /\ fd' = usec[t]
  /\ readable' = FALSE
  /\ usec' = [usec EXCEPT ![t] = Off]
  /\ adding' = [adding EXCEPT ![t] = None]
  /\ mu' = None
  /\ UNCHANGED <<timerVars, expires, lastWakeup, loopVars, runs>>

\* Cancel of an id that Add has returned; of one not in table_ it does nothing.
Cancel(t, i) ==
  /\ MayCall(t)
  /\ mu = None
  /\ i \in table
  /\ \A s \in Threads : adding[s] # i
  /\ table' = table \ {i}
  /\ UNCHANGED <<counter, interval, heap, expires, mu, adding, usec, chanVars, loopVars, runs>>

-----------------------------------------------------------------------------
(* TimerChannel::HandleEvents, then Process, on the loop thread.            *)

HandleEvents ==
  /\ at = "wait"
  /\ readable
  /\ lastWakeup' = Min
  /\ at' = "read"
  /\ UNCHANGED <<timerVars, expires, mu, adding, usec, fd, readable, due, current, runs>>

Read ==
  /\ at = "read"
  /\ readable' = FALSE
  /\ at' = "reset"
  /\ UNCHANGED <<timerVars, expires, mu, adding, usec, lastWakeup, fd, due, current, runs>>

\* Mutant of ResetWakeup: last_wakeup_us_ keeps the value of HandleEvents.
ResetWakeupNot ==
  /\ at = "reset"
  /\ due' = {i \in Ids : expires[i] = 0}
  /\ at' = "process"
  /\ UNCHANGED <<timerVars, expires, mu, adding, usec, chanVars, current, runs>>

\* last_wakeup_us_ is reset, and Process reads the time before it takes mu_.
ResetWakeup ==
  /\ at = "reset"
  /\ lastWakeup' = Infinite
  /\ due' = {i \in Ids : expires[i] = 0}
  /\ at' = "process"
  /\ UNCHANGED <<timerVars, expires, mu, adding, usec, fd, readable, current, runs>>

EnterProcess ==
  /\ at = "process"
  /\ mu = None
  /\ mu' = Loop
  /\ at' = "pop"
  /\ UNCHANGED <<timerVars, expires, adding, usec, chanVars, due, current, runs>>

\* An entry whose timer is no longer in the table is skipped.
PopDue(i) ==
  /\ at = "pop"
  /\ i \in heap \cap due
  /\ heap' = heap \ {i}
  /\ IF i \in table
     THEN current' = i /\ mu' = None /\ at' = "call"
     ELSE UNCHANGED <<current, mu, at>>
  /\ UNCHANGED <<counter, interval, table, expires, adding, usec, chanVars, due, runs>>

\* mu_ is free: the callback starts.
StartCallback ==
  /\ at = "call"
  /\ at' = "callback"
  /\ runs' = [runs EXCEPT ![current] = IF @ < 2 THEN @ + 1 ELSE @]
  /\ UNCHANGED <<timerVars, expires, mu, adding, usec, chanVars, due, current>>

\* Mutants of EndCallback: the timer is not pushed again; every timer is.
EndCallbackDrops ==
  /\ at = "callback"
  /\ adding[Loop] = None
  /\ mu = None
  /\ mu' = Loop
  /\ at' = "pop"
  /\ due' = due \ {current}
  /\ current' = None
  /\ table' = IF interval[current] > 0 THEN table ELSE table \ {current}
  /\ UNCHANGED <<counter, interval, expires, heap, adding, usec, chanVars, runs>>

EndCallbackRepeats ==
  /\ at = "callback"
  /\ adding[Loop] = None
  /\ mu = None
  /\ mu' = Loop
  /\ at' = "pop"
  /\ due' = due \ {current}
  /\ current' = None
  /\ expires' = [expires EXCEPT ![current] = interval[current]]
  /\ heap' = heap \cup {current}
  /\ UNCHANGED <<counter, interval, table, adding, usec, chanVars, runs>>

\* The callback has returned: reschedule or erase.
EndCallback ==
  /\ at = "callback"
  /\ adding[Loop] = None
  /\ mu = None
  /\ mu' = Loop
  /\ at' = "pop"
  /\ due' = due \ {current}
  /\ current' = None
  /\ IF interval[current] > 0
     THEN /\ expires' = [expires EXCEPT ![current] = interval[current]]
          /\ heap' = heap \cup {current}
          /\ UNCHANGED table
     ELSE /\ table' = table \ {current}
          /\ UNCHANGED <<expires, heap>>
  /\ UNCHANGED <<counter, interval, adding, usec, chanVars, runs>>

\* Nothing is due any more: wake up for the top of the heap, and unlock.
EndProcess ==
  /\ at = "pop"
  /\ heap \cap due = {}
  /\ at' = "wait"
  /\ mu' = None
  /\ \/ /\ heap = {}
        /\ UNCHANGED chanVars
     \/ \E top \in heap :
          /\ \A i \in heap : expires[top] <= expires[i]
          /\ IF Earlier(expires[top])
             THEN /\ lastWakeup' = MaxOf(expires[top], 1)
                  /\ fd' = MaxOf(expires[top], 1)
                  /\ readable' = FALSE
             ELSE UNCHANGED chanVars
  /\ UNCHANGED <<timerVars, expires, adding, usec, due, current, runs>>

-----------------------------------------------------------------------------

AddStep(t) == Insert(t) \/ SetTime(t)

LoopStep ==
  \/ HandleEvents \/ Read \/ ResetWakeup \/ EnterProcess
  \/ \E i \in Ids : PopDue(i)
  \/ StartCallback \/ EndCallback \/ EndProcess

Next ==
  \/ Tick
  \/ LoopStep
  \/ \E t \in Threads : BeginAdd(t) \/ AddStep(t)
  \/ \E t \in Threads, i \in Ids : Cancel(t, i)

\* Time passes, the loop thread runs, a thread inside Add goes on, and the
\* spin lock does not starve them.
Fairness ==
  /\ WF_vars(Tick)
  /\ WF_vars(LoopStep)
  /\ SF_vars(EnterProcess)
  /\ SF_vars(EndCallback)
  /\ \A t \in Threads : SF_vars(AddStep(t))

Spec == Init /\ [][Next]_vars /\ Fairness

-----------------------------------------------------------------------------

\* A timer in the table always has its entry in the heap, or is the one that
\* Process runs: no interleaving of Add, Cancel and Process strands a timer.
TimersAreQueued ==
  /\ TypeOK
  /\ \A i \in table : i \in heap \/ (i = current /\ at \in {"call", "callback"})

\* While the loop thread waits and no thread is inside Add, a queued timer has
\* the timerfd armed or expired: no wake-up for a timer is lost to the races
\* between WakeUpAfter and the reset of last_wakeup_us_ in HandleEvents.
AlwaysArmed ==
  /\ at = "wait"
  /\ \A t \in Threads : adding[t] = None
  /\ heap # {}
  => readable \/ fd # Off

\* A timer that runs once runs at most once.
OnceRunsOnce == \A i \in Ids : interval[i] = 0 => runs[i] <= 1

\* A timer in the table is run, and run again if it repeats, until it is
\* cancelled.
LiveTimersRun ==
  \A i \in Ids : i \in table ~> i \notin table \/ (at = "callback" /\ current = i)

\* WakeUpAfter changes an alarm that is set only to make it ring earlier.
NeverPostponed ==
  [][\A t \in Threads :
       usec[t] = Off /\ usec'[t] # Off /\ fd # Off => usec'[t] <= fd]_vars
=============================================================================

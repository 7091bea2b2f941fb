---------------------------- MODULE TimerHashWheel ----------------------------
(***************************************************************************)
(* TimerHashWheel (include/pedronet/queue/timer_hash_wheel.h) with the      *)
(* TimerChannel (src/channel/timer_channel.cc) that drives it: user threads *)
(* and callbacks add and cancel timers while the loop thread processes the  *)
(* buckets between the last tick it has seen and the present one.           *)
(*                                                                         *)
(* Time is counted in ticks.  A bucket keeps its entries by rounds; both    *)
(* follow from the tick at which a timer expires.  Add has no lock over its *)
(* steps, and nothing bounds the time between two of them.                  *)
(***************************************************************************)
EXTENDS Integers, Sequences

CONSTANTS
  Users,      \* user threads
  Loop,       \* the loop thread, which adds and cancels from callbacks
  None,       \* no timer
  Once,       \* the interval of a timer that runs once
  Delays,     \* delays of Add, in ticks
  Intervals,  \* intervals of Add: Once, or in ticks; 0 is less than a tick
  Buckets,    \* number of buckets (600 in the code)
  MaxTimers,  \* bound: timers ever added
  MaxTime     \* bound: ticks

ASSUME ThreadsAssumption == Loop \notin Users
ASSUME TimeAssumption ==
  Delays \subseteq Nat /\ Intervals \subseteq Nat \cup {Once} /\ MaxTime \in Nat /\ Once \notin Nat
ASSUME BucketsAssumption == Buckets \in Nat \ {0}
ASSUME MaxTimersAssumption == MaxTimers \in Nat /\ None \notin 1 .. MaxTimers

Threads == Users \cup {Loop}
Ids == 1 .. MaxTimers
Off == -1                 \* the timerfd is not armed; a thread has nothing to arm
Min == -1                 \* last_wakeup_us_ = numeric_limits::min()
Infinite == 1000000       \* last_wakeup_us_ = numeric_limits::max()

VARIABLES
  now,        \* the clock
  counter,    \* counter_
  interval,   \* the interval of each timer
  due,        \* the tick at which each timer expires, 0 when it is gone
  table,      \* timers in table_
  wheel,      \* timers with an entry in a bucket
  pc,         \* where a thread is in Add
  adding,     \* the timer it adds, or None
  usec,       \* the delay a thread will arm the timerfd with, or Off
  lastWakeup, \* last_wakeup_us_
  fd,         \* the tick at which the timerfd expires, or Off
  readable,   \* the timerfd has expired and was not read
  at,         \* where the loop thread is
  time,       \* the now of Process
  last,       \* last_
  visit,      \* buckets that Process has still to visit
  entries,    \* timers popped from a bucket and not looked at yet
  ran,        \* history: timers this Process has run
  spun,       \* history: a Process has run a timer twice
  stalled     \* history: timers in a bucket that Add put there after their tick had passed

clockVars == <<now, fd, readable>>
addVars == <<counter, interval, pc, adding>>
loopVars == <<at, time, last, visit, entries>>
histVars == <<ran, spun, stalled>>
vars == <<clockVars, addVars, due, table, wheel, usec, lastWakeup, loopVars, histVars>>

Bucket(tick) == tick % Buckets
Rounds(tick) == tick \div Buckets

TypeOK ==
  /\ now \in 0 .. MaxTime /\ time \in 0 .. now /\ last \in 0 .. now
  /\ counter \in 0 .. MaxTimers
  /\ interval \in [Ids -> Intervals \cup {Once}]
  /\ due \in [Ids -> Nat]
  /\ table \subseteq Ids /\ wheel \subseteq Ids /\ entries \subseteq Ids
  /\ pc \in [Threads -> {"idle", "bucket", "wake", "settime"}]
  /\ adding \in [Threads -> Ids \cup {None}]
  /\ usec \in [Threads -> Nat \cup {Off}]
  /\ lastWakeup \in Min .. Infinite
  /\ fd \in Nat \cup {Off} /\ readable \in BOOLEAN
  /\ at \in {"wait", "read", "scan", "callback", "settime"}
  /\ visit \in Seq(0 .. Buckets - 1)
  /\ ran \subseteq Ids /\ spun \in BOOLEAN /\ stalled \subseteq Ids

Init ==
  /\ now = 0 /\ time = 0 /\ last = 0
  /\ counter = 0
  /\ interval = [i \in Ids |-> Once]
  /\ due = [i \in Ids |-> 0]
  /\ table = {} /\ wheel = {} /\ entries = {}
  /\ pc = [t \in Threads |-> "idle"]
  /\ adding = [t \in Threads |-> None]
  /\ usec = [t \in Threads |-> Off]
  /\ lastWakeup = 0 /\ fd = 0 /\ readable = FALSE
  /\ at = "wait" /\ visit = <<>>
  /\ ran = {} /\ spun = FALSE /\ stalled = {}

Tick ==
  /\ now < MaxTime
  /\ now' = now + 1
  /\ UNCHANGED <<fd, readable, addVars, due, table, wheel, usec, lastWakeup, loopVars, histVars>>

Expire ==
  /\ fd # Off /\ fd <= now
  /\ readable' = TRUE
  /\ fd' = Off
  /\ UNCHANGED <<now, addVars, due, table, wheel, usec, lastWakeup, loopVars, histVars>>

-----------------------------------------------------------------------------
(* TimerChannel::WakeUpAt(tick): the compare-and-swap of last_wakeup_us_,   *)
(* then timerfd_settime.  Two delays of the same number of ticks may be     *)
(* either way round.                                                        *)

Largest(m, n) == IF m >= n THEN m ELSE n
Delay(tick) == Largest(tick - now, 0)

Earlier(t, tick) ==
  /\ Delay(tick) <= lastWakeup
  /\ lastWakeup' = Delay(tick)
  /\ usec' = [usec EXCEPT ![t] = Delay(tick)]

NotEarlier(tick) ==
  /\ Delay(tick) >= lastWakeup
  /\ UNCHANGED <<lastWakeup, usec>>

SetTime(t) ==
  /\ fd' = now + usec[t]
  /\ readable' = FALSE
  /\ usec' = [usec EXCEPT ![t] = Off]
  /\ UNCHANGED <<now, lastWakeup>>

-----------------------------------------------------------------------------
(* Add and Cancel, on a user thread or inside a callback.                   *)

MayCall(t) ==
  /\ pc[t] = "idle"
  /\ t = Loop => at = "callback"

\* The time is read and the entry goes into table_; nobody looks at it there
\* before it is in a bucket and its id has been returned.
BeginAdd(t) ==
  /\ MayCall(t)
  /\ counter < MaxTimers
  /\ counter' = counter + 1
  /\ \E d \in Delays, v \in Intervals :
       /\ due' = [due EXCEPT ![counter'] = now + d]
       /\ interval' = [interval EXCEPT ![counter'] = v]
  /\ adding' = [adding EXCEPT ![t] = counter']
  /\ table' = table \cup {counter'}
  /\ pc' = [pc EXCEPT ![t] = "bucket"]
  /\ UNCHANGED <<clockVars, wheel, usec, lastWakeup, loopVars, histVars>>

\* Process has dealt with the ticks before this one.
Passed == IF at \in {"scan", "callback"} THEN time ELSE last

AddToBucket(t) ==
  /\ pc[t] = "bucket"
  /\ wheel' = wheel \cup {adding[t]}
  /\ stalled' = IF due[adding[t]] < Passed THEN stalled \cup {adding[t]} ELSE stalled
  /\ pc' = [pc EXCEPT ![t] = "wake"]
  /\ UNCHANGED <<clockVars, counter, interval, adding, due, table, usec, lastWakeup, loopVars, ran, spun>>

WakeUp(t) ==
  /\ pc[t] = "wake"
  /\ \/ Earlier(t, due[adding[t]]) /\ pc' = [pc EXCEPT ![t] = "settime"]
     \/ NotEarlier(due[adding[t]]) /\ pc' = [pc EXCEPT ![t] = "idle"]
  /\ adding' = [adding EXCEPT ![t] = None]
  /\ UNCHANGED <<clockVars, counter, interval, due, table, wheel, loopVars, histVars>>

EndAdd(t) ==
  /\ pc[t] = "settime"
  /\ SetTime(t)
  /\ pc' = [pc EXCEPT ![t] = "idle"]
  /\ UNCHANGED <<counter, interval, adding, due, table, wheel, loopVars, histVars>>

\* Cancel of an id that Add has returned; of one not in table_ it does nothing.
Cancel(t, i) ==
  /\ MayCall(t)
  /\ i \in table
  /\ \A s \in Threads : adding[s] # i
  /\ table' = table \ {i}
  /\ UNCHANGED <<clockVars, addVars, due, wheel, usec, lastWakeup, loopVars, histVars>>

-----------------------------------------------------------------------------
(* TimerChannel::HandleEvents, then Process, on the loop thread.            *)

HandleEvents ==
  /\ at = "wait"
  /\ readable
  /\ lastWakeup' = Min
  /\ at' = "read"
  /\ UNCHANGED <<clockVars, addVars, due, table, wheel, usec, time, last, visit, entries, histVars>>

BucketRange(from, to) == [n \in 1 .. to - from + 1 |-> from + n - 1]

\* The range of buckets from the last tick to the present one goes past the
\* end of the wheel.
Wraps(t1, t2) == t2 - t1 >= Buckets \/ Bucket(t1) > Bucket(t2)

\* Mutant of BucketsBetween: the last tick is not visited again.
BucketsAfter(t1, t2) ==
  IF Wraps(t1, t2) THEN BucketRange(0, Buckets - 1) ELSE BucketRange(Bucket(t1) + 1, Bucket(t2))

BucketsBetween(t1, t2) ==
  IF t2 - t1 >= Buckets THEN BucketRange(0, Buckets - 1)
  ELSE IF Bucket(t1) <= Bucket(t2) THEN BucketRange(Bucket(t1), Bucket(t2))
  ELSE BucketRange(Bucket(t1), Buckets - 1) \o BucketRange(0, Bucket(t2))

\* Mutant of BeginProcess: last_wakeup_us_ keeps the value of HandleEvents.
BeginProcessMuted ==
  /\ at = "read"
  /\ readable' = FALSE
  /\ time' = now
  /\ visit' = BucketsBetween(last, now)
  /\ at' = "scan"
  /\ UNCHANGED <<now, fd, addVars, due, table, wheel, usec, lastWakeup, last, entries, histVars>>

\* The timerfd is read, last_wakeup_us_ is reset and Process reads the time.
BeginProcess ==
  /\ at = "read"
  /\ readable' = FALSE
  /\ lastWakeup' = Infinite
  /\ time' = now
  /\ visit' = BucketsBetween(last, now)
  /\ at' = "scan"
  /\ UNCHANGED <<now, fd, addVars, due, table, wheel, usec, last, entries, histVars>>

\* Mutant of Ripe: the rounds are not looked at.
RipeAnyRound(b) == {i \in wheel : Bucket(due[i]) = b}

\* The entries of bucket b that Pop may return.
Ripe(b) == {i \in wheel : Bucket(due[i]) = b /\ Rounds(due[i]) <= Rounds(time)}

\* Mutant of Pop: the entries stay in the bucket.
PopCopies ==
  /\ at = "scan" /\ entries = {} /\ visit # <<>>
  /\ LET ripe == Ripe(Head(visit))
         least == {i \in ripe : \A j \in ripe : Rounds(due[i]) <= Rounds(due[j])}
     IN  /\ entries' = least
         /\ visit' = IF ripe = {} THEN Tail(visit) ELSE visit
  /\ UNCHANGED <<clockVars, addVars, due, table, wheel, usec, lastWakeup, at, time, last, histVars>>

\* Bucket::Pop takes the entries of the least rounds.
Pop ==
  /\ at = "scan" /\ entries = {} /\ visit # <<>>
  /\ LET ripe == Ripe(Head(visit))
         least == {i \in ripe : \A j \in ripe : Rounds(due[i]) <= Rounds(due[j])}
     IN  /\ wheel' = wheel \ least
         /\ entries' = least
         /\ visit' = IF ripe = {} THEN Tail(visit) ELSE visit
         /\ stalled' = stalled \ least
  /\ UNCHANGED <<clockVars, addVars, due, table, usec, lastWakeup, at, time, last, ran, spun>>

\* The timer was cancelled.
Skip(i) ==
  /\ at = "scan"
  /\ i \in entries \ table
  /\ entries' = entries \ {i}
  /\ due' = [due EXCEPT ![i] = 0]
  /\ UNCHANGED <<clockVars, addVars, table, wheel, usec, lastWakeup, at, time, last, visit, histVars>>

\* Mutant of StartCallback: the timer is not put back.
StartCallbackDrops(i) ==
  /\ at = "scan"
  /\ i \in entries \cap table
  /\ entries' = entries \ {i}
  /\ table' = IF interval[i] = Once THEN table \ {i} ELSE table
  /\ at' = "callback"
  /\ ran' = ran \cup {i}
  /\ spun' = (spun \/ i \in ran)
  /\ UNCHANGED <<clockVars, addVars, due, wheel, usec, lastWakeup, time, last, visit, stalled>>

\* A timer is erased or put back before its callback runs.
StartCallback(i) ==
  /\ at = "scan"
  /\ i \in entries \cap table
  /\ entries' = entries \ {i}
  /\ IF interval[i] = Once
     THEN /\ table' = table \ {i}
          /\ due' = [due EXCEPT ![i] = 0]
          /\ UNCHANGED wheel
     ELSE /\ due' = [due EXCEPT ![i] = time + interval[i]]
          /\ wheel' = wheel \cup {i}
          /\ UNCHANGED table
  /\ at' = "callback"
  /\ ran' = ran \cup {i}
  /\ spun' = (spun \/ i \in ran)
  /\ UNCHANGED <<clockVars, addVars, usec, lastWakeup, time, last, visit, stalled>>

EndCallback ==
  /\ at = "callback"
  /\ pc[Loop] = "idle"
  /\ at' = "scan"
  /\ UNCHANGED <<clockVars, addVars, due, table, wheel, usec, lastWakeup, time, last, visit, entries, histVars>>

\* The end of Process, and its WakeUp for the next tick.
EndScan ==
  /\ at = "scan" /\ entries = {} /\ visit = <<>>
  /\ last' = time
  /\ ran' = {}
  /\ \/ Earlier(Loop, time + 1) /\ at' = "settime"
     \/ NotEarlier(time + 1) /\ at' = "wait"
  /\ UNCHANGED <<clockVars, addVars, due, table, wheel, time, visit, entries, spun, stalled>>

EndProcess ==
  /\ at = "settime"
  /\ SetTime(Loop)
  /\ at' = "wait"
  /\ UNCHANGED <<addVars, due, table, wheel, time, last, visit, entries, histVars>>

-----------------------------------------------------------------------------

AddStep(t) == AddToBucket(t) \/ WakeUp(t) \/ EndAdd(t)

LoopStep ==
  \/ HandleEvents \/ BeginProcess \/ Pop
  \/ \E i \in Ids : Skip(i) \/ StartCallback(i)
  \/ EndCallback \/ EndScan \/ EndProcess

Next ==
  \/ Tick \/ Expire
  \/ LoopStep
  \/ \E t \in Threads : BeginAdd(t) \/ AddStep(t)
  \/ \E t \in Threads, i \in Ids : Cancel(t, i)

\* Time passes, the timerfd expires, and every thread goes on.
Fairness ==
  /\ WF_vars(Tick)
  /\ WF_vars(Expire)
  /\ WF_vars(LoopStep)
  /\ \A t \in Threads : WF_vars(AddStep(t))

Spec == Init /\ [][Next]_vars /\ Fairness

-----------------------------------------------------------------------------

\* A timer in the table has its entry in a bucket or in the batch that Process
\* holds, unless its Add is still on the way: no interleaving of Add, Cancel
\* and Process strands a timer.
TimersAreQueued ==
  /\ TypeOK
  /\ \A i \in table : i \in wheel \cup entries \/ \E t \in Threads : adding[t] = i

\* The wheel never stops: while the loop thread waits, the timerfd is armed or
\* has expired, or some thread is about to arm it.
AlwaysArmed ==
  at = "wait" => readable \/ fd # Off \/ \E t \in Threads : usec[t] # Off

\* When the loop thread is back, no timer of a tick before the last one is left
\* in a bucket, except one whose Add put it behind Process.
NothingOverdueIsLeft ==
  at = "wait" => \A i \in wheel : due[i] >= last \/ i \in stalled

\* A timer is run before its tick only by a Process whose range of buckets goes
\* past the end of the wheel: the rounds of the new rotation are then applied
\* to the buckets of the old one.
EarlyOnlyOnWrap ==
  [][\A i \in entries \ entries' :
       at' = "callback" /\ due[i] > time => Wraps(last, time)]_vars

\* Process ends, whatever is added and cancelled meanwhile, unless it has met
\* the same timer twice, which may then go on for ever.
ProcessEnds == at = "scan" ~> at = "wait" \/ spun
=============================================================================

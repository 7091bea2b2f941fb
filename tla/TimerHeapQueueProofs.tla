------------------------- MODULE TimerHeapQueueProofs -------------------------
(***************************************************************************)
(* Proofs about TimerHeapQueue, for any number of threads and timers and    *)
(* any delays and intervals.                                                *)
(***************************************************************************)
EXTENDS TimerHeapQueue, TLAPS

\* Who holds mu_, as far as it matters.
LockInv ==
  /\ \A t \in Threads : usec[t] # Off => mu = t /\ adding[t] # None
  /\ at = "pop" => mu = Loop /\ usec[Loop] = Off
  /\ at \in {"call", "callback"} => current \in Ids

\* The timerfd will ring: it has, it is armed, or a thread that has won the CAS
\* of WakeUpAfter is about to arm it.
Armed == readable \/ fd # Off \/ \E t \in Threads : usec[t] # Off

\* last_wakeup_us_ below its maximum stands for an alarm, except between its two
\* stores in HandleEvents; while the loop waits, a timer in the heap has one.
ArmedInv ==
  /\ \A i \in Ids : expires[i] < Infinite
  /\ at \notin {"read", "reset"} /\ lastWakeup < Infinite => Armed
  /\ at = "wait" /\ heap # {} => lastWakeup < Infinite

\* Every id is inserted once, and a timer that runs once does not come back.
OnceInv ==
  /\ \A i \in Ids : i > counter => i \notin heap /\ i # current /\ runs[i] = 0
  /\ \A t \in Threads : adding[t] # None => adding[t] <= counter
  /\ \A t \in Threads : adding[t] # None /\ usec[t] = Off =>
       adding[t] \notin heap /\ adding[t] # current /\ runs[adding[t]] = 0
  /\ \A s, t \in Threads : adding[s] = adding[t] /\ adding[s] # None => s = t
  /\ current \notin heap
  /\ \A i \in Ids : interval[i] = 0 /\ runs[i] >= 1 =>
       runs[i] = 1 /\ i \notin heap /\ (i = current => at = "callback")

IInv == TimersAreQueued /\ LockInv /\ ArmedInv /\ OnceInv

-----------------------------------------------------------------------------

LEMMA InfiniteIsLarge == Infinite \in Nat /\ Infinite > 1
  BY SMT DEF Infinite

LEMMA InitIInv == Init => IInv
<1> SUFFICES ASSUME Init PROVE IInv
  OBVIOUS
<1> USE DEF Init
<1>1. TypeOK
  <2>1. counter \in 0 .. MaxTimers /\ lastWakeup \in 0 .. Infinite
    BY MaxTimersAssumption, InfiniteIsLarge
  <2>2. /\ interval \in [Ids -> Intervals \cup {0}]
        /\ expires \in [Ids -> Nat \cup {Off}]
        /\ runs \in [Ids -> 0 .. 2]
    OBVIOUS
  <2>3. /\ adding \in [Threads -> Ids \cup {None}]
        /\ usec \in [Threads -> Nat \cup {Off}]
    OBVIOUS
  <2> QED BY <2>1, <2>2, <2>3 DEF TypeOK
<1>2. TimersAreQueued /\ LockInv
  BY <1>1 DEF TimersAreQueued, LockInv
<1>3. ArmedInv
  BY InfiniteIsLarge DEF ArmedInv, Off
<1>4. OnceInv
  BY MaxTimersAssumption DEF OnceInv, Ids
<1> QED BY <1>2, <1>3, <1>4 DEF IInv

LEMMA MaxOfType == \A n \in Nat \cup {Off} : MaxOf(n, 1) \in Nat /\ MaxOf(n, 1) >= 1 /\ MaxOf(n, 1) >= n
  BY DEF MaxOf, Off

\* What Insert does, in either case.
LEMMA InsertFacts ==
  ASSUME IInv, NEW t \in Threads, Insert(t)
  PROVE  /\ adding[t] \in Ids /\ mu = None /\ usec[t] = Off
         /\ heap' = heap \cup {adding[t]} /\ table' = table \cup {adding[t]}
         /\ UNCHANGED <<counter, interval, expires, fd, readable, at, due, current, runs>>
         /\ \/ /\ lastWakeup' \in Nat /\ lastWakeup' < lastWakeup
               /\ usec' = [usec EXCEPT ![t] = lastWakeup']
               /\ mu' = t /\ adding' = adding
            \/ /\ lastWakeup' = lastWakeup /\ lastWakeup <= MaxOf(expires[adding[t]], 1)
               /\ usec' = usec /\ mu' = mu /\ adding' = [adding EXCEPT ![t] = None]
<1>1. TypeOK /\ LockInv
  BY DEF IInv, TimersAreQueued
<1>2. adding[t] \in Ids /\ mu = None /\ usec[t] = Off
  <2>1. adding[t] # None /\ mu = None
    BY DEF Insert
  <2>2. None # t
    BY ThreadsAssumption DEF Threads
  <2> QED BY <1>1, <2>1, <2>2 DEF TypeOK, LockInv
<1>3. MaxOf(expires[adding[t]], 1) \in Nat /\ lastWakeup \in Nat
  <2>1. lastWakeup \in Nat /\ expires[adding[t]] \in Nat \cup {Off}
    BY <1>1, <1>2, InfiniteIsLarge DEF TypeOK
  <2> QED BY <2>1, MaxOfType
<1>4. CASE Earlier(expires[adding[t]])
  BY <1>2, <1>3, <1>4 DEF Insert, Earlier, loopVars
<1>5. CASE ~Earlier(expires[adding[t]])
  BY <1>2, <1>3, <1>5 DEF Insert, Earlier, loopVars
<1> QED BY <1>4, <1>5

-----------------------------------------------------------------------------
(* One lemma for each part of the invariant, one step for each action.      *)

LEMMA TypeStep == ASSUME IInv, Next PROVE TypeOK'
<1>1. TypeOK /\ LockInv
  BY DEF IInv, TimersAreQueued
<1>2. Loop \in Threads /\ \A t \in Threads : t # None
  BY ThreadsAssumption DEF Threads
<1>3. CASE Tick
  <2>1. expires' \in [Ids -> Nat \cup {Off}]
    BY <1>1, <1>3 DEF Tick, TypeOK, Off
  <2>2. fd' \in Nat \cup {Off} /\ readable' \in BOOLEAN
    <3>1. fd' \in Nat \cup {Off}
      BY <1>1, <1>3 DEF Tick, TypeOK, Off
    <3>2. readable' = (readable \/ fd \in {0, 1})
      BY <1>3 DEF Tick
    <3>3. (readable \/ fd \in {0, 1}) \in BOOLEAN
      OBVIOUS
    <3> QED BY <3>1, <3>2, <3>3
  <2> QED BY <1>1, <1>3, <2>1, <2>2 DEF Tick, timerVars, loopVars, TypeOK
<1>4. ASSUME NEW t \in Threads, BeginAdd(t) PROVE TypeOK'
  <2>1. counter' = counter + 1 /\ counter' \in Ids
    BY <1>1, <1>4, MaxTimersAssumption DEF BeginAdd, TypeOK, Ids
  <2>2. PICK d \in Delays, v \in Intervals :
          expires' = [expires EXCEPT ![counter'] = d] /\ interval' = [interval EXCEPT ![counter'] = v]
    BY <1>4 DEF BeginAdd
  <2>3. expires' \in [Ids -> Nat \cup {Off}] /\ interval' \in [Ids -> Intervals \cup {0}]
    BY <1>1, <2>1, <2>2, TimeAssumption DEF TypeOK
  <2>4. adding' \in [Threads -> Ids \cup {None}] /\ counter' \in 0 .. MaxTimers
    BY <1>1, <1>4, <2>1 DEF BeginAdd, TypeOK, Ids
  <2> QED BY <1>1, <1>4, <2>3, <2>4 DEF BeginAdd, chanVars, loopVars, TypeOK
<1>5. ASSUME NEW t \in Threads, Insert(t) PROVE TypeOK'
  <2>1. lastWakeup' \in 0 .. Infinite
    BY <1>1, <1>5, InsertFacts, InfiniteIsLarge DEF TypeOK
  <2>2. lastWakeup' \in Nat
    BY <2>1, InfiniteIsLarge
  <2>3. usec' \in [Threads -> Nat \cup {Off}] /\ adding' \in [Threads -> Ids \cup {None}]
    BY <1>1, <1>5, <2>2, InsertFacts DEF TypeOK
  <2>4. heap' \subseteq Ids /\ table' \subseteq Ids /\ mu' \in Threads \cup {None}
    BY <1>1, <1>5, InsertFacts DEF TypeOK
  <2> QED BY <1>1, <1>5, <2>1, <2>3, <2>4, InsertFacts DEF TypeOK
<1>6. ASSUME NEW t \in Threads, SetTime(t) PROVE TypeOK'
  <2>1. usec' \in [Threads -> Nat \cup {Off}] /\ adding' \in [Threads -> Ids \cup {None}]
    BY <1>1, <1>6 DEF SetTime, TypeOK
  <2>2. fd' \in Nat \cup {Off}
    BY <1>1, <1>6 DEF SetTime, TypeOK
  <2> QED BY <1>1, <1>6, <2>1, <2>2 DEF SetTime, timerVars, loopVars, TypeOK
<1>7. ASSUME NEW t \in Threads, NEW i \in Ids, Cancel(t, i) PROVE TypeOK'
  BY <1>1, <1>7 DEF Cancel, chanVars, loopVars, TypeOK
<1>8. CASE HandleEvents
  BY <1>1, <1>8, InfiniteIsLarge DEF HandleEvents, timerVars, Min, TypeOK
<1>9. CASE Read
  BY <1>1, <1>9 DEF Read, timerVars, TypeOK
<1>10. CASE ResetWakeup
  BY <1>1, <1>10, InfiniteIsLarge DEF ResetWakeup, timerVars, TypeOK
<1>11. CASE EnterProcess
  BY <1>1, <1>2, <1>11 DEF EnterProcess, timerVars, chanVars, TypeOK
<1>12. ASSUME NEW i \in Ids, PopDue(i) PROVE TypeOK'
  BY <1>1, <1>12 DEF PopDue, chanVars, TypeOK
<1>13. CASE StartCallback
  <2>1. runs' \in [Ids -> 0 .. 2]
    <3>1. current \in Ids /\ runs \in [Ids -> 0 .. 2]
      BY <1>1, <1>13 DEF StartCallback, LockInv, TypeOK
    <3>2. (IF runs[current] < 2 THEN runs[current] + 1 ELSE runs[current]) \in 0 .. 2
      BY <3>1
    <3>3. runs' = [runs EXCEPT ![current] = IF runs[current] < 2 THEN runs[current] + 1 ELSE runs[current]]
      BY <1>13 DEF StartCallback
    <3> QED BY <3>1, <3>2, <3>3
  <2> QED BY <1>1, <1>13, <2>1 DEF StartCallback, timerVars, chanVars, TypeOK
<1>14. CASE EndCallback
  <2>1. current \in Ids /\ interval[current] \in Nat
    <3>1. current \in Ids
      BY <1>1, <1>14 DEF EndCallback, LockInv
    <3>2. interval[current] \in Intervals \cup {0}
      BY <1>1, <3>1 DEF TypeOK
    <3>3. Intervals \cup {0} \subseteq Nat
      BY TimeAssumption
    <3> QED BY <3>1, <3>2, <3>3
  <2>2. expires' \in [Ids -> Nat \cup {Off}] /\ heap' \subseteq Ids /\ table' \subseteq Ids
    BY <1>1, <1>14, <2>1 DEF EndCallback, TypeOK
  <2> QED BY <1>1, <1>2, <1>14, <2>2 DEF EndCallback, chanVars, TypeOK
<1>15. CASE EndProcess
  <2>1. lastWakeup' \in 0 .. Infinite /\ fd' \in Nat \cup {Off} /\ readable' \in BOOLEAN
    <3>1. ASSUME NEW top \in heap, Earlier(expires[top]), lastWakeup' = MaxOf(expires[top], 1)
          PROVE  lastWakeup' \in 0 .. Infinite /\ MaxOf(expires[top], 1) \in Nat
      <4>1. expires[top] \in Nat \cup {Off}
        BY <1>1 DEF TypeOK
      <4>2. MaxOf(expires[top], 1) \in Nat
        BY <4>1, MaxOfType
      <4>3. MaxOf(expires[top], 1) < lastWakeup /\ lastWakeup \in 0 .. Infinite
        BY <1>1, <3>1 DEF TypeOK, Earlier
      <4> QED BY <3>1, <4>2, <4>3, InfiniteIsLarge
    <3> QED BY <1>1, <1>15, <3>1 DEF EndProcess, chanVars, TypeOK
  <2> QED BY <1>1, <1>15, <2>1 DEF EndProcess, timerVars, TypeOK
<1> QED BY <1>3, <1>4, <1>5, <1>6, <1>7, <1>8, <1>9, <1>10, <1>11, <1>12, <1>13, <1>14, <1>15
        DEF Next, LoopStep, AddStep

LEMMA LockStep == ASSUME IInv, Next PROVE LockInv'
<1>1. TypeOK /\ LockInv
  BY DEF IInv, TimersAreQueued
<1>2. Loop \in Threads /\ \A t \in Threads : t # None
  BY ThreadsAssumption DEF Threads
<1>3. CASE Tick
  BY <1>1, <1>3 DEF Tick, loopVars, LockInv
<1>4. ASSUME NEW t \in Threads, BeginAdd(t) PROVE LockInv'
  <2>1. counter' = counter + 1 /\ counter < MaxTimers /\ counter \in Nat
    BY <1>1, <1>4 DEF BeginAdd, TypeOK
  <2>2. counter' \in Ids /\ counter' # None
    BY <2>1, MaxTimersAssumption DEF Ids
  <2>3. \A s \in Threads : adding[s] # None => adding'[s] # None
    BY <1>1, <1>4, <2>2 DEF BeginAdd, TypeOK
  <2> QED BY <1>1, <1>4, <2>3 DEF BeginAdd, loopVars, LockInv
<1>5. ASSUME NEW t \in Threads, Insert(t) PROVE LockInv'
  <2>1. \A s \in Threads : usec'[s] # Off => mu' = s /\ adding'[s] # None
    <3>1. \A s \in Threads : usec[s] = Off
      BY <1>1, <1>2, <1>5, InsertFacts DEF LockInv
    <3>2. CASE usec' = usec
      BY <3>1, <3>2
    <3>3. CASE usec' # usec
      <4>1. usec' = [usec EXCEPT ![t] = lastWakeup'] /\ mu' = t /\ adding' = adding
        BY <1>5, <3>3, InsertFacts
      <4>2. adding[t] # None
        BY <1>5 DEF Insert
      <4> QED BY <1>1, <3>1, <4>1, <4>2 DEF TypeOK
    <3> QED BY <3>2, <3>3
  <2>2. at # "pop"
    BY <1>1, <1>2, <1>5, InsertFacts DEF LockInv
  <2> QED BY <1>1, <1>5, <2>1, <2>2, InsertFacts DEF LockInv
<1>6. ASSUME NEW t \in Threads, SetTime(t) PROVE LockInv'
  <2>1. at # "pop" /\ UNCHANGED loopVars
    BY <1>1, <1>6 DEF SetTime, LockInv
  <2>2. \A s \in Threads : usec'[s] = Off
    BY <1>1, <1>2, <1>6 DEF SetTime, LockInv, TypeOK
  <2> QED BY <1>1, <2>1, <2>2 DEF loopVars, LockInv
<1>7. ASSUME NEW t \in Threads, NEW i \in Ids, Cancel(t, i) PROVE LockInv'
  BY <1>1, <1>7 DEF Cancel, loopVars, LockInv
<1>8. CASE HandleEvents \/ Read \/ ResetWakeup \/ StartCallback
  BY <1>1, <1>8 DEF HandleEvents, Read, ResetWakeup, StartCallback, LockInv
<1>9. CASE EnterProcess
  BY <1>1, <1>2, <1>9 DEF EnterProcess, LockInv
<1>10. ASSUME NEW i \in Ids, PopDue(i) PROVE LockInv'
  BY <1>1, <1>2, <1>10 DEF PopDue, LockInv
<1>11. CASE EndCallback
  BY <1>1, <1>2, <1>11 DEF EndCallback, LockInv
<1>12. CASE EndProcess
  BY <1>1, <1>2, <1>12 DEF EndProcess, LockInv
<1> QED BY <1>3, <1>4, <1>5, <1>6, <1>7, <1>8, <1>9, <1>10, <1>11, <1>12
        DEF Next, LoopStep, AddStep

LEMMA QueuedStep == ASSUME IInv, Next PROVE TimersAreQueued'
<1> DEFINE Kept(i) == i \in heap \/ (i = current /\ at \in {"call", "callback"})
<1>1. TypeOK /\ TypeOK' /\ LockInv
  BY TypeStep DEF IInv, TimersAreQueued
<1>2. \A i \in table : Kept(i)
  BY DEF IInv, TimersAreQueued
<1>3. SUFFICES \A i \in table' : Kept(i)'
  BY <1>1 DEF TimersAreQueued
<1>4. CASE Tick
  BY <1>2, <1>4 DEF Tick, timerVars, loopVars
<1>5. ASSUME NEW t \in Threads, BeginAdd(t) PROVE \A i \in table' : Kept(i)'
  BY <1>2, <1>5 DEF BeginAdd, loopVars
<1>6. ASSUME NEW t \in Threads, Insert(t) PROVE \A i \in table' : Kept(i)'
  BY <1>2, <1>6, InsertFacts
<1>7. ASSUME NEW t \in Threads, SetTime(t) PROVE \A i \in table' : Kept(i)'
  BY <1>2, <1>7 DEF SetTime, timerVars, loopVars
<1>8. ASSUME NEW t \in Threads, NEW i \in Ids, Cancel(t, i) PROVE \A j \in table' : Kept(j)'
  BY <1>2, <1>8 DEF Cancel, loopVars
<1>9. CASE HandleEvents \/ Read \/ ResetWakeup \/ EnterProcess \/ StartCallback \/ EndProcess
  BY <1>2, <1>9 DEF HandleEvents, Read, ResetWakeup, EnterProcess, StartCallback, EndProcess, timerVars
<1>10. ASSUME NEW i \in Ids, PopDue(i) PROVE \A j \in table' : Kept(j)'
  BY <1>2, <1>10 DEF PopDue
<1>11. CASE EndCallback
  BY <1>2, <1>11 DEF EndCallback
<1> QED BY <1>4, <1>5, <1>6, <1>7, <1>8, <1>9, <1>10, <1>11 DEF Next, LoopStep, AddStep

LEMMA ArmedStep == ASSUME IInv, Next PROVE ArmedInv'
<1>1. TypeOK /\ LockInv /\ ArmedInv
  BY DEF IInv, TimersAreQueued
<1>2. CASE Tick
  <2>1. \A i \in Ids : expires'[i] < Infinite
    <3>1. TAKE i \in Ids
    <3>2. expires[i] \in Int /\ expires[i] < Infinite
      BY <1>1 DEF ArmedInv, TypeOK, Off
    <3>3. expires'[i] = IF expires[i] > 0 THEN expires[i] - 1 ELSE expires[i]
      BY <1>2 DEF Tick
    <3> QED BY <3>2, <3>3, InfiniteIsLarge
  <2>2. Armed => Armed'
    <3>1. ASSUME fd # Off PROVE readable' \/ fd' # Off
      <4>1. CASE fd \in {0, 1}
        BY <1>2, <4>1 DEF Tick
      <4>2. CASE fd \notin {0, 1}
        <5>1. fd \in Nat /\ fd > 1
          BY <1>1, <3>1, <4>2 DEF TypeOK
        <5>2. fd' = fd - 1 /\ fd - 1 \in Nat
          BY <1>2, <5>1 DEF Tick
        <5> QED BY <5>2 DEF Off
      <4> QED BY <4>1, <4>2
    <3>2. readable => readable'
      BY <1>2 DEF Tick
    <3>3. usec' = usec
      BY <1>2 DEF Tick
    <3> QED BY <3>1, <3>2, <3>3 DEF Armed
  <2> QED BY <1>1, <1>2, <2>1, <2>2 DEF Tick, timerVars, loopVars, ArmedInv
<1>3. ASSUME NEW t \in Threads, BeginAdd(t) PROVE ArmedInv'
  <2>1. \A i \in Ids : expires'[i] < Infinite
    BY <1>1, <1>3, InfiniteAssumption DEF BeginAdd, ArmedInv, TypeOK
  <2> QED BY <1>1, <1>3, <2>1 DEF BeginAdd, chanVars, loopVars, ArmedInv, Armed
<1>4. ASSUME NEW t \in Threads, Insert(t) PROVE ArmedInv'
  <2>1. UNCHANGED <<expires, fd, readable, at>>
    BY <1>4, InsertFacts
  <2>2. lastWakeup' < Infinite /\ (lastWakeup < Infinite => lastWakeup' <= lastWakeup) /\ (Armed' \/ at \in {"read", "reset"})
    <3>1. CASE lastWakeup' \in Nat /\ lastWakeup' < lastWakeup /\ usec' = [usec EXCEPT ![t] = lastWakeup']
      <4>1. usec'[t] # Off
        BY <1>1, <3>1 DEF TypeOK, Off
      <4> QED BY <1>1, <3>1, <4>1, InfiniteIsLarge DEF Armed, TypeOK
    <3>2. CASE lastWakeup' = lastWakeup /\ lastWakeup <= MaxOf(expires[adding[t]], 1) /\ usec' = usec
      <4>1. adding[t] \in Ids
        BY <1>4, InsertFacts
      <4>2. MaxOf(expires[adding[t]], 1) < Infinite
        BY <1>1, <4>1, InfiniteIsLarge DEF MaxOf, ArmedInv
      <4>3. expires[adding[t]] \in Nat \cup {Off}
        BY <1>1, <4>1 DEF TypeOK
      <4>4. lastWakeup < Infinite
        <5>1. lastWakeup \in Nat /\ MaxOf(expires[adding[t]], 1) \in Nat
          <6>1. lastWakeup \in Nat
            BY <1>1, InfiniteIsLarge DEF TypeOK
          <6> QED BY <4>3, <6>1, MaxOfType
        <5> QED BY <3>2, <4>2, <5>1, InfiniteIsLarge
      <4> QED BY <1>1, <2>1, <3>2, <4>4, InfiniteIsLarge DEF ArmedInv, Armed, TypeOK
    <3> QED BY <1>4, <3>1, <3>2, InsertFacts
  <2> QED BY <1>1, <2>1, <2>2 DEF ArmedInv
<1>5. ASSUME NEW t \in Threads, SetTime(t) PROVE ArmedInv'
  BY <1>1, <1>5 DEF SetTime, timerVars, loopVars, ArmedInv, Armed
<1>6. ASSUME NEW t \in Threads, NEW i \in Ids, Cancel(t, i) PROVE ArmedInv'
  BY <1>1, <1>6 DEF Cancel, chanVars, loopVars, ArmedInv, Armed
<1>7. CASE HandleEvents \/ Read
  BY <1>1, <1>7 DEF HandleEvents, Read, timerVars, ArmedInv
<1>8. CASE ResetWakeup
  BY <1>1, <1>8, InfiniteIsLarge DEF ResetWakeup, timerVars, ArmedInv
<1>9. CASE EnterProcess \/ StartCallback
  BY <1>1, <1>9 DEF EnterProcess, StartCallback, timerVars, chanVars, ArmedInv, Armed
<1>10. ASSUME NEW i \in Ids, PopDue(i) PROVE ArmedInv'
  BY <1>1, <1>10 DEF PopDue, chanVars, ArmedInv, Armed
<1>11. CASE EndCallback
  <2>1. current \in Ids
    BY <1>1, <1>11 DEF EndCallback, LockInv
  <2>2. interval[current] < Infinite
    BY <1>1, <2>1, InfiniteAssumption, InfiniteIsLarge DEF TypeOK
  <2>3. \A i \in Ids : expires'[i] < Infinite
    BY <1>1, <1>11, <2>1, <2>2 DEF EndCallback, ArmedInv, TypeOK
  <2> QED BY <1>1, <1>11, <2>3 DEF EndCallback, chanVars, ArmedInv, Armed
<1>12. CASE EndProcess
  <2>1. at = "pop" /\ at' = "wait" /\ UNCHANGED <<expires, heap, usec>>
    BY <1>12 DEF EndProcess, timerVars
  <2>2. CASE UNCHANGED chanVars /\ heap = {}
    BY <1>1, <2>1, <2>2 DEF chanVars, ArmedInv, Armed
  <2>3. ASSUME NEW top \in heap,
               IF Earlier(expires[top])
               THEN lastWakeup' = MaxOf(expires[top], 1) /\ fd' = MaxOf(expires[top], 1)
               ELSE UNCHANGED chanVars
        PROVE  ArmedInv'
    <3>1. top \in Ids /\ expires[top] \in Nat \cup {Off}
      BY <1>1 DEF TypeOK
    <3>2. MaxOf(expires[top], 1) < Infinite /\ MaxOf(expires[top], 1) \in Nat
      BY <1>1, <3>1, MaxOfType, InfiniteIsLarge DEF MaxOf, ArmedInv
    <3>3. CASE Earlier(expires[top])
      <4>1. fd' # Off /\ lastWakeup' < Infinite
        BY <2>3, <3>2, <3>3 DEF Off
      <4> QED BY <1>1, <2>1, <4>1 DEF ArmedInv, Armed
    <3>4. CASE ~Earlier(expires[top])
      <4>1. lastWakeup < Infinite
        BY <1>1, <3>2, <3>4, InfiniteIsLarge DEF Earlier, TypeOK
      <4> QED BY <1>1, <2>1, <2>3, <3>4, <4>1 DEF chanVars, ArmedInv, Armed
    <3> QED BY <3>3, <3>4
  <2> QED BY <1>12, <2>2, <2>3 DEF EndProcess
<1> QED BY <1>2, <1>3, <1>4, <1>5, <1>6, <1>7, <1>8, <1>9, <1>10, <1>11, <1>12
        DEF Next, LoopStep, AddStep

LEMMA OnceStep == ASSUME IInv, Next PROVE OnceInv'
<1>1. TypeOK /\ LockInv /\ OnceInv
  BY DEF IInv, TimersAreQueued
<1>2. Loop \in Threads /\ None \notin Ids /\ counter \in Nat
  BY <1>1, MaxTimersAssumption DEF Threads, Ids, TypeOK
<1>3. CASE Tick
  BY <1>1, <1>3 DEF Tick, timerVars, loopVars, OnceInv
<1>4. ASSUME NEW t \in Threads, BeginAdd(t) PROVE OnceInv'
  <2>1. /\ counter' = counter + 1 /\ counter' \in Ids
        /\ adding' = [adding EXCEPT ![t] = counter']
        /\ UNCHANGED <<heap, usec, at, current, runs>>
    BY <1>1, <1>4, <1>2, MaxTimersAssumption DEF BeginAdd, loopVars, TypeOK, Ids
  <2>2. counter' \notin heap /\ counter' # current /\ runs[counter'] = 0
    BY <1>1, <1>2, <2>1 DEF OnceInv
  <2>3. \A s \in Threads : adding[s] # counter'
    BY <1>1, <1>2, <2>1 DEF OnceInv, TypeOK, Ids
  <2>4. \A i \in Ids : i # counter' => interval'[i] = interval[i]
    BY <1>1, <1>4, <2>1 DEF BeginAdd, TypeOK
  <2>5. \A s \in Threads : adding'[s] = IF s = t THEN counter' ELSE adding[s]
    BY <1>1, <2>1 DEF TypeOK
  <2>6. \A i \in Ids : i > counter' => i > counter
    BY <1>2, <2>1 DEF Ids
  <2>7. \A s \in Threads : adding'[s] # None => adding'[s] <= counter'
    BY <1>1, <1>2, <2>1, <2>5 DEF OnceInv, TypeOK, Ids
  <2>8. \A i \in Ids : interval'[i] = 0 /\ runs'[i] >= 1 =>
          runs'[i] = 1 /\ i \notin heap' /\ (i = current' => at' = "callback")
    BY <1>1, <2>1, <2>2, <2>4 DEF OnceInv
  <2>9. \A s \in Threads : adding'[s] # None /\ usec'[s] = Off =>
          adding'[s] \notin heap' /\ adding'[s] # current' /\ runs'[adding'[s]] = 0
    BY <1>1, <2>1, <2>2, <2>5 DEF OnceInv
  <2>10. \A r, s \in Threads : adding'[r] = adding'[s] /\ adding'[r] # None => r = s
    BY <1>1, <2>3, <2>5 DEF OnceInv
  <2> QED BY <1>1, <2>1, <2>6, <2>7, <2>8, <2>9, <2>10 DEF OnceInv
<1>5. ASSUME NEW t \in Threads, Insert(t) PROVE OnceInv'
  <2> DEFINE i == adding[t]
  <2>1. /\ i \in Ids /\ i # None /\ usec[t] = Off /\ heap' = heap \cup {i}
        /\ UNCHANGED <<counter, interval, at, current, runs>>
    BY <1>2, <1>5, InsertFacts
  <2>2. i \notin heap /\ i # current /\ runs[i] = 0 /\ i <= counter
    BY <1>1, <2>1 DEF OnceInv
  <2>3. \A s \in Threads : s # t => adding'[s] = adding[s] /\ usec'[s] = usec[s] /\ adding[s] # i
    BY <1>1, <1>5, <2>1, InsertFacts DEF OnceInv, TypeOK
  <2>4. adding'[t] = None \/ (adding'[t] = i /\ usec'[t] # Off)
    <3>1. lastWakeup' \in Nat => lastWakeup' # Off
      BY DEF Off
    <3> QED BY <1>1, <1>5, <3>1, InsertFacts DEF TypeOK
  <2>5. \A j \in Ids : j > counter' => j \notin heap' /\ j # current' /\ runs'[j] = 0
    BY <1>1, <1>2, <2>1, <2>2 DEF OnceInv, Ids
  <2>6. \A s \in Threads : adding'[s] # None => adding'[s] <= counter'
    BY <1>1, <2>1, <2>2, <2>3, <2>4 DEF OnceInv
  <2>7. \A s \in Threads : adding'[s] # None /\ usec'[s] = Off =>
          adding'[s] \notin heap' /\ adding'[s] # current' /\ runs'[adding'[s]] = 0
    BY <1>1, <2>1, <2>3, <2>4 DEF OnceInv
  <2>8. \A r, s \in Threads : adding'[r] = adding'[s] /\ adding'[r] # None => r = s
    BY <1>1, <2>3, <2>4 DEF OnceInv
  <2>9. \A j \in Ids : interval'[j] = 0 /\ runs'[j] >= 1 =>
          runs'[j] = 1 /\ j \notin heap' /\ (j = current' => at' = "callback")
    BY <1>1, <2>1, <2>2 DEF OnceInv
  <2>10. current' \notin heap'
    BY <1>1, <2>1, <2>2 DEF OnceInv
  <2> QED BY <2>5, <2>6, <2>7, <2>8, <2>9, <2>10 DEF OnceInv
<1>6. ASSUME NEW t \in Threads, SetTime(t) PROVE OnceInv'
  <2>1. UNCHANGED <<counter, interval, heap, at, current, runs>>
    BY <1>6 DEF SetTime, timerVars, loopVars
  <2>2. \A s \in Threads : adding'[s] = None \/ (adding'[s] = adding[s] /\ usec'[s] = usec[s])
    BY <1>1, <1>6 DEF SetTime, TypeOK
  <2> QED BY <1>1, <2>1, <2>2 DEF OnceInv
<1>7. ASSUME NEW t \in Threads, NEW i \in Ids, Cancel(t, i) PROVE OnceInv'
  BY <1>1, <1>7 DEF Cancel, loopVars, OnceInv
<1>8. CASE HandleEvents \/ Read \/ ResetWakeup \/ EnterProcess \/ EndProcess
  BY <1>1, <1>8 DEF HandleEvents, Read, ResetWakeup, EnterProcess, EndProcess, timerVars, OnceInv
<1>9. ASSUME NEW i \in Ids, PopDue(i) PROVE OnceInv'
  <2>1. i \in heap /\ heap' = heap \ {i} /\ at = "pop" /\ UNCHANGED <<counter, interval, adding, usec, runs>>
    BY <1>9 DEF PopDue
  <2>2. current' = i \/ UNCHANGED <<at, current>>
    BY <1>9 DEF PopDue
  <2>3. i <= counter /\ \A t \in Threads : adding[t] # None /\ usec[t] = Off => adding[t] # i
    BY <1>1, <1>2, <2>1 DEF OnceInv, Ids
  <2>4. ~(interval[i] = 0 /\ runs[i] >= 1)
    BY <1>1, <2>1 DEF OnceInv
  <2> QED BY <1>1, <1>2, <2>1, <2>2, <2>3, <2>4 DEF OnceInv, Ids
<1>10. CASE StartCallback
  <2>1. /\ at = "call" /\ at' = "callback" /\ current \in Ids
        /\ UNCHANGED <<counter, interval, heap, adding, usec, current>>
    BY <1>1, <1>10 DEF StartCallback, timerVars, LockInv
  <2>2. \A i \in Ids : i # current => runs'[i] = runs[i]
    BY <1>1, <1>10 DEF StartCallback, TypeOK
  <2>3. interval[current] = 0 => runs'[current] = 1
    <3>1. SUFFICES ASSUME interval[current] = 0 PROVE runs'[current] = 1
      OBVIOUS
    <3>2. ~(runs[current] >= 1) /\ runs[current] \in 0 .. 2
      BY <1>1, <2>1, <3>1 DEF OnceInv, TypeOK
    <3>3. runs'[current] = IF runs[current] < 2 THEN runs[current] + 1 ELSE runs[current]
      BY <1>1, <1>10, <2>1 DEF StartCallback, TypeOK
    <3> QED BY <3>2, <3>3
  <2>4. current \notin heap /\ ~(current > counter)
    BY <1>1, <2>1 DEF OnceInv
  <2>5. \A t \in Threads : adding[t] # None /\ usec[t] = Off => adding[t] # current /\ runs'[adding[t]] = 0
    <3>1. TAKE t \in Threads
    <3>2. HAVE adding[t] # None /\ usec[t] = Off
    <3>3. adding[t] # current /\ adding[t] \in Ids /\ runs[adding[t]] = 0
      BY <1>1, <3>2 DEF OnceInv, TypeOK
    <3> QED BY <2>2, <3>3
  <2>6. \A i \in Ids : i > counter => i # current /\ runs'[i] = 0
    BY <1>1, <2>2, <2>4 DEF OnceInv
  <2>7. \A i \in Ids : interval[i] = 0 /\ runs'[i] >= 1 => runs'[i] = 1 /\ i \notin heap
    BY <1>1, <2>2, <2>3, <2>4 DEF OnceInv
  <2> QED BY <1>1, <2>1, <2>4, <2>5, <2>6, <2>7 DEF OnceInv
<1>11. CASE EndCallback
  <2>1. /\ at = "callback" /\ current \in Ids /\ current' = None
        /\ UNCHANGED <<counter, interval, adding, usec, runs>>
    BY <1>1, <1>11 DEF EndCallback, LockInv
  <2>2. heap' = heap \/ (heap' = heap \cup {current} /\ interval[current] # 0)
    BY <1>11 DEF EndCallback
  <2>3. ~(current > counter) /\ \A t \in Threads : adding[t] # None /\ usec[t] = Off => adding[t] # current
    BY <1>1, <2>1 DEF OnceInv
  <2>4. heap' \subseteq Ids
    BY <1>1, <2>1, <2>2 DEF TypeOK
  <2>5. current' \notin heap' /\ \A i \in Ids : i # current'
    BY <1>2, <2>1, <2>4
  <2>6. \A t \in Threads : adding[t] # None => adding[t] # current'
    BY <2>1
  <2> QED BY <1>1, <2>1, <2>2, <2>3, <2>5, <2>6 DEF OnceInv
<1> QED BY <1>3, <1>4, <1>5, <1>6, <1>7, <1>8, <1>9, <1>10, <1>11 DEF Next, LoopStep, AddStep

LEMMA NextIInv == IInv /\ [Next]_vars => IInv'
<1>1. ASSUME IInv, Next PROVE IInv'
  BY <1>1, QueuedStep, LockStep, ArmedStep, OnceStep DEF IInv
<1>2. ASSUME IInv, UNCHANGED vars PROVE IInv'
  <2> USE <1>2 DEF vars, timerVars, chanVars, loopVars
  <2>1. TimersAreQueued'
    BY DEF IInv, TimersAreQueued, TypeOK
  <2>2. LockInv' /\ ArmedInv'
    BY DEF IInv, LockInv, ArmedInv, Armed
  <2>3. OnceInv'
    BY DEF IInv, OnceInv
  <2> QED BY <2>1, <2>2, <2>3 DEF IInv
<1> QED BY <1>1, <1>2

LEMMA Invariance == Spec => []IInv
  BY InitIInv, NextIInv, PTL DEF Spec

-----------------------------------------------------------------------------

\* A timer in table_ has its entry in the heap or is the one that Process runs,
\* whatever Add, Cancel and Process do to each other around mu_.
THEOREM NoTimerIsStranded == Spec => []TimersAreQueued
<1>1. IInv => TimersAreQueued
  BY DEF IInv
<1> QED BY <1>1, Invariance, PTL

\* The timerfd is armed or has rung whenever the loop waits over a heap that
\* holds a timer: no race of WakeUpAfter with HandleEvents loses the wake-up.
THEOREM WakeUpIsSet == Spec => []AlwaysArmed
<1>1. ASSUME IInv, at = "wait", \A t \in Threads : adding[t] = None, heap # {}
      PROVE  readable \/ fd # Off
  <2>1. Armed
    BY <1>1 DEF IInv, ArmedInv
  <2>2. \A t \in Threads : usec[t] = Off
    BY <1>1 DEF IInv, LockInv
  <2> QED BY <2>1, <2>2 DEF Armed
<1>2. IInv => AlwaysArmed
  BY <1>1 DEF AlwaysArmed
<1> QED BY <1>2, Invariance, PTL

\* The callback of a ScheduleAfter never starts a second time.
THEOREM NeverTwice == Spec => []OnceRunsOnce
<1>1. ASSUME IInv, NEW i \in Ids, interval[i] = 0 PROVE runs[i] <= 1
  <2>1. runs[i] \in 0 .. 2 /\ (runs[i] >= 1 => runs[i] = 1)
    BY <1>1 DEF IInv, TimersAreQueued, TypeOK, OnceInv
  <2> QED BY <2>1
<1>2. IInv => OnceRunsOnce
  BY <1>1 DEF OnceRunsOnce
<1> QED BY <1>2, Invariance, PTL
=============================================================================

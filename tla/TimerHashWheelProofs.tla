------------------------- MODULE TimerHashWheelProofs -------------------------
(***************************************************************************)
(* Proofs about TimerHashWheel, for any number of threads, timers and       *)
(* buckets and any delays and intervals.                                    *)
(***************************************************************************)
EXTENDS TimerHashWheel, SequenceTheorems, TLAPS

Scanning == at \in {"scan", "callback"}

\* Where a thread is in Add, its timer and the alarm it has to set; the loop
\* thread is inside Add only in a callback.
AddInv ==
  /\ \A t \in Threads : adding[t] # None <=> pc[t] \in {"bucket", "wake"}
  /\ \A t \in Threads : usec[t] # Off <=> pc[t] = "settime" \/ (t = Loop /\ at = "settime")
  /\ pc[Loop] # "idle" => at = "callback"

\* Each timer is added once, so that it is never in a bucket twice, nor in a
\* bucket and in the batch that Process holds.
OnceInv ==
  /\ \A i \in wheel \cup entries \cup table : i <= counter
  /\ \A t \in Threads : adding[t] # None => adding[t] <= counter
  /\ \A s, t \in Threads : adding[s] = adding[t] /\ adding[s] # None => s = t
  /\ \A t \in Threads : pc[t] = "bucket" => adding[t] \notin wheel \cup entries
  /\ wheel \cap entries = {}

\* Only the timer of an Add that has not reached its bucket has no entry.
QueuedInv ==
  \A i \in table :
    i \in wheel \cup entries \/ \E t \in Threads : adding[t] = i /\ pc[t] = "bucket"

\* The timerfd will ring: it has, it is armed, or somebody is about to arm it.
Armed == readable \/ fd # Off \/ \E t \in Threads : usec[t] # Off

\* last_wakeup_us_ below its maximum stands for an alarm set since BeginProcess.
ArmedInv ==
  /\ at = "wait" => Armed
  /\ Scanning /\ lastWakeup < Infinite => Armed

\* Bucket b is in the sequence s of buckets.
Visits(s, b) == \E k \in 1 .. Len(s) : s[k] = b

\* A timer of a tick that has passed is in a bucket that is still to be visited.
OverdueInv ==
  /\ ~Scanning => \A i \in wheel : due[i] >= last \/ i \in stalled
  /\ Scanning =>
       \A i \in wheel :
         due[i] >= time \/ i \in stalled \/ Visits(visit, Bucket(due[i]))

\* Unless the range wraps, no bucket after the present one is visited and the
\* batch holds no timer of a later tick.
EarlyInv ==
  /\ ~Scanning => entries = {}
  /\ Scanning /\ ~Wraps(last, time) =>
       /\ \A k \in 1 .. Len(visit) : visit[k] <= Bucket(time)
       /\ \A i \in entries : due[i] <= time

IInv == TypeOK /\ AddInv /\ OnceInv /\ QueuedInv /\ ArmedInv /\ OverdueInv /\ EarlyInv

-----------------------------------------------------------------------------
(* Buckets and rounds.                                                      *)

\* A tick is its rounds and its bucket.
LEMMA DivMod ==
  ASSUME NEW n \in Nat
  PROVE  /\ Rounds(n) \in Nat
         /\ Bucket(n) \in 0 .. Buckets - 1
         /\ n = Buckets * Rounds(n) + Bucket(n)
<1>1. n \in Int /\ Buckets \in Int /\ 0 < Buckets
  BY BucketsAssumption
<1>2. n = Buckets * (n \div Buckets) + (n % Buckets) /\ n % Buckets \in 0 .. Buckets - 1
  BY <1>1
<1>3. n \div Buckets \in Nat
  BY <1>1, SMT
<1> QED BY <1>2, <1>3 DEF Rounds, Bucket

\* A whole round lies between two ticks of different rounds.
LEMMA RoundIsWhole ==
  ASSUME NEW m \in Nat, NEW n \in Nat, m < n
  PROVE  Buckets * m + Buckets <= Buckets * n
<1>1. Buckets \in Nat /\ n - m - 1 \in Nat
  BY BucketsAssumption
<1>2. Buckets * (n - m - 1) \in Nat
  BY <1>1
<1>3. Buckets * n = Buckets * (n - m - 1) + Buckets * m + Buckets
  BY <1>1
<1> QED BY <1>1, <1>2, <1>3

\* Later ticks have no fewer rounds, and later buckets in the same round.
LEMMA RoundsInOrder ==
  ASSUME NEW m \in Nat, NEW n \in Nat, m <= n
  PROVE  /\ Rounds(m) <= Rounds(n)
         /\ Rounds(m) = Rounds(n) => Bucket(m) <= Bucket(n)
<1> DEFINE q == Rounds(m)
           r == Rounds(n)
           a == Bucket(m)
           b == Bucket(n)
<1>1. /\ q \in Nat /\ r \in Nat /\ a \in 0 .. Buckets - 1 /\ b \in 0 .. Buckets - 1
      /\ m = Buckets * q + a /\ n = Buckets * r + b
  BY DivMod
<1>2. Buckets \in Nat /\ Buckets * q \in Nat /\ Buckets * r \in Nat
  BY <1>1, BucketsAssumption
<1>3. r < q => Buckets * r + Buckets <= Buckets * q
  BY <1>1, RoundIsWhole
<1> HIDE DEF q, r, a, b
<1>4. ~(r < q)
  BY <1>1, <1>2, <1>3
<1>5. q = r => a <= b
  BY <1>1, <1>2
<1> QED BY <1>1, <1>4, <1>5 DEF q, r, a, b

\* Two ticks that do not wrap are in the same round, two that are less than a
\* rotation apart in the same round or the next.
LEMMA RoundsOfRange ==
  ASSUME NEW m \in Nat, NEW n \in Nat, m <= n, n - m < Buckets
  PROVE  IF Bucket(m) <= Bucket(n) THEN Rounds(n) = Rounds(m) ELSE Rounds(n) = Rounds(m) + 1
<1> DEFINE q == Rounds(m)
           r == Rounds(n)
           a == Bucket(m)
           b == Bucket(n)
<1>1. /\ q \in Nat /\ r \in Nat /\ a \in 0 .. Buckets - 1 /\ b \in 0 .. Buckets - 1
      /\ m = Buckets * q + a /\ n = Buckets * r + b
      /\ q <= r /\ (q = r => a <= b)
  BY DivMod, RoundsInOrder
<1>2. Buckets \in Nat /\ Buckets * q \in Nat /\ Buckets * r \in Nat
  BY <1>1, BucketsAssumption
<1>3. q < r => Buckets * q + Buckets <= Buckets * r
  BY <1>1, RoundIsWhole
<1>4. q + 1 < r => Buckets * (q + 1) + Buckets <= Buckets * r
  BY <1>1, RoundIsWhole
<1>5. Buckets * (q + 1) = Buckets * q + Buckets
  BY <1>1, <1>2
<1> HIDE DEF q, r, a, b
<1>6. a <= b => r = q
  BY <1>1, <1>2, <1>3
<1>7. ~(a <= b) => r = q + 1
  BY <1>1, <1>2, <1>4, <1>5
<1> QED BY <1>6, <1>7 DEF q, r, a, b

\* What a range holds.
LEMMA RangeFacts ==
  ASSUME NEW a \in 0 .. Buckets - 1, NEW b \in 0 .. Buckets - 1, a <= b
  PROVE  /\ BucketRange(a, b) \in Seq(0 .. Buckets - 1)
         /\ Len(BucketRange(a, b)) = b - a + 1
         /\ \A k \in 1 .. b - a + 1 : BucketRange(a, b)[k] = a + k - 1
         /\ \A x \in a .. b : \E k \in 1 .. Len(BucketRange(a, b)) : BucketRange(a, b)[k] = x
<1>1. Buckets \in Nat /\ b - a + 1 \in Nat
  BY BucketsAssumption
<1>2. BucketRange(a, b) = [k \in 1 .. b - a + 1 |-> a + k - 1]
  BY DEF BucketRange
<1>3. \A k \in 1 .. b - a + 1 : a + k - 1 \in 0 .. Buckets - 1
  BY <1>1
<1>4. BucketRange(a, b) \in Seq(0 .. Buckets - 1) /\ Len(BucketRange(a, b)) = b - a + 1
  BY <1>1, <1>2, <1>3
<1>5. \A k \in 1 .. b - a + 1 : BucketRange(a, b)[k] = a + k - 1
  BY <1>2
<1>6. ASSUME NEW x \in a .. b PROVE \E k \in 1 .. Len(BucketRange(a, b)) : BucketRange(a, b)[k] = x
  <2>1. x - a + 1 \in 1 .. b - a + 1 /\ a + (x - a + 1) - 1 = x
    BY <1>1
  <2> QED BY <1>4, <1>5, <2>1
<1> QED BY <1>4, <1>5, <1>6

\* A bucket of one part of a concatenation is in the whole.
LEMMA InConcat ==
  ASSUME NEW S, NEW s \in Seq(S), NEW t \in Seq(S)
  PROVE  \A x : Visits(s, x) \/ Visits(t, x) => Visits(s \o t, x)
<1>1. Len(s) \in Nat /\ Len(t) \in Nat /\ Len(s \o t) = Len(s) + Len(t)
  BY LenProperties, ConcatProperties
<1>2. \A k \in 1 .. Len(s) + Len(t) : (s \o t)[k] = IF k <= Len(s) THEN s[k] ELSE t[k - Len(s)]
  BY ConcatProperties
<1>3. \A k \in 1 .. Len(s) : (s \o t)[k] = s[k] /\ k \in 1 .. Len(s \o t)
  BY <1>1, <1>2
<1>4. \A k \in 1 .. Len(t) : (s \o t)[Len(s) + k] = t[k] /\ Len(s) + k \in 1 .. Len(s \o t)
  <2>1. TAKE k \in 1 .. Len(t)
  <2>2. /\ Len(s) + k \in 1 .. Len(s) + Len(t)
        /\ ~(Len(s) + k <= Len(s)) /\ (Len(s) + k) - Len(s) = k
    BY <1>1
  <2>3. (s \o t)[Len(s) + k] = t[(Len(s) + k) - Len(s)]
    BY <1>2, <2>2, Zenon
  <2> QED BY <1>1, <2>2, <2>3, Zenon
<1> QED BY <1>3, <1>4, Zenon DEF Visits

\* BucketsBetween visits the bucket of every tick from the last one to the
\* present one, and unless it wraps none after the present one.
LEMMA BetweenFacts ==
  ASSUME NEW m \in Nat, NEW n \in Nat, m <= n
  PROVE  /\ BucketsBetween(m, n) \in Seq(0 .. Buckets - 1)
         /\ \A x \in m .. n : Visits(BucketsBetween(m, n), Bucket(x))
         /\ ~Wraps(m, n) =>
              \A k \in 1 .. Len(BucketsBetween(m, n)) : BucketsBetween(m, n)[k] <= Bucket(n)
<1>1. /\ Buckets \in Nat /\ 0 \in 0 .. Buckets - 1 /\ Buckets - 1 \in 0 .. Buckets - 1
      /\ Bucket(m) \in 0 .. Buckets - 1 /\ Bucket(n) \in 0 .. Buckets - 1
  BY BucketsAssumption, DivMod
<1>2. \A x \in m .. n : x \in Nat /\ Bucket(x) \in 0 .. Buckets - 1
  <2>1. \A x \in m .. n : x \in Nat
    OBVIOUS
  <2> QED BY <2>1, DivMod
<1>3. CASE n - m >= Buckets
  <2>1. BucketsBetween(m, n) = BucketRange(0, Buckets - 1) /\ Wraps(m, n)
    BY <1>3 DEF BucketsBetween, Wraps
  <2>2. /\ BucketRange(0, Buckets - 1) \in Seq(0 .. Buckets - 1)
        /\ \A x \in 0 .. Buckets - 1 :
             \E k \in 1 .. Len(BucketRange(0, Buckets - 1)) : BucketRange(0, Buckets - 1)[k] = x
    <3>1. 0 <= Buckets - 1
      BY <1>1
    <3> QED BY <1>1, <3>1, RangeFacts
  <2> QED BY <1>2, <2>1, <2>2, Zenon DEF Visits
<1>4. ASSUME ~(n - m >= Buckets)
      PROVE  \A x \in m .. n :
               IF Bucket(m) <= Bucket(n) THEN Bucket(x) \in Bucket(m) .. Bucket(n)
               ELSE Bucket(x) \in Bucket(m) .. Buckets - 1 \cup 0 .. Bucket(n)
  <2>1. TAKE x \in m .. n
  <2>2. x \in Nat /\ m <= x /\ x <= n /\ n - m < Buckets /\ Bucket(x) \in 0 .. Buckets - 1
    BY <1>1, <1>2, <1>4
  <2>3. IF Bucket(m) <= Bucket(n) THEN Rounds(n) = Rounds(m) ELSE Rounds(n) = Rounds(m) + 1
    BY <2>2, RoundsOfRange
  <2>4. /\ Rounds(m) <= Rounds(x) /\ (Rounds(m) = Rounds(x) => Bucket(m) <= Bucket(x))
        /\ Rounds(x) <= Rounds(n) /\ (Rounds(x) = Rounds(n) => Bucket(x) <= Bucket(n))
    BY <2>2, RoundsInOrder
  <2>5. Rounds(m) \in Nat /\ Rounds(x) \in Nat /\ Rounds(n) \in Nat
    BY <2>2, DivMod
  <2> QED BY <1>1, <2>2, <2>3, <2>4, <2>5
<1>5. CASE ~(n - m >= Buckets) /\ Bucket(m) <= Bucket(n)
  <2>1. BucketsBetween(m, n) = BucketRange(Bucket(m), Bucket(n))
    BY <1>5 DEF BucketsBetween
  <2>2. /\ BucketRange(Bucket(m), Bucket(n)) \in Seq(0 .. Buckets - 1)
        /\ Len(BucketRange(Bucket(m), Bucket(n))) = Bucket(n) - Bucket(m) + 1
        /\ \A k \in 1 .. Bucket(n) - Bucket(m) + 1 :
             BucketRange(Bucket(m), Bucket(n))[k] = Bucket(m) + k - 1
        /\ \A x \in Bucket(m) .. Bucket(n) :
             \E k \in 1 .. Len(BucketRange(Bucket(m), Bucket(n))) :
               BucketRange(Bucket(m), Bucket(n))[k] = x
    BY <1>1, <1>5, RangeFacts
  <2>3. \A x \in m .. n : Bucket(x) \in Bucket(m) .. Bucket(n)
    BY <1>4, <1>5
  <2>4. \A k \in 1 .. Bucket(n) - Bucket(m) + 1 : Bucket(m) + k - 1 <= Bucket(n)
    BY <1>1
  <2> QED BY <2>1, <2>2, <2>3, <2>4, Zenon DEF Visits
<1>6. CASE ~(n - m >= Buckets) /\ ~(Bucket(m) <= Bucket(n))
  <2> DEFINE s == BucketRange(Bucket(m), Buckets - 1)
             t == BucketRange(0, Bucket(n))
  <2>1. BucketsBetween(m, n) = s \o t
    BY <1>6 DEF BucketsBetween
  <2>2. /\ s \in Seq(0 .. Buckets - 1)
        /\ \A x \in Bucket(m) .. Buckets - 1 : \E k \in 1 .. Len(s) : s[k] = x
    <3>1. Bucket(m) <= Buckets - 1
      BY <1>1
    <3> QED BY <1>1, <3>1, RangeFacts
  <2>3. /\ t \in Seq(0 .. Buckets - 1)
        /\ \A x \in 0 .. Bucket(n) : \E k \in 1 .. Len(t) : t[k] = x
    <3>1. 0 <= Bucket(n)
      BY <1>1
    <3> QED BY <1>1, <3>1, RangeFacts
  <2> HIDE DEF s, t
  <2>4. s \o t \in Seq(0 .. Buckets - 1)
    BY <2>2, <2>3, ConcatProperties
  <2>5. \A x \in m .. n : Visits(s \o t, Bucket(x))
    <3>1. TAKE x \in m .. n
    <3>2. Bucket(x) \in Bucket(m) .. Buckets - 1 \cup 0 .. Bucket(n)
      BY <1>4, <1>6
    <3>3. Visits(s, Bucket(x)) \/ Visits(t, Bucket(x))
      BY <2>2, <2>3, <3>2, Zenon DEF Visits
    <3>4. \A y : Visits(s, y) \/ Visits(t, y) => Visits(s \o t, y)
      BY <2>2, <2>3, InConcat
    <3> QED BY <3>3, <3>4
  <2>6. Wraps(m, n)
    BY <1>1, <1>6 DEF Wraps
  <2> QED BY <2>1, <2>4, <2>5, <2>6, Zenon
<1> QED BY <1>3, <1>5, <1>6

-----------------------------------------------------------------------------
(* The initial states, and what the steps have in common.                   *)

\* The constants, without the value of Infinite.
LEMMA Numbers ==
  /\ Off = -1 /\ Off \notin Nat /\ Min \in Int /\ Min < 0
  /\ Infinite \in Nat /\ Infinite > 1 /\ Min .. Infinite \subseteq Int
  /\ Loop \in Threads /\ Buckets \in Nat /\ Buckets >= 1
  /\ \A i \in Ids : i \in Nat /\ i # None
<1>1. Infinite \in Nat /\ Infinite > 1
  BY SMT DEF Infinite
<1>2. Off = -1 /\ Off \notin Nat /\ Min \in Int /\ Min < 0
  BY SMT DEF Off, Min
<1>3. Min .. Infinite \subseteq Int
  BY <1>1, <1>2
<1>4. Loop \in Threads /\ Buckets \in Nat /\ Buckets >= 1
  BY BucketsAssumption DEF Threads
<1>5. \A i \in Ids : i \in Nat /\ i # None
  BY MaxTimersAssumption DEF Ids
<1> QED BY <1>1, <1>2, <1>3, <1>4, <1>5

LEMMA InitIInv == Init => IInv
<1> SUFFICES ASSUME Init PROVE IInv
  OBVIOUS
<1>1. TypeOK
  <2>1. now \in 0 .. MaxTime /\ time \in 0 .. now /\ last \in 0 .. now
    BY TimeAssumption DEF Init
  <2>2. counter \in 0 .. MaxTimers /\ lastWakeup \in Min .. Infinite
    <3>1. 0 \in Min .. Infinite
      BY Numbers
    <3> QED BY <3>1, MaxTimersAssumption DEF Init
  <2>3. visit \in Seq(0 .. Buckets - 1)
    BY EmptySeq DEF Init
  <2>4. fd \in Nat \cup {Off} /\ readable \in BOOLEAN
    BY DEF Init
  <2> QED BY <2>1, <2>2, <2>3, <2>4 DEF Init, TypeOK
<1>2. AddInv
  BY Numbers DEF Init, AddInv
<1>3. OnceInv /\ QueuedInv
  BY DEF Init, OnceInv, QueuedInv
<1>4. ArmedInv
  BY Numbers DEF Init, ArmedInv, Armed, Scanning
<1>5. OverdueInv /\ EarlyInv
  BY DEF Init, OverdueInv, EarlyInv, Scanning
<1> QED BY <1>1, <1>2, <1>3, <1>4, <1>5 DEF IInv

\* A thread that is about to put its timer into a bucket, or to wake the
\* channel for it, has one, and one about to set an alarm has its delay.
LEMMA AddingFacts ==
  ASSUME TypeOK, AddInv, NEW t \in Threads
  PROVE  /\ pc[t] \in {"bucket", "wake"} => adding[t] \in Ids /\ due[adding[t]] \in Nat
         /\ pc[t] = "settime" => usec[t] \in Nat
         /\ pc[t] \notin {"bucket", "wake"} => adding[t] = None
         /\ at = "settime" => usec[Loop] \in Nat
  BY Numbers DEF TypeOK, AddInv

LEMMA DelayFacts ==
  ASSUME TypeOK, NEW tick \in Nat
  PROVE  /\ now \in Nat /\ time \in Nat /\ last \in Nat
         /\ Delay(tick) \in Nat
         /\ tick <= now + 1 => Delay(tick) <= 1
  BY TimeAssumption DEF TypeOK, Delay, Largest

\* WakeUpAt sets a delay no later than the one last_wakeup_us_ stands for.
LEMMA EarlierFacts ==
  ASSUME TypeOK, NEW t \in Threads, NEW tick \in Nat, Earlier(t, tick)
  PROVE  /\ lastWakeup' \in Min .. Infinite
         /\ usec' \in [Threads -> Nat \cup {Off}]
         /\ usec'[t] \in Nat
         /\ \A s \in Threads : s # t => usec'[s] = usec[s]
<1>1. Delay(tick) \in Nat
  BY DelayFacts
<1>2. Delay(tick) <= lastWakeup /\ lastWakeup' = Delay(tick) /\ usec' = [usec EXCEPT ![t] = Delay(tick)]
  BY DEF Earlier
<1>3. lastWakeup \in Int /\ lastWakeup <= Infinite /\ Min <= 0 /\ Min \in Int /\ Infinite \in Int
  BY Numbers DEF TypeOK
<1>4. Delay(tick) \in Min .. Infinite
  BY <1>1, <1>2, <1>3
<1> QED BY <1>1, <1>2, <1>4 DEF TypeOK

LEMMA SetTimeFacts ==
  ASSUME TypeOK, NEW t \in Threads, usec[t] \in Nat, SetTime(t)
  PROVE  /\ fd' \in Nat /\ readable' = FALSE
         /\ usec' \in [Threads -> Nat \cup {Off}] /\ usec'[t] = Off
         /\ \A s \in Threads : s # t => usec'[s] = usec[s]
         /\ UNCHANGED <<now, lastWakeup>>
<1>1. now \in Nat
  BY TimeAssumption DEF TypeOK
<1> QED BY <1>1 DEF SetTime, TypeOK

-----------------------------------------------------------------------------
(* One lemma for each part of the invariant, one step for each action.      *)

LEMMA TypeStep == ASSUME IInv, Next PROVE TypeOK'
<1> USE DEF clockVars, addVars, loopVars, histVars
<1>1. TypeOK /\ AddInv
  BY DEF IInv
<1>2. now \in Nat /\ time \in Nat /\ last \in Nat /\ time <= now /\ last <= now
  BY <1>1, TimeAssumption DEF TypeOK
<1>3. CASE Tick
  BY <1>1, <1>2, <1>3, TimeAssumption DEF Tick, TypeOK
<1>4. CASE Expire
  BY <1>1, <1>4 DEF Expire, TypeOK
<1>5. ASSUME NEW t \in Threads, BeginAdd(t) PROVE TypeOK'
  <2>1. counter' = counter + 1 /\ counter' \in 0 .. MaxTimers /\ counter' \in Ids
    BY <1>1, <1>5, MaxTimersAssumption DEF BeginAdd, TypeOK, Ids
  <2>2. PICK d \in Delays, v \in Intervals :
          /\ due' = [due EXCEPT ![counter'] = now + d]
          /\ interval' = [interval EXCEPT ![counter'] = v]
    BY <1>5 DEF BeginAdd
  <2>3. due' \in [Ids -> Nat] /\ interval' \in [Ids -> Intervals \cup {Once}]
    <3>1. now + d \in Nat
      BY <1>2, TimeAssumption
    <3> QED BY <1>1, <2>1, <2>2, <3>1 DEF TypeOK
  <2>4. /\ adding' \in [Threads -> Ids \cup {None}] /\ table' \subseteq Ids
        /\ pc' \in [Threads -> {"idle", "bucket", "wake", "settime"}]
    BY <1>1, <1>5, <2>1 DEF BeginAdd, TypeOK
  <2> QED BY <1>1, <1>5, <2>1, <2>3, <2>4 DEF BeginAdd, TypeOK
<1>6. ASSUME NEW t \in Threads, AddToBucket(t) PROVE TypeOK'
  <2>1. adding[t] \in Ids
    BY <1>1, <1>6, AddingFacts DEF AddToBucket
  <2>2. stalled' \subseteq Ids /\ wheel' \subseteq Ids
    BY <1>1, <1>6, <2>1 DEF AddToBucket, TypeOK
  <2>3. pc' \in [Threads -> {"idle", "bucket", "wake", "settime"}]
    BY <1>1, <1>6 DEF AddToBucket, TypeOK
  <2> QED BY <1>1, <1>6, <2>2, <2>3 DEF AddToBucket, TypeOK
<1>7. ASSUME NEW t \in Threads, WakeUp(t) PROVE TypeOK'
  <2>1. due[adding[t]] \in Nat
    BY <1>1, <1>7, AddingFacts DEF WakeUp
  <2>2. lastWakeup' \in Min .. Infinite /\ usec' \in [Threads -> Nat \cup {Off}]
    BY <1>1, <1>7, <2>1, EarlierFacts DEF WakeUp, NotEarlier, TypeOK
  <2>3. /\ pc' \in [Threads -> {"idle", "bucket", "wake", "settime"}]
        /\ adding' \in [Threads -> Ids \cup {None}]
    BY <1>1, <1>7 DEF WakeUp, TypeOK
  <2> QED BY <1>1, <1>7, <2>2, <2>3 DEF WakeUp, TypeOK
<1>8. ASSUME NEW t \in Threads, EndAdd(t) PROVE TypeOK'
  <2>1. usec[t] \in Nat
    BY <1>1, <1>8, AddingFacts DEF EndAdd
  <2>2. /\ fd' \in Nat /\ readable' = FALSE /\ usec' \in [Threads -> Nat \cup {Off}]
        /\ UNCHANGED <<now, lastWakeup>>
    BY <1>1, <1>8, <2>1, SetTimeFacts DEF EndAdd
  <2>3. pc' \in [Threads -> {"idle", "bucket", "wake", "settime"}]
    BY <1>1, <1>8 DEF EndAdd, TypeOK
  <2> QED BY <1>1, <1>8, <2>2, <2>3 DEF EndAdd, TypeOK
<1>9. ASSUME NEW t \in Threads, NEW i \in Ids, Cancel(t, i) PROVE TypeOK'
  BY <1>1, <1>9 DEF Cancel, TypeOK
<1>10. CASE HandleEvents
  <2>1. Min \in Min .. Infinite
    BY Numbers
  <2> QED BY <1>1, <1>10, <2>1 DEF HandleEvents, TypeOK
<1>11. CASE BeginProcess
  <2>1. visit' \in Seq(0 .. Buckets - 1)
    BY <1>2, <1>11, BetweenFacts DEF BeginProcess
  <2>2. lastWakeup' \in Min .. Infinite /\ time' \in 0 .. now'
    BY <1>2, <1>11, Numbers DEF BeginProcess
  <2> QED BY <1>1, <1>11, <2>1, <2>2 DEF BeginProcess, TypeOK
<1>12. CASE Pop
  <2>1. visit' \in Seq(0 .. Buckets - 1)
    <3>1. Tail(visit) \in Seq(0 .. Buckets - 1)
      BY <1>1, <1>12, HeadTailProperties DEF Pop, TypeOK
    <3> QED BY <1>1, <1>12, <3>1 DEF Pop, TypeOK
  <2>2. wheel' \subseteq wheel /\ entries' \subseteq wheel /\ stalled' \subseteq stalled
    BY <1>12 DEF Pop, Ripe
  <2> QED BY <1>1, <1>12, <2>1, <2>2 DEF Pop, TypeOK
<1>13. ASSUME NEW i \in Ids, Skip(i) PROVE TypeOK'
  BY <1>1, <1>13 DEF Skip, TypeOK
<1>14. ASSUME NEW i \in Ids, StartCallback(i) PROVE TypeOK'
  <2>1. due' \in [Ids -> Nat] /\ wheel' \subseteq Ids /\ table' \subseteq Ids
    <3>1. CASE interval[i] = Once
      <4>1. due' = [due EXCEPT ![i] = 0] /\ wheel' = wheel /\ table' = table \ {i}
        BY <1>14, <3>1 DEF StartCallback
      <4> QED BY <1>1, <4>1 DEF TypeOK
    <3>2. CASE interval[i] # Once
      <4>1. time + interval[i] \in Nat
        <5>1. interval[i] \in Nat
          BY <1>1, <3>2, TimeAssumption DEF TypeOK
        <5> QED BY <1>2, <5>1
      <4> QED BY <1>1, <1>14, <3>2, <4>1 DEF StartCallback, TypeOK
    <3> QED BY <3>1, <3>2
  <2>2. spun' \in BOOLEAN /\ ran' \subseteq Ids /\ entries' \subseteq Ids
    BY <1>1, <1>14 DEF StartCallback, TypeOK
  <2> QED BY <1>1, <1>14, <2>1, <2>2 DEF StartCallback, TypeOK
<1>15. CASE EndCallback
  BY <1>1, <1>15 DEF EndCallback, TypeOK
<1>16. CASE EndScan
  <2>1. lastWakeup' \in Min .. Infinite /\ usec' \in [Threads -> Nat \cup {Off}]
    <3>1. time + 1 \in Nat /\ Loop \in Threads
      BY <1>2, Numbers
    <3> QED BY <1>1, <1>16, <3>1, EarlierFacts DEF EndScan, NotEarlier, TypeOK
  <2>2. at' \in {"wait", "settime"}
    BY <1>16 DEF EndScan
  <2> QED BY <1>1, <1>16, <2>1, <2>2 DEF EndScan, TypeOK
<1>17. CASE EndProcess
  <2>1. usec[Loop] \in Nat /\ Loop \in Threads
    BY <1>1, <1>17, AddingFacts, Numbers DEF EndProcess
  <2>2. /\ fd' \in Nat /\ readable' = FALSE /\ usec' \in [Threads -> Nat \cup {Off}]
        /\ UNCHANGED <<now, lastWakeup>>
    BY <1>1, <1>17, <2>1, SetTimeFacts DEF EndProcess
  <2> QED BY <1>1, <1>17, <2>2 DEF EndProcess, TypeOK
<1> QED BY <1>3, <1>4, <1>5, <1>6, <1>7, <1>8, <1>9, <1>10, <1>11, <1>12, <1>13, <1>14,
           <1>15, <1>16, <1>17
        DEF Next, LoopStep, AddStep

LEMMA AddInvStep == ASSUME IInv, Next PROVE AddInv'
<1> USE DEF clockVars, addVars, loopVars, histVars
<1>1. TypeOK /\ AddInv
  BY DEF IInv
<1>2. Loop \in Threads
  BY Numbers
<1>3. CASE Tick \/ Expire
  BY <1>1, <1>3 DEF Tick, Expire, AddInv
<1>4. ASSUME NEW t \in Threads, BeginAdd(t) PROVE AddInv'
  <2>1. counter' # None
    <3>1. counter' \in Ids
      BY <1>1, <1>4, MaxTimersAssumption DEF BeginAdd, TypeOK, Ids
    <3> QED BY <3>1, Numbers
  <2>2. /\ adding' = [adding EXCEPT ![t] = counter'] /\ pc' = [pc EXCEPT ![t] = "bucket"]
        /\ usec' = usec /\ at' = at /\ pc[t] = "idle" /\ (t = Loop => at = "callback")
    BY <1>4 DEF BeginAdd, MayCall
  <2> QED BY <1>1, <2>1, <2>2 DEF AddInv, TypeOK
<1>5. ASSUME NEW t \in Threads, AddToBucket(t) PROVE AddInv'
  <2>1. pc[t] = "bucket" /\ pc' = [pc EXCEPT ![t] = "wake"] /\ UNCHANGED <<adding, usec, at>>
    BY <1>5 DEF AddToBucket
  <2> QED BY <1>1, <2>1 DEF AddInv, TypeOK
<1>6. ASSUME NEW t \in Threads, WakeUp(t) PROVE AddInv'
  <2>1. pc[t] = "wake" /\ adding' = [adding EXCEPT ![t] = None] /\ at' = at
    BY <1>6 DEF WakeUp
  <2>2. CASE Earlier(t, due[adding[t]]) /\ pc' = [pc EXCEPT ![t] = "settime"]
    <3>1. due[adding[t]] \in Nat
      BY <1>1, <2>1, AddingFacts
    <3>2. usec'[t] \in Nat /\ \A s \in Threads : s # t => usec'[s] = usec[s]
      BY <1>1, <2>2, <3>1, EarlierFacts
    <3> QED BY <1>1, <2>1, <2>2, <3>2, Numbers DEF AddInv, TypeOK
  <2>3. CASE NotEarlier(due[adding[t]]) /\ pc' = [pc EXCEPT ![t] = "idle"]
    BY <1>1, <2>1, <2>3 DEF NotEarlier, AddInv, TypeOK
  <2> QED BY <1>6, <2>2, <2>3 DEF WakeUp
<1>7. ASSUME NEW t \in Threads, EndAdd(t) PROVE AddInv'
  <2>1. pc[t] = "settime" /\ pc' = [pc EXCEPT ![t] = "idle"] /\ UNCHANGED <<adding, at>>
    BY <1>7 DEF EndAdd
  <2>2. usec'[t] = Off /\ \A s \in Threads : s # t => usec'[s] = usec[s]
    BY <1>1, <1>7, <2>1, AddingFacts, SetTimeFacts DEF EndAdd
  <2> QED BY <1>1, <2>1, <2>2 DEF AddInv, TypeOK
<1>8. ASSUME NEW t \in Threads, NEW i \in Ids, Cancel(t, i) PROVE AddInv'
  BY <1>1, <1>8 DEF Cancel, AddInv
<1>9. CASE HandleEvents \/ BeginProcess
  BY <1>1, <1>9 DEF HandleEvents, BeginProcess, AddInv
<1>10. CASE Pop \/ EndCallback \/ \E i \in Ids : Skip(i) \/ StartCallback(i)
  <2>1. UNCHANGED <<pc, adding, usec>> /\ (at' = at \/ at' = "callback" \/ pc[Loop] = "idle")
    BY <1>10 DEF Pop, EndCallback, Skip, StartCallback
  <2>2. at # "settime" /\ at' # "settime"
    BY <1>10 DEF Pop, EndCallback, Skip, StartCallback
  <2> QED BY <1>1, <2>1, <2>2 DEF AddInv
<1>11. CASE EndScan
  <2>1. at = "scan" /\ pc[Loop] = "idle" /\ UNCHANGED <<pc, adding>>
    BY <1>1, <1>11 DEF EndScan, AddInv
  <2>2. CASE Earlier(Loop, time + 1) /\ at' = "settime"
    <3>1. time + 1 \in Nat
      BY <1>1, TimeAssumption DEF TypeOK
    <3>2. usec'[Loop] \in Nat /\ \A s \in Threads : s # Loop => usec'[s] = usec[s]
      BY <1>1, <1>2, <2>2, <3>1, EarlierFacts
    <3> QED BY <1>1, <2>1, <2>2, <3>2, Numbers DEF AddInv
  <2>3. CASE NotEarlier(time + 1) /\ at' = "wait"
    BY <1>1, <2>1, <2>3 DEF NotEarlier, AddInv
  <2> QED BY <1>11, <2>2, <2>3 DEF EndScan
<1>12. CASE EndProcess
  <2>1. at = "settime" /\ at' = "wait" /\ UNCHANGED <<pc, adding>> /\ pc[Loop] = "idle"
    BY <1>1, <1>12 DEF EndProcess, AddInv
  <2>2. usec'[Loop] = Off /\ \A s \in Threads : s # Loop => usec'[s] = usec[s]
    BY <1>1, <1>2, <1>12, <2>1, AddingFacts, SetTimeFacts DEF EndProcess
  <2> QED BY <1>1, <2>1, <2>2 DEF AddInv
<1> QED BY <1>3, <1>4, <1>5, <1>6, <1>7, <1>8, <1>9, <1>10, <1>11, <1>12
        DEF Next, LoopStep, AddStep

\* What Pop takes out of the bucket it visits.
LEMMA PopFacts ==
  ASSUME Pop
  PROVE  /\ wheel' = wheel \ entries' /\ entries' \subseteq wheel /\ entries = {}
         /\ stalled' = stalled \ entries'
         /\ \A i \in entries' : Bucket(due[i]) = Head(visit) /\ Rounds(due[i]) <= Rounds(time)
         /\ \/ visit' = visit
            \/ /\ visit' = Tail(visit)
               /\ \A i \in wheel : Bucket(due[i]) = Head(visit) => ~(Rounds(due[i]) <= Rounds(time))
         /\ visit # <<>> /\ at = "scan"
         /\ UNCHANGED <<addVars, due, table, usec, lastWakeup, at, time, last, now, fd, readable>>
  BY DEF Pop, Ripe, clockVars

LEMMA OnceStep == ASSUME IInv, Next PROVE OnceInv'
<1> USE DEF clockVars, addVars, loopVars, histVars
<1>1. TypeOK /\ AddInv /\ OnceInv
  BY DEF IInv
<1>2. \A i \in Ids : i \in Nat /\ i # None
  BY Numbers
<1>3. CASE \/ Tick \/ Expire \/ HandleEvents \/ BeginProcess
           \/ EndCallback \/ EndScan \/ EndProcess
  <2>1. UNCHANGED <<counter, adding, pc, wheel, entries, table>>
    BY <1>3 DEF Tick, Expire, HandleEvents, BeginProcess, EndCallback, EndScan, EndProcess
  <2> QED BY <1>1, <2>1 DEF OnceInv
<1>4. ASSUME NEW t \in Threads, BeginAdd(t) PROVE OnceInv'
  <2>1. /\ counter' = counter + 1 /\ counter \in Nat
        /\ adding' = [adding EXCEPT ![t] = counter'] /\ pc' = [pc EXCEPT ![t] = "bucket"]
        /\ table' = table \cup {counter'} /\ UNCHANGED <<wheel, entries>>
    BY <1>1, <1>4 DEF BeginAdd, TypeOK
  <2>2. \A i \in wheel \cup entries \cup table : i \in Nat /\ i <= counter /\ i # counter'
    BY <1>1, <1>2, <2>1 DEF OnceInv, TypeOK
  <2>3. \A s \in Threads : adding[s] # None =>
          adding[s] \in Nat /\ adding[s] <= counter /\ adding[s] # counter'
    BY <1>1, <1>2, <2>1 DEF OnceInv, TypeOK
  <2>4. \A i \in wheel' \cup entries' \cup table' : i <= counter'
    BY <2>1, <2>2
  <2>5. \A s \in Threads : adding'[s] # None => adding'[s] <= counter'
    BY <1>1, <2>1, <2>3 DEF TypeOK
  <2>6. \A s, u \in Threads : adding'[s] = adding'[u] /\ adding'[s] # None => s = u
    BY <1>1, <2>1, <2>3 DEF OnceInv, TypeOK
  <2>7. \A s \in Threads : pc'[s] = "bucket" => adding'[s] \notin wheel' \cup entries'
    BY <1>1, <2>1, <2>2 DEF OnceInv, TypeOK
  <2> QED BY <1>1, <2>1, <2>4, <2>5, <2>6, <2>7 DEF OnceInv
<1>5. ASSUME NEW t \in Threads, AddToBucket(t) PROVE OnceInv'
  <2>1. /\ pc[t] = "bucket" /\ pc' = [pc EXCEPT ![t] = "wake"] /\ wheel' = wheel \cup {adding[t]}
        /\ UNCHANGED <<counter, adding, entries, table>>
    BY <1>5 DEF AddToBucket
  <2>2. adding[t] # None
    BY <1>1, <2>1 DEF AddInv
  <2>3. \A s \in Threads : pc'[s] = "bucket" => adding'[s] \notin wheel' \cup entries'
    <3>1. TAKE s \in Threads
    <3>2. HAVE pc'[s] = "bucket"
    <3>3. s # t /\ pc[s] = "bucket"
      BY <1>1, <2>1, <3>2 DEF TypeOK
    <3>4. adding[s] # adding[t]
      BY <1>1, <2>2, <3>3 DEF OnceInv
    <3> QED BY <1>1, <2>1, <3>3, <3>4 DEF OnceInv
  <2> QED BY <1>1, <2>1, <2>2, <2>3 DEF OnceInv
<1>6. ASSUME NEW t \in Threads, WakeUp(t) PROVE OnceInv'
  <2>1. /\ adding' = [adding EXCEPT ![t] = None] /\ UNCHANGED <<counter, wheel, entries, table>>
        /\ \A s \in Threads : pc'[s] = "bucket" => pc[s] = "bucket" /\ s # t
    BY <1>1, <1>6 DEF WakeUp, TypeOK
  <2> QED BY <1>1, <2>1 DEF OnceInv, TypeOK
<1>7. ASSUME NEW t \in Threads, EndAdd(t) PROVE OnceInv'
  <2>1. /\ UNCHANGED <<counter, adding, wheel, entries, table>>
        /\ \A s \in Threads : pc'[s] = "bucket" => pc[s] = "bucket"
    BY <1>1, <1>7 DEF EndAdd, TypeOK
  <2> QED BY <1>1, <2>1 DEF OnceInv
<1>8. ASSUME NEW t \in Threads, NEW i \in Ids, Cancel(t, i) PROVE OnceInv'
  BY <1>1, <1>8 DEF Cancel, OnceInv
<1>9. CASE Pop
  <2>1. /\ wheel' = wheel \ entries' /\ entries' \subseteq wheel
        /\ UNCHANGED <<counter, adding, pc, table>>
    BY <1>9, PopFacts
  <2> QED BY <1>1, <2>1 DEF OnceInv
<1>10. ASSUME NEW i \in Ids, Skip(i) PROVE OnceInv'
  BY <1>1, <1>10 DEF Skip, OnceInv
<1>11. ASSUME NEW i \in Ids, StartCallback(i) PROVE OnceInv'
  <2>1. /\ i \in entries /\ entries' = entries \ {i} /\ wheel' \subseteq wheel \cup {i}
        /\ table' \subseteq table /\ UNCHANGED <<counter, adding, pc>>
    BY <1>11 DEF StartCallback
  <2> QED BY <1>1, <2>1 DEF OnceInv
<1> QED BY <1>3, <1>4, <1>5, <1>6, <1>7, <1>8, <1>9, <1>10, <1>11
        DEF Next, LoopStep, AddStep

LEMMA QueuedStep == ASSUME IInv, Next PROVE QueuedInv'
<1> USE DEF clockVars, addVars, loopVars, histVars
<1>1. TypeOK /\ AddInv /\ OnceInv /\ QueuedInv
  BY DEF IInv
<1>2. CASE \/ Tick \/ Expire \/ HandleEvents \/ BeginProcess
           \/ EndCallback \/ EndScan \/ EndProcess
  <2>1. UNCHANGED <<adding, pc, wheel, entries, table>>
    BY <1>2 DEF Tick, Expire, HandleEvents, BeginProcess, EndCallback, EndScan, EndProcess
  <2> QED BY <1>1, <2>1 DEF QueuedInv
<1>3. ASSUME NEW t \in Threads, BeginAdd(t) PROVE QueuedInv'
  <2>1. /\ adding' = [adding EXCEPT ![t] = counter'] /\ pc' = [pc EXCEPT ![t] = "bucket"]
        /\ table' = table \cup {counter'} /\ UNCHANGED <<wheel, entries>> /\ pc[t] = "idle"
    BY <1>3 DEF BeginAdd, MayCall
  <2>2. adding'[t] = counter' /\ pc'[t] = "bucket"
    BY <1>1, <2>1 DEF TypeOK
  <2>3. \A s \in Threads : pc[s] = "bucket" => adding'[s] = adding[s] /\ pc'[s] = "bucket"
    BY <1>1, <2>1 DEF TypeOK
  <2> QED BY <1>1, <2>1, <2>2, <2>3 DEF QueuedInv
<1>4. ASSUME NEW t \in Threads, AddToBucket(t) PROVE QueuedInv'
  <2>1. /\ pc' = [pc EXCEPT ![t] = "wake"] /\ wheel' = wheel \cup {adding[t]}
        /\ UNCHANGED <<adding, entries, table>>
    BY <1>4 DEF AddToBucket
  <2>2. \A s \in Threads : pc[s] = "bucket" => s = t \/ pc'[s] = "bucket"
    BY <1>1, <2>1 DEF TypeOK
  <2> QED BY <1>1, <2>1, <2>2 DEF QueuedInv
<1>5. ASSUME NEW t \in Threads, WakeUp(t) \/ EndAdd(t) PROVE QueuedInv'
  <2>1. UNCHANGED <<wheel, entries, table>>
    BY <1>5 DEF WakeUp, EndAdd
  <2>2. \A s \in Threads : pc[s] = "bucket" => pc'[s] = "bucket" /\ adding'[s] = adding[s]
    BY <1>1, <1>5 DEF WakeUp, EndAdd, TypeOK
  <2> QED BY <1>1, <2>1, <2>2 DEF QueuedInv
<1>6. ASSUME NEW t \in Threads, NEW i \in Ids, Cancel(t, i) PROVE QueuedInv'
  BY <1>1, <1>6 DEF Cancel, QueuedInv
<1>7. CASE Pop
  <2>1. wheel' = wheel \ entries' /\ entries = {} /\ UNCHANGED <<adding, pc, table>>
    BY <1>7, PopFacts
  <2> QED BY <1>1, <2>1 DEF QueuedInv
<1>8. ASSUME NEW i \in Ids, Skip(i) PROVE QueuedInv'
  BY <1>1, <1>8 DEF Skip, QueuedInv
<1>9. ASSUME NEW i \in Ids, StartCallback(i) PROVE QueuedInv'
  <2>1. /\ entries' = entries \ {i} /\ UNCHANGED <<adding, pc>>
        /\ wheel \subseteq wheel' /\ table' \subseteq table /\ (i \in table' => i \in wheel')
    BY <1>9 DEF StartCallback
  <2> QED BY <1>1, <2>1 DEF QueuedInv
<1> QED BY <1>2, <1>3, <1>4, <1>5, <1>6, <1>7, <1>8, <1>9 DEF Next, LoopStep, AddStep

LEMMA ArmedStep == ASSUME IInv, Next PROVE ArmedInv'
<1> USE DEF clockVars, addVars, loopVars, histVars
<1>1. TypeOK /\ AddInv /\ ArmedInv
  BY DEF IInv
<1>2. Loop \in Threads /\ Off \notin Nat
  BY Numbers
<1>3. CASE Tick \/ EndCallback \/ Pop
           \/ (\E t \in Threads : BeginAdd(t) \/ AddToBucket(t))
           \/ (\E i \in Ids : Skip(i) \/ StartCallback(i))
           \/ (\E t \in Threads, i \in Ids : Cancel(t, i))
  <2>1. /\ UNCHANGED <<readable, fd, usec, lastWakeup>>
        /\ (at' = "wait" => at = "wait") /\ (Scanning' => Scanning)
    BY <1>3 DEF Tick, EndCallback, Pop, BeginAdd, AddToBucket, Skip, StartCallback,
           Cancel, Scanning
  <2> QED BY <1>1, <2>1 DEF ArmedInv, Armed
<1>4. CASE Expire
  BY <1>4 DEF Expire, ArmedInv, Armed
<1>5. ASSUME NEW t \in Threads, WakeUp(t) PROVE ArmedInv'
  <2>1. due[adding[t]] \in Nat
    BY <1>1, <1>5, AddingFacts DEF WakeUp
  <2>2. CASE Earlier(t, due[adding[t]])
    <3>1. usec'[t] \in Nat
      BY <1>1, <2>1, <2>2, EarlierFacts
    <3> QED BY <1>2, <3>1 DEF ArmedInv, Armed
  <2>3. CASE NotEarlier(due[adding[t]])
    <3>1. UNCHANGED <<readable, fd, usec, lastWakeup, at>>
      BY <1>5, <2>3 DEF WakeUp, NotEarlier
    <3> QED BY <1>1, <3>1 DEF ArmedInv, Armed, Scanning
  <2> QED BY <1>5, <2>2, <2>3 DEF WakeUp
<1>6. ASSUME NEW t \in Threads, EndAdd(t) PROVE ArmedInv'
  <2>1. fd' \in Nat
    BY <1>1, <1>6, AddingFacts, SetTimeFacts DEF EndAdd
  <2> QED BY <1>2, <2>1 DEF ArmedInv, Armed
<1>7. CASE HandleEvents
  BY <1>7 DEF HandleEvents, ArmedInv, Scanning
<1>8. CASE BeginProcess
  <2>1. at' = "scan" /\ lastWakeup' = Infinite
    BY <1>8 DEF BeginProcess
  <2> QED BY <2>1, Numbers DEF ArmedInv
<1>9. CASE EndScan
  <2>1. at = "scan" /\ UNCHANGED <<readable, fd>>
    BY <1>9 DEF EndScan
  <2>2. CASE at' = "settime"
    BY <2>2 DEF ArmedInv, Scanning
  <2>3. CASE NotEarlier(time + 1) /\ at' = "wait"
    <3>1. lastWakeup < Infinite
      <4>1. time + 1 \in Nat /\ time + 1 <= now + 1
        BY <1>1, TimeAssumption DEF TypeOK
      <4>2. Delay(time + 1) \in Nat /\ Delay(time + 1) <= 1
        BY <1>1, <4>1, DelayFacts
      <4>3. lastWakeup <= Delay(time + 1) /\ lastWakeup \in Int
        BY <1>1, <2>3, Numbers DEF NotEarlier, TypeOK
      <4> QED BY <4>2, <4>3, Numbers
    <3>2. Armed
      BY <1>1, <2>1, <3>1 DEF ArmedInv, Scanning
    <3> QED BY <2>1, <2>3, <3>2 DEF NotEarlier, ArmedInv, Armed, Scanning
  <2> QED BY <1>9, <2>2, <2>3 DEF EndScan
<1>10. CASE EndProcess
  <2>1. fd' \in Nat
    BY <1>1, <1>2, <1>10, AddingFacts, SetTimeFacts DEF EndProcess
  <2> QED BY <1>2, <2>1 DEF ArmedInv, Armed
<1> QED BY <1>3, <1>4, <1>5, <1>6, <1>7, <1>8, <1>9, <1>10 DEF Next, LoopStep, AddStep

\* A timer whose tick has passed and whose bucket is the one visited is ripe.
LEMMA OverdueIsRipe ==
  ASSUME TypeOK, NEW i \in Ids, due[i] < time
  PROVE  Rounds(due[i]) <= Rounds(time)
<1>1. due[i] \in Nat /\ time \in Nat /\ due[i] <= time
  BY TimeAssumption DEF TypeOK
<1> QED BY <1>1, RoundsInOrder

\* The buckets that remain after the first.
LEMMA VisitsTail ==
  ASSUME NEW S, NEW s \in Seq(S), s # <<>>
  PROVE  /\ Tail(s) \in Seq(S)
         /\ \A x : Visits(s, x) => x = Head(s) \/ Visits(Tail(s), x)
         /\ \A k \in 1 .. Len(Tail(s)) : \E j \in 1 .. Len(s) : Tail(s)[k] = s[j]
         /\ \E j \in 1 .. Len(s) : Head(s) = s[j]
<1>1. Len(s) \in Nat /\ Len(s) >= 1
  BY EmptySeq, LenProperties
<1>2. /\ Head(s) = s[1] /\ Tail(s) \in Seq(S) /\ Len(Tail(s)) = Len(s) - 1
      /\ \A k \in 1 .. Len(Tail(s)) : Tail(s)[k] = s[k + 1]
  BY HeadTailProperties
<1>3. ASSUME NEW k \in 1 .. Len(s), k # 1 PROVE s[k] = Tail(s)[k - 1] /\ k - 1 \in 1 .. Len(Tail(s))
  BY <1>1, <1>2, <1>3
<1>4. \A k \in 1 .. Len(Tail(s)) : k + 1 \in 1 .. Len(s)
  BY <1>1, <1>2
<1>5. 1 \in 1 .. Len(s)
  BY <1>1
<1> QED BY <1>2, <1>3, <1>4, <1>5 DEF Visits

\* A step that leaves last_, the present Process and its buckets alone and
\* brings no timer into a bucket unless it is for a later tick or comes from Add.
LEMMA StillOverdue ==
  ASSUME OverdueInv, Scanning' = Scanning, UNCHANGED <<time, last, visit>>,
         \A i \in wheel' :
           \/ i \in wheel /\ due'[i] = due[i] /\ (i \in stalled => i \in stalled')
           \/ i \in stalled' \/ due'[i] >= IF Scanning THEN time ELSE last
  PROVE  OverdueInv'
  BY DEF OverdueInv

LEMMA OverdueStep == ASSUME IInv, Next PROVE OverdueInv'
<1> USE DEF clockVars, addVars, loopVars, histVars
<1>1. TypeOK /\ AddInv /\ OnceInv /\ OverdueInv
  BY DEF IInv
<1>2. /\ now \in Nat /\ time \in Nat /\ last \in Nat /\ last <= now
      /\ \A i \in Ids : due[i] \in Nat
  BY <1>1, TimeAssumption DEF TypeOK
<1>3. CASE Tick \/ Expire \/ HandleEvents \/ EndCallback \/ EndProcess
           \/ (\E t \in Threads : WakeUp(t) \/ EndAdd(t))
           \/ (\E t \in Threads, i \in Ids : Cancel(t, i))
  <2>1. UNCHANGED <<time, last, visit, wheel, due, stalled>> /\ Scanning' = Scanning
    BY <1>3 DEF Tick, Expire, HandleEvents, EndCallback, EndProcess, WakeUp, EndAdd,
           Cancel, Scanning
  <2> QED BY <1>1, <2>1, StillOverdue
<1>4. ASSUME NEW t \in Threads, BeginAdd(t) PROVE OverdueInv'
  <2>1. counter' = counter + 1 /\ UNCHANGED <<wheel, stalled, time, last, visit, at>>
    BY <1>4 DEF BeginAdd
  <2>2. \A i \in wheel : i # counter'
    BY <1>1, <2>1 DEF OnceInv, TypeOK
  <2>3. \A i \in wheel : due'[i] = due[i]
    <3>1. PICK d \in Nat : due' = [due EXCEPT ![counter'] = d]
      <4>1. \A d \in Delays : now + d \in Nat
        BY <1>2, TimeAssumption
      <4> QED BY <1>4, <4>1 DEF BeginAdd
    <3> QED BY <1>1, <2>2, <3>1 DEF TypeOK
  <2> QED BY <1>1, <2>1, <2>3, StillOverdue DEF Scanning
<1>5. ASSUME NEW t \in Threads, AddToBucket(t) PROVE OverdueInv'
  <2>1. /\ wheel' = wheel \cup {adding[t]} /\ UNCHANGED <<due, time, last, visit, at>>
        /\ stalled' = IF due[adding[t]] < Passed THEN stalled \cup {adding[t]} ELSE stalled
    BY <1>5 DEF AddToBucket
  <2>2. due[adding[t]] \in Nat
    BY <1>1, <1>5, AddingFacts DEF AddToBucket
  <2>3. Passed = (IF Scanning THEN time ELSE last) /\ Passed \in Nat
    BY <1>2 DEF Passed, Scanning
  <2>4. adding[t] \in stalled' \/ due[adding[t]] >= Passed
    BY <2>1, <2>2, <2>3
  <2> QED BY <1>1, <2>1, <2>3, <2>4, StillOverdue DEF Scanning
<1>6. CASE BeginProcess
  <2>1. /\ at = "read" /\ at' = "scan" /\ time' = now /\ visit' = BucketsBetween(last, now)
        /\ UNCHANGED <<wheel, due, stalled>>
    BY <1>6 DEF BeginProcess
  <2>2. ASSUME NEW i \in wheel, ~(due[i] >= now), i \notin stalled
        PROVE  Visits(visit', Bucket(due[i]))
    <3>1. due[i] \in last .. now
      <4>1. due[i] >= last /\ due[i] \in Nat
        BY <1>1, <1>2, <2>1, <2>2 DEF OverdueInv, Scanning, TypeOK
      <4> QED BY <1>2, <2>2, <4>1
    <3> QED BY <1>2, <2>1, <3>1, BetweenFacts
  <2> QED BY <2>1, <2>2 DEF OverdueInv, Scanning
<1>7. CASE Pop
  <2>1. /\ wheel' = wheel \ entries' /\ stalled' = stalled \ entries'
        /\ visit # <<>> /\ at = "scan" /\ UNCHANGED <<due, time, last, at>>
    BY <1>7, PopFacts
  <2>2. CASE visit' = visit
    BY <1>1, <2>1, <2>2, StillOverdue DEF Scanning
  <2>3. CASE /\ visit' = Tail(visit)
             /\ \A i \in wheel : Bucket(due[i]) = Head(visit) => ~(Rounds(due[i]) <= Rounds(time))
    <3>1. visit \in Seq(0 .. Buckets - 1)
      BY <1>1 DEF TypeOK
    <3>2. \A x : Visits(visit, x) => x = Head(visit) \/ Visits(visit', x)
      BY <2>1, <2>3, <3>1, VisitsTail
    <3>3. ASSUME NEW i \in wheel', ~(due[i] >= time), i \notin stalled'
          PROVE  Visits(visit', Bucket(due[i]))
      <4>1. i \in wheel /\ i \in Ids /\ i \notin stalled
        BY <1>1, <2>1, <3>3 DEF TypeOK
      <4>2. Rounds(due[i]) <= Rounds(time)
        <5>1. due[i] < time
          BY <1>2, <3>3, <4>1
        <5> QED BY <1>1, <4>1, <5>1, OverdueIsRipe
      <4>3. Visits(visit, Bucket(due[i]))
        BY <1>1, <2>1, <3>3, <4>1 DEF OverdueInv, Scanning
      <4> QED BY <2>3, <3>2, <4>1, <4>2, <4>3
    <3> QED BY <2>1, <3>3 DEF OverdueInv, Scanning
  <2> QED BY <1>7, <2>2, <2>3, PopFacts
<1>8. ASSUME NEW i \in Ids, Skip(i) PROVE OverdueInv'
  <2>1. /\ i \in entries /\ due' = [due EXCEPT ![i] = 0]
        /\ UNCHANGED <<wheel, stalled, time, last, visit, at>>
    BY <1>8 DEF Skip
  <2>2. \A j \in wheel : due'[j] = due[j]
    BY <1>1, <2>1 DEF OnceInv, TypeOK
  <2> QED BY <1>1, <2>1, <2>2, StillOverdue DEF Scanning
<1>9. ASSUME NEW i \in Ids, StartCallback(i) PROVE OverdueInv'
  <2>1. i \in entries /\ Scanning /\ Scanning' /\ UNCHANGED <<stalled, time, last, visit>>
    BY <1>9 DEF StartCallback, Scanning
  <2>2. CASE interval[i] = Once
    <3>1. due' = [due EXCEPT ![i] = 0] /\ wheel' = wheel
      BY <1>9, <2>2 DEF StartCallback
    <3>2. \A j \in wheel : due'[j] = due[j]
      BY <1>1, <2>1, <3>1 DEF OnceInv, TypeOK
    <3> QED BY <1>1, <2>1, <3>1, <3>2, StillOverdue
  <2>3. CASE interval[i] # Once
    <3>1. due' = [due EXCEPT ![i] = time + interval[i]] /\ wheel' = wheel \cup {i}
      BY <1>9, <2>3 DEF StartCallback
    <3>2. interval[i] \in Nat
      BY <1>1, <2>3, TimeAssumption DEF TypeOK
    <3>3. due'[i] >= time
      <4>1. due'[i] = time + interval[i]
        BY <1>1, <3>1 DEF TypeOK
      <4> QED BY <1>2, <3>2, <4>1
    <3>4. \A j \in wheel : due'[j] = due[j]
      BY <1>1, <2>1, <3>1 DEF OnceInv, TypeOK
    <3> QED BY <1>1, <2>1, <3>1, <3>3, <3>4, StillOverdue
  <2> QED BY <2>2, <2>3
<1>10. CASE EndScan
  <2>1. /\ at = "scan" /\ ~Scanning' /\ last' = time /\ visit = <<>>
        /\ UNCHANGED <<wheel, due, stalled>>
    BY <1>10 DEF EndScan, Scanning
  <2>2. \A x : ~Visits(visit, x)
    BY <2>1, EmptySeq DEF Visits
  <2> QED BY <1>1, <2>1, <2>2 DEF OverdueInv, Scanning
<1> QED BY <1>3, <1>4, <1>5, <1>6, <1>7, <1>8, <1>9, <1>10 DEF Next, LoopStep, AddStep

LEMMA EarlyStep == ASSUME IInv, Next PROVE EarlyInv'
<1> USE DEF clockVars, addVars, loopVars, histVars
<1>1. TypeOK /\ OnceInv /\ EarlyInv
  BY DEF IInv
<1>2. /\ now \in Nat /\ time \in Nat /\ last \in Nat /\ last <= now
      /\ \A i \in Ids : due[i] \in Nat
  BY <1>1, TimeAssumption DEF TypeOK
<1>3. CASE Tick \/ Expire \/ HandleEvents \/ EndCallback \/ EndProcess
           \/ (\E t \in Threads : AddToBucket(t) \/ WakeUp(t) \/ EndAdd(t))
           \/ (\E t \in Threads, i \in Ids : Cancel(t, i))
  <2>1. UNCHANGED <<time, last, visit, entries, due>> /\ Scanning' = Scanning
    BY <1>3 DEF Tick, Expire, HandleEvents, EndCallback, EndProcess, AddToBucket, WakeUp, EndAdd,
                Cancel, Scanning
  <2> QED BY <1>1, <2>1 DEF EarlyInv
<1>4. ASSUME NEW t \in Threads, BeginAdd(t) PROVE EarlyInv'
  <2>1. counter' = counter + 1 /\ UNCHANGED <<time, last, visit, entries, at>>
    BY <1>4 DEF BeginAdd
  <2>2. \A i \in entries : i # counter'
    BY <1>1, <2>1 DEF OnceInv, TypeOK
  <2>3. \A i \in entries : due'[i] = due[i]
    BY <1>1, <1>4, <2>2 DEF BeginAdd, TypeOK
  <2> QED BY <1>1, <2>1, <2>3 DEF EarlyInv, Scanning
<1>5. CASE BeginProcess
  <2>1. /\ entries' = {} /\ last' = last /\ time' = now /\ visit' = BucketsBetween(last, now)
    BY <1>1, <1>5 DEF BeginProcess, EarlyInv, Scanning
  <2>2. ~Wraps(last, now) => \A k \in 1 .. Len(visit') : visit'[k] <= Bucket(now)
    BY <1>2, <2>1, BetweenFacts
  <2> QED BY <2>1, <2>2 DEF EarlyInv
<1>6. CASE Pop
  <2>1. /\ at = "scan" /\ visit # <<>> /\ entries' \subseteq wheel
        /\ UNCHANGED <<due, time, last, at>>
        /\ visit' = visit \/ visit' = Tail(visit)
        /\ \A i \in entries' : Bucket(due[i]) = Head(visit) /\ Rounds(due[i]) <= Rounds(time)
    BY <1>6, PopFacts
  <2>2. CASE Wraps(last, time)
    BY <2>1, <2>2 DEF EarlyInv, Scanning
  <2>3. CASE ~Wraps(last, time)
    <3>1. \A k \in 1 .. Len(visit) : visit[k] <= Bucket(time)
      BY <1>1, <2>1, <2>3 DEF EarlyInv, Scanning
    <3>2. /\ \A k \in 1 .. Len(Tail(visit)) : \E j \in 1 .. Len(visit) : Tail(visit)[k] = visit[j]
          /\ \E j \in 1 .. Len(visit) : Head(visit) = visit[j]
      BY <1>1, <2>1, VisitsTail DEF TypeOK
    <3>3. /\ \A k \in 1 .. Len(visit') : visit'[k] <= Bucket(time)
          /\ Head(visit) <= Bucket(time)
      BY <2>1, <3>1, <3>2
    <3>4. ASSUME NEW i \in entries' PROVE due[i] <= time
      <4>1. due[i] \in Nat /\ Bucket(due[i]) <= Bucket(time) /\ Rounds(due[i]) <= Rounds(time)
        BY <1>1, <1>2, <2>1, <3>3 DEF TypeOK
      <4>2. /\ Rounds(due[i]) \in Nat /\ Rounds(time) \in Nat
            /\ Bucket(due[i]) \in 0 .. Buckets - 1 /\ Bucket(time) \in 0 .. Buckets - 1
            /\ due[i] = Buckets * Rounds(due[i]) + Bucket(due[i])
            /\ time = Buckets * Rounds(time) + Bucket(time)
        BY <1>2, <4>1, DivMod
      <4>3. CASE due[i] <= time
        BY <4>3
      <4>4. CASE ~(due[i] <= time)
        <5>1. time <= due[i]
          BY <1>2, <4>1, <4>4
        <5>2. Rounds(time) <= Rounds(due[i])
          BY <1>2, <4>1, <5>1, RoundsInOrder
        <5>3. Rounds(time) = Rounds(due[i])
          BY <4>1, <4>2, <5>2
        <5>4. Buckets * Rounds(time) \in Nat
          BY <4>2, Numbers
        <5>5. Buckets * Rounds(time) = Buckets * Rounds(due[i])
          BY <5>3
        <5>6. Buckets \in Nat
          BY Numbers
        <5> QED BY <1>2, <4>1, <4>2, <4>4, <5>4, <5>5, <5>6
      <4> QED BY <4>3, <4>4
    <3> QED BY <2>1, <2>3, <3>3, <3>4 DEF EarlyInv, Scanning
  <2> QED BY <2>2, <2>3
<1>7. ASSUME NEW i \in Ids, Skip(i) \/ StartCallback(i) PROVE EarlyInv'
  <2>1. /\ entries' = entries \ {i} /\ Scanning /\ Scanning' /\ UNCHANGED <<time, last, visit>>
    BY <1>7 DEF Skip, StartCallback, Scanning
  <2>2. \A j \in entries' : due'[j] = due[j]
    BY <1>1, <1>7, <2>1 DEF Skip, StartCallback, TypeOK
  <2> QED BY <1>1, <2>1, <2>2 DEF EarlyInv
<1>8. CASE EndScan
  <2>1. ~Scanning' /\ entries' = {}
    BY <1>8 DEF EndScan, Scanning
  <2> QED BY <2>1 DEF EarlyInv
<1> QED BY <1>3, <1>4, <1>5, <1>6, <1>7, <1>8 DEF Next, LoopStep, AddStep

-----------------------------------------------------------------------------
(* The theorems.                                                            *)

\* Add, Cancel and Process may be interleaved in any way without leaving IInv.
THEOREM Inductive == Spec => []IInv
<1>1. IInv /\ [Next]_vars => IInv'
  <2> SUFFICES ASSUME IInv, [Next]_vars PROVE IInv'
    OBVIOUS
  <2>1. CASE Next
    BY <2>1, TypeStep, AddInvStep, OnceStep, QueuedStep, ArmedStep, OverdueStep, EarlyStep DEF IInv
  <2>2. CASE UNCHANGED vars
    <3>1. /\ UNCHANGED <<now, fd, readable, counter, interval, pc, adding, due, table, wheel>>
          /\ UNCHANGED <<usec, lastWakeup, at, time, last, visit, entries, ran, spun, stalled>>
      BY <2>2 DEF vars, clockVars, addVars, loopVars, histVars
    <3>2. TypeOK'
      BY <3>1 DEF IInv, TypeOK
    <3>3. AddInv' /\ OnceInv' /\ QueuedInv'
      BY <3>1 DEF IInv, AddInv, OnceInv, QueuedInv
    <3>4. ArmedInv' /\ OverdueInv' /\ EarlyInv'
      BY <3>1 DEF IInv, ArmedInv, Armed, OverdueInv, EarlyInv, Scanning
    <3> QED BY <3>2, <3>3, <3>4 DEF IInv
  <2> QED BY <2>1, <2>2
<1> QED BY InitIInv, <1>1, PTL DEF Spec

\* Although Add has no lock over its steps, no timer is left in table_ without
\* an entry in a bucket, and every variable keeps its type.
THEOREM NoTimerIsStranded == Spec => []TimersAreQueued
<1>1. IInv => TimersAreQueued
  BY DEF IInv, QueuedInv, TimersAreQueued
<1> QED BY Inductive, <1>1, PTL

\* Each Process arms the timerfd again before the loop thread waits, whatever
\* other threads store in last_wakeup_us_ meanwhile: the wheel never stops.
THEOREM TheWheelTurns == Spec => []AlwaysArmed
<1>1. IInv => AlwaysArmed
  BY DEF IInv, ArmedInv, Armed, AlwaysArmed
<1> QED BY Inductive, <1>1, PTL

\* BucketsBetween leaves out no bucket and Bucket::Pop no ripe entry, for any
\* number of buckets and of ticks between two calls of Process.
THEOREM NoTimerIsPassedOver == Spec => []NothingOverdueIsLeft
<1>1. IInv => NothingOverdueIsLeft
  BY DEF IInv, OverdueInv, NothingOverdueIsLeft, Scanning
<1> QED BY Inductive, <1>1, PTL

\* Process runs a timer before its tick only when its range of buckets goes past
\* the end of the wheel.
THEOREM NeverEarlyInOneRound == Spec => EarlyOnlyOnWrap
<1>1. IInv => \A i \in entries \ entries' :
                at' = "callback" /\ due[i] > time => Wraps(last, time)
  <2> SUFFICES ASSUME IInv, NEW i \in entries, due[i] > time PROVE Wraps(last, time)
    OBVIOUS
  <2>1. TypeOK /\ EarlyInv
    BY DEF IInv
  <2>2. due[i] \in Nat /\ time \in Nat
    BY <2>1, TimeAssumption DEF TypeOK
  <2> QED BY <2>1, <2>2 DEF EarlyInv
<1> QED BY Inductive, <1>1, PTL DEF EarlyOnlyOnWrap
=============================================================================

---------------------- MODULE EventQueueFactoryProofs ----------------------
(****************************************************************************)
(* Proofs about the three event queues and their factory, for every finite   *)
(* set of adders, every buffer size and every number of callbacks.           *)
(****************************************************************************)
EXTENDS EventQueueFactory, SequenceTheorems, FiniteSetTheorems, TLAPS

VARIABLE
  pending     \* the callbacks of a FifoTaskQueue

\* What the two queues with a mutex promise, by itself.
Promise == INSTANCE FifoTaskQueue

-----------------------------------------------------------------------------
(****************************************************************************)
(* EventLockFreeQueue.                                                       *)
(****************************************************************************)

\* The loop thread holds no batch and is in no bulk dequeue when it waits.
LoopInv ==
  /\ at # "scan" => scan = {}
  /\ at = "wait" => taken = {}

\* The callbacks of p that are not run yet are exactly the ones between its
\* two counters, and the ones in buf are older than the ones in queue_.
OrderInv ==
  /\ \A p \in Adders : done[p] <= sent[p]
  /\ \A p \in Adders : \A n \in Int :
       <<p, n>> \in taken \cup queue <=> done[p] < n /\ n <= sent[p]
  /\ taken \cap queue = {}
  /\ \A t \in taken, u \in queue : t[1] = u[1] => t[2] < u[2]

\* If the loop thread sleeps, or has found nothing so far and will find nothing
\* in the producers it still has to visit, then a positive size_ has been or is
\* about to be announced on the eventfd.
WakeInv ==
  /\ at \in {"wait", "scan"}
  /\ taken = {}
  /\ \A t \in queue : t[1] \notin scan
  /\ size > 0
  => readable \/ \E p \in Adders : pc[p] = "wake"

IInv ==
  /\ TypeOK
  /\ IsFiniteSet(queue)
  /\ IsFiniteSet(taken)
  /\ LoopInv
  /\ OrderInv
  /\ SizeAccounting
  /\ WakeInv


-----------------------------------------------------------------------------
(* Lemmas about cardinalities.                                              *)

\* Adding a batch to buf adds its size.
LEMMA DisjointUnion ==
  ASSUME NEW S, NEW B, IsFiniteSet(S), IsFiniteSet(B), S \cap B = {}
  PROVE  /\ IsFiniteSet(S \cup B)
         /\ Cardinality(S \cup B) = Cardinality(S) + Cardinality(B)
<1>1. /\ IsFiniteSet(S \cup B)
      /\ Cardinality(S \cup B) = Cardinality(S) + Cardinality(B) - Cardinality(S \cap B)
  BY FS_Union
<1>2. Cardinality(S \cap B) = 0
  BY FS_EmptySet
<1>3. Cardinality(S) \in Nat /\ Cardinality(B) \in Nat
  BY FS_CardinalityType
<1> QED BY <1>1, <1>2, <1>3

\* Taking a batch out of queue_ subtracts its size.
LEMMA SubsetDifference ==
  ASSUME NEW S, NEW B \in SUBSET S, IsFiniteSet(S)
  PROVE  /\ IsFiniteSet(B)
         /\ Cardinality(B) \in Nat
         /\ IsFiniteSet(S \ B)
         /\ Cardinality(S \ B) = Cardinality(S) - Cardinality(B)
<1>1. IsFiniteSet(B) /\ Cardinality(B) \in Nat
  BY FS_Subset, FS_CardinalityType
<1>2. S \cap B = B
  OBVIOUS
<1>3. IsFiniteSet(S \ B) /\ Cardinality(S \ B) = Cardinality(S) - Cardinality(S \cap B)
  BY FS_Difference
<1> QED BY <1>1, <1>2, <1>3

\* The adders that have not counted their callback are finitely many.
LEMMA CountingFinite == IsFiniteSet(Counting) /\ Cardinality(Counting) \in Nat
<1>1. IsFiniteSet(Counting)
  <2>1. Counting \in SUBSET Adders /\ IsFiniteSet(Adders)
    BY AddersAssumption DEF Counting
  <2> QED BY <2>1, FS_Subset
<1> QED BY <1>1, FS_CardinalityType

-----------------------------------------------------------------------------
(* Type correctness.                                                        *)

LEMMA InitIInv == Init => IInv
<1> SUFFICES ASSUME Init PROVE IInv
  OBVIOUS
<1>1. Cardinality({}) = 0 /\ IsFiniteSet({})
  BY FS_EmptySet
<1>2. Counting = {}
  BY DEF Init, Counting
<1>3. TypeOK
  <2>1. Cardinality(taken) <= BatchMax
    BY <1>1, BatchMaxAssumption DEF Init
  <2>2. sent \in [Adders -> 0 .. MaxTasks] /\ done \in [Adders -> 0 .. MaxTasks]
    BY MaxTasksAssumption DEF Init
  <2>3. pc \in [Adders -> {"idle", "count", "wake"}]
    BY DEF Init
  <2>4. /\ queue \subseteq Task /\ taken \subseteq Task /\ scan \subseteq Adders
        /\ at \in {"wait", "scan", "subtract", "run"}
    BY DEF Init
  <2>5. size \in Int
    BY DEF Init
  <2>6. readable \in BOOLEAN
    BY DEF Init
  <2> QED BY <2>1, <2>2, <2>3, <2>4, <2>5, <2>6 DEF TypeOK
<1>6. LoopInv /\ WakeInv
  BY DEF Init, LoopInv, WakeInv
<1>4. OrderInv
  BY DEF Init, OrderInv
<1>5. SizeAccounting
  BY <1>1, <1>2 DEF Init, SizeAccounting, Unsubtracted
<1> QED
  BY <1>1, <1>3, <1>4, <1>5, <1>6 DEF Init, IInv

\* Every step keeps the variables in their types and the sets finite; the
\* interesting part is that a bulk dequeue never overfills buf.
LEMMA TypeStep ==
  ASSUME IInv, [Next]_vars
  PROVE  TypeOK' /\ IsFiniteSet(queue)' /\ IsFiniteSet(taken)'
<1> USE BatchMaxAssumption, MaxTasksAssumption DEF IInv, TypeOK, Task
<1>1. ASSUME NEW p \in Adders, Enqueue(p)
      PROVE TypeOK' /\ IsFiniteSet(queue)' /\ IsFiniteSet(taken)'
  <2>1. IsFiniteSet(queue')
    BY <1>1, FS_AddElement DEF Enqueue
  <2>2. sent[p] + 1 \in 1 .. MaxTasks
    BY <1>1 DEF Enqueue
  <2>3. sent' \in [Adders -> 0 .. MaxTasks] /\ pc' \in [Adders -> {"idle", "count", "wake"}]
    BY <1>1, <2>2 DEF Enqueue
  <2>4. queue' \subseteq Task
    BY <1>1, <2>2 DEF Enqueue
  <2> QED BY <1>1, <2>1, <2>3, <2>4 DEF Enqueue
<1>2. ASSUME NEW p \in Adders, Count(p)
      PROVE TypeOK' /\ IsFiniteSet(queue)' /\ IsFiniteSet(taken)'
  BY <1>2 DEF Count
<1>3. ASSUME NEW p \in Adders, WakeUp(p)
      PROVE TypeOK' /\ IsFiniteSet(queue)' /\ IsFiniteSet(taken)'
  BY <1>3 DEF WakeUp
<1>4. CASE HandleEvents
  BY <1>4 DEF HandleEvents, StartScan
<1>5. ASSUME NEW p \in Adders, Dequeue(p)
      PROVE TypeOK' /\ IsFiniteSet(queue)' /\ IsFiniteSet(taken)'
  <2>1. PICK batch \in SUBSET queue :
          Batch(p, batch) /\ queue' = queue \ batch /\ taken' = taken \cup batch
    BY <1>5 DEF Dequeue
  <2>2. /\ IsFiniteSet(queue')
        /\ IsFiniteSet(batch)
        /\ Cardinality(batch) \in Nat
    BY <2>1, SubsetDifference
  <2>3. /\ IsFiniteSet(taken')
        /\ Cardinality(taken') = Cardinality(taken) + Cardinality(batch)
        /\ Cardinality(taken) \in Nat
    <3>1. taken \cap batch = {}
      BY DEF OrderInv
    <3> QED BY <2>1, <2>2, <3>1, DisjointUnion, FS_CardinalityType
  <2>4. Cardinality(taken') <= BatchMax
    BY <2>1, <2>2, <2>3 DEF Batch
  <2>5. queue' \subseteq Task /\ taken' \subseteq Task
    BY <2>1
  <2>6. UNCHANGED <<sent, done, size, readable, pc, at>> /\ scan' \subseteq Adders
    BY <1>5 DEF Dequeue
  <2> QED BY <2>2, <2>3, <2>4, <2>5, <2>6
<1>6. CASE EndScan
  BY <1>6 DEF EndScan
<1>7. CASE Subtract
  <2>1. Cardinality(taken) \in Nat
    BY FS_CardinalityType
  <2> QED BY <1>7, <2>1 DEF Subtract
<1>8. ASSUME NEW t \in Task, Run(t)
      PROVE TypeOK' /\ IsFiniteSet(queue)' /\ IsFiniteSet(taken)'
  <2>1. /\ IsFiniteSet(taken')
        /\ Cardinality(taken') <= BatchMax
    <3>1. Cardinality(taken) \in Nat /\ IsFiniteSet(taken')
      BY <1>8, FS_CardinalityType, FS_RemoveElement DEF Run
    <3>2. Cardinality(taken') <= Cardinality(taken)
      BY <1>8, FS_Subset DEF Run
    <3>3. Cardinality(taken') \in Nat
      BY <3>1, FS_CardinalityType
    <3> QED BY <3>1, <3>2, <3>3
  <2>2. done' \in [Adders -> 0 .. MaxTasks]
    <3>1. t[1] \in Adders /\ t[2] \in 0 .. MaxTasks
      BY <1>8 DEF Run
    <3> QED BY <1>8, <3>1 DEF Run
  <2>3. at' \in {"scan", "run"} /\ scan' \subseteq Adders
    BY <1>8 DEF Run, StartScan
  <2> QED BY <1>8, <2>1, <2>2, <2>3 DEF Run
<1>9. CASE UNCHANGED vars
  BY <1>9 DEF vars
<1> QED
  BY <1>1, <1>2, <1>3, <1>4, <1>5, <1>6, <1>7, <1>8, <1>9 DEF Next, ProcessStep, AddStep

-----------------------------------------------------------------------------
(* The loop thread's bookkeeping and the order of the callbacks.            *)

LEMMA LoopStep == ASSUME IInv, [Next]_vars PROVE LoopInv'
<1> USE DEF IInv, LoopInv
<1>1. ASSUME NEW p \in Adders, Enqueue(p) \/ AddStep(p) PROVE LoopInv'
  BY <1>1 DEF Enqueue, AddStep, Count, WakeUp
<1>2. CASE HandleEvents
  BY <1>2 DEF HandleEvents, StartScan
<1>3. ASSUME NEW p \in Adders, Dequeue(p) PROVE LoopInv'
  BY <1>3 DEF Dequeue
<1>4. CASE EndScan
  BY <1>4 DEF EndScan
<1>5. CASE Subtract
  BY <1>5 DEF Subtract
<1>6. ASSUME NEW t \in Task, Run(t) PROVE LoopInv'
  BY <1>6 DEF Run, StartScan
<1>7. CASE UNCHANGED vars
  BY <1>7 DEF vars
<1> QED
  BY <1>1, <1>2, <1>3, <1>4, <1>5, <1>6, <1>7 DEF Next, ProcessStep

\* The callback that Run picks is the next one of its adder.
LEMMA RunsNext ==
  ASSUME IInv, NEW t \in Task, Run(t)
  PROVE  /\ t[1] \in Adders
         /\ t = <<t[1], done[t[1]] + 1>>
         /\ done[t[1]] < sent[t[1]]
         /\ done' = [done EXCEPT ![t[1]] = @ + 1]
         /\ t \in taken
<1> DEFINE p == t[1]
           n == done[p] + 1
<1>1. p \in Adders /\ t[2] \in Int /\ t = <<p, t[2]>> /\ t \in taken
  BY DEF Task, Run
<1>2. done[p] \in Int /\ sent[p] \in Int
  BY <1>1 DEF IInv, TypeOK
<1>3. done[p] < t[2] /\ t[2] <= sent[p]
  BY <1>1 DEF IInv, OrderInv
<1>4. <<p, n>> \in taken \cup queue
  BY <1>1, <1>2, <1>3 DEF IInv, OrderInv
<1>5. <<p, n>> \in taken
  <2>1. SUFFICES ASSUME <<p, n>> \in queue PROVE FALSE
    BY <1>4
  <2>2. t[2] < n
    BY <1>1, <2>1 DEF IInv, OrderInv
  <2> QED BY <1>1, <1>2, <1>3, <2>2
<1>6. t[2] <= n
  BY <1>1, <1>5 DEF Run, IsOldest, OfAdder
<1>7. t[2] = n
  BY <1>1, <1>2, <1>3, <1>6
<1>8. done' = [done EXCEPT ![p] = @ + 1]
  BY <1>7 DEF Run
<1> QED BY <1>1, <1>2, <1>3, <1>7, <1>8

LEMMA OrderStep == ASSUME IInv, [Next]_vars PROVE OrderInv'
<1> USE DEF IInv
<1>1. ASSUME NEW p \in Adders, Enqueue(p) PROVE OrderInv'
  <2>1. /\ sent' = [sent EXCEPT ![p] = @ + 1]
        /\ queue' = queue \cup {<<p, sent[p] + 1>>}
        /\ UNCHANGED <<done, taken>>
    BY <1>1 DEF Enqueue
  <2>2. \A q \in Adders : done[q] \in Nat /\ sent[q] \in Nat /\ sent'[q] \in Nat
    BY <2>1 DEF TypeOK
  <2>3. done[p] <= sent[p]
    BY DEF OrderInv
  <2>4. ASSUME NEW q \in Adders, NEW n \in Int
        PROVE  <<q, n>> \in taken' \cup queue' <=> done'[q] < n /\ n <= sent'[q]
    <3>1. CASE q = p
      BY <2>1, <2>2, <2>3, <3>1 DEF OrderInv, TypeOK
    <3>2. CASE q # p
      BY <2>1, <2>2, <3>2 DEF OrderInv, TypeOK
    <3> QED BY <3>1, <3>2
  <2>5. \A t \in taken : t[1] = p => t[2] < sent[p] + 1
    BY <2>2 DEF OrderInv, TypeOK, Task
  <2>6. \A q \in Adders : done'[q] <= sent'[q]
    BY <2>1, <2>2 DEF OrderInv, TypeOK
  <2> QED BY <2>1, <2>2, <2>4, <2>5, <2>6 DEF OrderInv
<1>2. ASSUME NEW p \in Adders, AddStep(p) PROVE OrderInv'
  BY <1>2 DEF AddStep, Count, WakeUp, OrderInv
<1>3. HandleEvents \/ EndScan \/ Subtract => OrderInv'
  BY DEF HandleEvents, EndScan, Subtract, OrderInv
<1>4. ASSUME NEW p \in Adders, Dequeue(p) PROVE OrderInv'
  <2>1. PICK batch \in SUBSET queue :
          Batch(p, batch) /\ queue' = queue \ batch /\ taken' = taken \cup batch
    BY <1>4 DEF Dequeue
  <2>2. UNCHANGED <<sent, done>> /\ taken' \cup queue' = taken \cup queue
    BY <1>4, <2>1 DEF Dequeue
  <2>3. taken' \cap queue' = {}
    BY <2>1 DEF OrderInv
  <2>4. \A t \in taken', u \in queue' : t[1] = u[1] => t[2] < u[2]
    BY <2>1 DEF OrderInv, Batch, OfAdder
  <2> QED BY <2>2, <2>3, <2>4 DEF OrderInv
<1>5. ASSUME NEW t \in Task, Run(t) PROVE OrderInv'
  <2>1. /\ t[1] \in Adders
        /\ t = <<t[1], done[t[1]] + 1>>
        /\ done[t[1]] < sent[t[1]]
        /\ done' = [done EXCEPT ![t[1]] = @ + 1]
        /\ t \in taken
    BY <1>5, RunsNext
  <2>2. /\ taken' = taken \ {t}
        /\ UNCHANGED <<sent, queue>>
    BY <1>5 DEF Run
  <2>3. \A q \in Adders : done[q] \in Nat /\ sent[q] \in Nat /\ done'[q] \in Nat
    BY <2>1, <2>2 DEF TypeOK
  <2>4. ASSUME NEW q \in Adders, NEW n \in Int
        PROVE  <<q, n>> \in taken' \cup queue' <=> done'[q] < n /\ n <= sent'[q]
    <3>1. t \notin queue
      BY <2>1 DEF OrderInv
    <3>2. <<q, n>> \in taken' \cup queue' <=> <<q, n>> \in taken \cup queue /\ <<q, n>> # t
      BY <2>2, <3>1
    <3>3. CASE q = t[1]
      BY <2>1, <2>2, <2>3, <3>2, <3>3 DEF OrderInv, TypeOK
    <3>4. CASE q # t[1]
      BY <2>1, <2>2, <2>3, <3>2, <3>4 DEF OrderInv, TypeOK
    <3> QED BY <3>3, <3>4
  <2>5. taken' \cap queue' = {} /\ \A s \in taken', u \in queue' : s[1] = u[1] =>
        s[2] < u[2]
    BY <2>2 DEF OrderInv
  <2>6. \A q \in Adders : done'[q] <= sent'[q]
    BY <2>1, <2>2, <2>3 DEF OrderInv, TypeOK
  <2> QED BY <2>4, <2>5, <2>6 DEF OrderInv
<1>6. CASE UNCHANGED vars
  BY <1>6 DEF vars, OrderInv
<1> QED
  BY <1>1, <1>2, <1>3, <1>4, <1>5, <1>6 DEF Next, ProcessStep

-----------------------------------------------------------------------------
(* The size, the wake-up and the theorems.                                  *)

LEMMA SizeStep == ASSUME IInv, [Next]_vars PROVE SizeAccounting'
<1> USE DEF IInv
<1>1. /\ Cardinality(queue) \in Nat /\ Cardinality(taken) \in Nat /\ size \in Int
      /\ Cardinality(Counting) \in Nat /\ IsFiniteSet(Counting)
  BY FS_CardinalityType, CountingFinite DEF TypeOK
<1>2. ASSUME NEW p \in Adders, Enqueue(p) PROVE SizeAccounting'
  <2>1. <<p, sent[p] + 1>> \notin queue
    <3>1. sent[p] + 1 \in Int /\ ~(sent[p] + 1 <= sent[p])
      BY DEF TypeOK
    <3> QED BY <3>1 DEF OrderInv
  <2>2. Cardinality(queue') = Cardinality(queue) + 1
    BY <1>2, <2>1, FS_AddElement DEF Enqueue
  <2>3. Counting' = Counting \cup {p} /\ p \notin Counting
    BY <1>2 DEF Enqueue, Counting, TypeOK
  <2>4. Cardinality(Counting') = Cardinality(Counting) + 1
    BY <1>1, <2>3, FS_AddElement
  <2>5. Unsubtracted' = Unsubtracted /\ size' = size
    BY <1>2 DEF Enqueue, Unsubtracted
  <2>6. Cardinality(Unsubtracted) \in Nat
    BY <1>1, FS_EmptySet DEF Unsubtracted
  <2> QED BY <1>1, <2>2, <2>4, <2>5, <2>6 DEF SizeAccounting
<1>3. ASSUME NEW p \in Adders, Count(p) PROVE SizeAccounting'
  <2>1. Counting' = Counting \ {p} /\ p \in Counting
    BY <1>3 DEF Count, Counting, TypeOK
  <2>2. Cardinality(Counting') = Cardinality(Counting) - 1
    BY <1>1, <2>1, FS_RemoveElement
  <2>3. Unsubtracted' = Unsubtracted /\ size' = size + 1 /\ queue' = queue
    BY <1>3 DEF Count, Unsubtracted
  <2>4. Cardinality(Unsubtracted) \in Nat
    BY <1>1, FS_EmptySet DEF Unsubtracted
  <2> QED BY <1>1, <2>2, <2>3, <2>4 DEF SizeAccounting
<1>4. ASSUME NEW p \in Adders, WakeUp(p) PROVE SizeAccounting'
  <2>1. Counting' = Counting
    BY <1>4 DEF WakeUp, Counting, TypeOK
  <2>2. Unsubtracted' = Unsubtracted /\ size' = size /\ queue' = queue
    BY <1>4 DEF WakeUp, Unsubtracted
  <2> QED BY <2>1, <2>2 DEF SizeAccounting
<1>5. CASE HandleEvents
  <2>1. Counting' = Counting /\ size' = size /\ queue' = queue
    BY <1>5 DEF HandleEvents, Counting
  <2>2. Unsubtracted = {} /\ Unsubtracted' = {}
    BY <1>5 DEF HandleEvents, StartScan, LoopInv, Unsubtracted
  <2> QED BY <2>1, <2>2 DEF SizeAccounting
<1>6. ASSUME NEW p \in Adders, Dequeue(p) PROVE SizeAccounting'
  <2>1. PICK batch \in SUBSET queue :
          Batch(p, batch) /\ queue' = queue \ batch /\ taken' = taken \cup batch
    BY <1>6 DEF Dequeue
  <2>2. /\ Cardinality(queue') = Cardinality(queue) - Cardinality(batch)
        /\ IsFiniteSet(batch)
        /\ Cardinality(batch) \in Nat
    BY <2>1, SubsetDifference
  <2>3. taken \cap batch = {}
    BY DEF OrderInv
  <2>4. Cardinality(taken') = Cardinality(taken) + Cardinality(batch)
    BY <2>1, <2>2, <2>3, DisjointUnion
  <2>5. Counting' = Counting /\ size' = size /\ Unsubtracted = taken /\ Unsubtracted' = taken'
    BY <1>6 DEF Dequeue, Counting, Unsubtracted
  <2> QED BY <1>1, <2>2, <2>4, <2>5 DEF SizeAccounting
<1>7. CASE EndScan
  <2>1. Counting' = Counting /\ size' = size /\ queue' = queue
    BY <1>7 DEF EndScan, Counting
  <2>2. Unsubtracted' = Unsubtracted
    BY <1>7 DEF EndScan, Unsubtracted
  <2> QED BY <2>1, <2>2 DEF SizeAccounting
<1>8. CASE Subtract
  <2>1. Counting' = Counting /\ size' = size - Cardinality(taken) /\ queue' = queue
    BY <1>8 DEF Subtract, Counting
  <2>2. Unsubtracted = taken /\ Unsubtracted' = {}
    BY <1>8 DEF Subtract, Unsubtracted
  <2>3. Cardinality({}) = 0
    BY FS_EmptySet
  <2> QED BY <1>1, <2>1, <2>2, <2>3 DEF SizeAccounting
<1>9. ASSUME NEW t \in Task, Run(t) PROVE SizeAccounting'
  <2>1. Counting' = Counting /\ size' = size /\ queue' = queue
    BY <1>9 DEF Run, Counting
  <2>2. Unsubtracted = {} /\ Unsubtracted' = {}
    BY <1>9 DEF Run, StartScan, Unsubtracted
  <2> QED BY <2>1, <2>2 DEF SizeAccounting
<1>10. CASE UNCHANGED vars
  BY <1>10 DEF vars, SizeAccounting, Unsubtracted, Counting
<1> QED
  BY <1>2, <1>3, <1>4, <1>5, <1>6, <1>7, <1>8, <1>9, <1>10
  DEF Next, ProcessStep, AddStep

\* A bulk dequeue that starts with nothing taken starts in WakeInv: either
\* something is queued, by a producer it will visit, or size_ is not positive.
LEMMA StartScanWake ==
  ASSUME IInv, [Next]_vars, StartScan, UNCHANGED <<sent, queue, pc>>, taken' = {}
  PROVE  WakeInv'
<1>1. CASE queue = {}
  <2>1. SizeAccounting' /\ TypeOK'
    BY SizeStep, TypeStep
  <2>2. Counting' = Counting /\ Unsubtracted' = {}
    BY DEF Counting, Unsubtracted
  <2>3. Cardinality({}) = 0 /\ Cardinality(Counting) \in Nat
    BY FS_EmptySet, CountingFinite
  <2>4. size' = Cardinality(queue') + Cardinality(Unsubtracted') - Cardinality(Counting')
    BY <2>1 DEF SizeAccounting
  <2>5. size' = 0 - Cardinality(Counting)
    BY <1>1, <2>2, <2>3, <2>4
  <2> QED BY <2>3, <2>5 DEF WakeInv
<1>2. CASE queue # {}
  <2>1. \A t \in queue : t[1] \in Adders /\ t[2] \in 1 .. MaxTasks /\ t = <<t[1], t[2]>>
    BY <1>2 DEF IInv, TypeOK, Task
  <2>2. \A t \in queue : sent[t[1]] > 0
    BY <2>1 DEF IInv, OrderInv, TypeOK
  <2>3. \A t \in queue' : t[1] \in scan'
    BY <2>1, <2>2 DEF StartScan
  <2> QED BY <1>2, <2>3 DEF WakeInv
<1> QED BY <1>1, <1>2

LEMMA WakeStep == ASSUME IInv, [Next]_vars PROVE WakeInv'
<1> USE DEF IInv
<1>1. ASSUME NEW p \in Adders, Enqueue(p) PROVE WakeInv'
  <2>1. queue \subseteq queue' /\ UNCHANGED <<taken, size, readable, at, scan>>
    BY <1>1 DEF Enqueue
  <2>2. \A q \in Adders : pc[q] = "wake" => pc'[q] = "wake"
    BY <1>1 DEF Enqueue, TypeOK
  <2> QED BY <2>1, <2>2 DEF WakeInv
<1>2. ASSUME NEW p \in Adders, Count(p) PROVE WakeInv'
  <2>1. UNCHANGED <<queue, taken, readable, at, scan>>
    BY <1>2 DEF Count
  <2>2. CASE size = 0
    BY <1>2, <2>2 DEF Count, TypeOK, WakeInv
  <2>3. CASE size # 0
    <3>1. size' > 0 => size > 0
      BY <1>2, <2>3 DEF Count, TypeOK
    <3>2. \A q \in Adders : pc[q] = "wake" => pc'[q] = "wake"
      BY <1>2 DEF Count, TypeOK
    <3> QED BY <2>1, <3>1, <3>2 DEF WakeInv
  <2> QED BY <2>2, <2>3
<1>3. ASSUME NEW p \in Adders, WakeUp(p) PROVE WakeInv'
  BY <1>3 DEF WakeUp, WakeInv
<1>4. CASE HandleEvents
  BY <1>4, StartScanWake DEF HandleEvents, LoopInv
<1>5. ASSUME NEW p \in Adders, Dequeue(p) PROVE WakeInv'
  <2>1. PICK batch \in SUBSET queue :
          Batch(p, batch) /\ queue' = queue \ batch /\ taken' = taken \cup batch
    BY <1>5 DEF Dequeue
  <2>2. at = "scan" /\ Cardinality(taken) < BatchMax /\ scan' = scan \ {p}
        /\ UNCHANGED <<size, readable, pc, at>>
    BY <1>5 DEF Dequeue
  <2>3. SUFFICES ASSUME taken' = {} PROVE WakeInv'
    BY DEF WakeInv
  <2>4. taken = {} /\ batch = {} /\ queue' = queue
    BY <2>1, <2>3
  <2>5. OfAdder(queue, p) = {}
    <3>1. Cardinality({}) = 0
      BY FS_EmptySet
    <3>2. batch = OfAdder(queue, p) \/ Cardinality(batch) = BatchMax - Cardinality(taken)
      BY <2>1 DEF Batch
    <3> QED BY <2>2, <2>4, <3>1, <3>2, BatchMaxAssumption
  <2>6. (\A t \in queue' : t[1] \notin scan') => (\A t \in queue : t[1] \notin scan)
    BY <2>2, <2>4, <2>5 DEF OfAdder
  <2> QED BY <2>2, <2>4, <2>6 DEF WakeInv
<1>6. CASE EndScan
  <2>1. UNCHANGED <<queue, taken, size, readable, pc>> /\ at = "scan"
    BY <1>6 DEF EndScan
  <2>2. CASE taken = {}
    <3>1. Cardinality({}) = 0
      BY FS_EmptySet
    <3>2. scan = {}
      BY <1>6, <2>2, <3>1, BatchMaxAssumption DEF EndScan
    <3> QED BY <2>1, <2>2, <3>2 DEF WakeInv
  <2>3. CASE taken # {}
    BY <2>1, <2>3 DEF WakeInv
  <2> QED BY <2>2, <2>3
<1>7. CASE Subtract
  BY <1>7 DEF Subtract, WakeInv
<1>8. ASSUME NEW t \in Task, Run(t) PROVE WakeInv'
  <2>1. CASE taken = {t}
    BY <1>8, <2>1, StartScanWake DEF Run
  <2>2. CASE taken # {t}
    BY <1>8, <2>2 DEF Run, WakeInv
  <2> QED BY <2>1, <2>2
<1>9. CASE UNCHANGED vars
  BY <1>9 DEF vars, WakeInv
<1> QED
  BY <1>1, <1>2, <1>3, <1>4, <1>5, <1>6, <1>7, <1>8, <1>9
  DEF Next, ProcessStep, AddStep

\* IInv is inductive.
LEMMA StepKeeps == ASSUME IInv, [Next]_vars PROVE IInv'
  BY TypeStep, LoopStep, OrderStep, SizeStep, WakeStep DEF IInv

\* Whatever order Add and Process take their steps in, the queue keeps IInv.
THEOREM Inductive == Spec => []IInv
<1>1. IInv /\ [Next]_vars => IInv'
  BY StepKeeps
<1> QED BY InitIInv, <1>1, PTL DEF Spec

\* EventLockFreeQueue::Process never overfills buf, and every variable keeps
\* its type, whatever the adders do.
THEOREM TypeCorrect == Spec => []TypeOK
<1>1. IInv => TypeOK
  BY DEF IInv
<1> QED BY Inductive, <1>1, PTL

\* The atomic updates of size_ in Add and Process never make it drift from
\* what is queued, held in buf and not counted yet.
THEOREM SizeIsAccounted == Spec => []SizeAccounting
<1>1. IInv => SizeAccounting
  BY DEF IInv
<1> QED BY Inductive, <1>1, PTL

\* No wake-up is lost: when the loop thread sleeps with an empty eventfd and
\* no thread is inside Add, nothing is queued.
THEOREM NoWakeupIsLost == Spec => []NoLostWakeup
<1>1. IInv => NoLostWakeup
  <2> SUFFICES ASSUME IInv, at = "wait", ~readable, queue # {},
                      \A p \in Adders : pc[p] = "idle"
               PROVE  FALSE
    BY DEF NoLostWakeup
  <2> USE DEF IInv
  <2>1. Counting = {} /\ Unsubtracted = {}
    BY DEF Counting, Unsubtracted
  <2>2. Cardinality({}) = 0 /\ Cardinality(queue) \in Nat /\ Cardinality(queue) # 0
    BY FS_EmptySet, FS_CardinalityType
  <2>3. size > 0
    BY <2>1, <2>2 DEF SizeAccounting
  <2>4. taken = {} /\ scan = {}
    BY DEF LoopInv
  <2>5. readable \/ \E p \in Adders : pc[p] = "wake"
    BY <2>3, <2>4 DEF WakeInv
  <2> QED BY <2>5
<1> QED BY Inductive, <1>1, PTL

\* The safety half of Implements: the queue hands every adder's callbacks to
\* the loop thread exactly once and in the order they were added.
THEOREM RefinesTaskQueue == Spec =>
  Abstract!Init /\ [][Abstract!Next]_(Abstract!vars)
<1>1. Init => Abstract!Init
  BY DEF Init, Abstract!Init
<1>2. IInv /\ [Next]_vars => [Abstract!Next]_(Abstract!vars)
  <2> SUFFICES ASSUME IInv, [Next]_vars PROVE [Abstract!Next]_(Abstract!vars)
    OBVIOUS
  <2> USE DEF Abstract!Next, Abstract!Add, Abstract!Run, Abstract!vars
  <2>1. ASSUME NEW p \in Adders, Enqueue(p) PROVE Abstract!Next
    BY <2>1 DEF Enqueue
  <2>2. ASSUME NEW t \in Task, Run(t) PROVE Abstract!Next
    <3>1. /\ t[1] \in Adders /\ done[t[1]] < sent[t[1]]
          /\ done' = [done EXCEPT ![t[1]] = @ + 1]
      BY <2>2, RunsNext
    <3>2. UNCHANGED sent
      BY <2>2 DEF Run
    <3> QED BY <3>1, <3>2
  <2>3. ASSUME NEW p \in Adders, AddStep(p) \/ Dequeue(p) PROVE UNCHANGED Abstract!vars
    BY <2>3 DEF AddStep, Count, WakeUp, Dequeue
  <2>4. HandleEvents \/ EndScan \/ Subtract => UNCHANGED Abstract!vars
    BY DEF HandleEvents, EndScan, Subtract
  <2>5. CASE UNCHANGED vars
    BY <2>5 DEF vars
  <2> QED BY <2>1, <2>2, <2>3, <2>4, <2>5 DEF Next, ProcessStep
<1> QED BY Inductive, <1>1, <1>2, PTL DEF Spec

-----------------------------------------------------------------------------
(****************************************************************************)
(* EventBlockingQueue.                                                       *)
(****************************************************************************)

\* NoLostWakeup is not inductive: an adder that is about to unlock must have
\* found the queue empty, or its callback would stay behind unannounced.
BlockingWakeInv ==
  bAt = "wait" /\ ~bReadable => Len(bQueue) <= 1 /\ (bQueue # <<>> => bMu # None)

BlockingIInv == Blocking!TypeOK /\ BlockingWakeInv

-----------------------------------------------------------------------------

\* Taking the only element of a sequence off a concatenation.
LEMMA HeadOfConcat ==
  ASSUME NEW S, NEW s \in Seq(S), NEW t \in Seq(S), Len(s) = 1
  PROVE  /\ s # <<>> /\ s \o t # <<>>
         /\ Head(s \o t) = Head(s)
         /\ Tail(s \o t) = t
<1>1. /\ s \o t \in Seq(S) /\ Len(s \o t) = 1 + Len(t) /\ Len(t) \in Nat
      /\ \A i \in 1 .. 1 + Len(t) : (s \o t)[i] = IF i <= 1 THEN s[i] ELSE t[i - 1]
  <2>1. /\ s \o t \in Seq(S) /\ Len(s \o t) = Len(s) + Len(t)
        /\ \A i \in 1 .. Len(s) + Len(t) : (s \o t)[i] = IF i <= Len(s) THEN s[i] ELSE t[i - Len(s)]
    BY ConcatProperties
  <2>2. Len(t) \in Nat
    BY LenProperties
  <2> QED BY <2>1, <2>2
<1>2. s # <<>> /\ s \o t # <<>>
  BY <1>1, EmptySeq
<1>3. Head(s \o t) = s[1] /\ Head(s) = s[1]
  BY <1>1, <1>2
<1>4. /\ Tail(s \o t) \in Seq(S) /\ Len(Tail(s \o t)) = Len(t)
      /\ \A i \in 1 .. Len(t) : Tail(s \o t)[i] = (s \o t)[i + 1]
  BY <1>1, <1>2, HeadTailProperties
<1>5. \A i \in 1 .. Len(t) : Tail(s \o t)[i] = t[i]
  BY <1>1, <1>4
<1>6. Tail(s \o t) = t
  BY <1>4, <1>5, SeqEqual
<1> QED BY <1>2, <1>3, <1>6

LEMMA BlockingInitIInv == Blocking!Init => BlockingIInv
<1> SUFFICES ASSUME Blocking!Init PROVE BlockingIInv
  OBVIOUS
<1>1. /\ bQueue \in Seq(Blocking!Task) /\ Len(bQueue) = 0
      /\ bCallback \in Seq(Blocking!Task) /\ Len(bCallback) = 0
  BY DEF Blocking!Init
<1>2. bSent \in [Adders -> 0 .. MaxTasks] /\ bDone \in [Adders -> 0 .. MaxTasks]
  BY MaxTasksAssumption DEF Blocking!Init
<1>3. Blocking!TypeOK
  BY <1>1, <1>2 DEF Blocking!Init, Blocking!TypeOK
<1>4. BlockingWakeInv
  BY <1>1 DEF Blocking!Init, BlockingWakeInv
<1> QED BY <1>3, <1>4 DEF BlockingIInv

LEMMA BlockingPushStep ==
  ASSUME BlockingIInv, NEW p \in Adders, Blocking!Push(p)
  PROVE BlockingIInv'
<1> USE MaxTasksAssumption DEF BlockingIInv, Blocking!TypeOK
<1>1. Blocking!TypeOK'
  <2>1. <<p, bSent[p] + 1>> \in Blocking!Task
    BY DEF Blocking!Push, Blocking!Task
  <2>2. bSent' \in [Adders -> 0 .. MaxTasks]
    BY DEF Blocking!Push
  <2>3. bQueue' \in Seq(Blocking!Task)
    BY <2>1 DEF Blocking!Push
  <2> QED BY <2>2, <2>3 DEF Blocking!Push
<1>2. BlockingWakeInv'
  BY AddersAssumption DEF Blocking!Push, BlockingWakeInv
<1> QED BY <1>1, <1>2

LEMMA BlockingWakeUpStep ==
  ASSUME BlockingIInv, NEW p \in Adders, Blocking!WakeUpAndUnlock(p)
  PROVE BlockingIInv'
<1> USE DEF BlockingIInv, Blocking!TypeOK
<1>1. Blocking!TypeOK'
  BY DEF Blocking!WakeUpAndUnlock
<1>2. BlockingWakeInv'
  <2>1. UNCHANGED <<bQueue, bAt>> /\ (~bReadable' => ~bReadable /\ Len(bQueue) # 1)
    BY DEF Blocking!WakeUpAndUnlock
  <2>2. Len(bQueue) \in Nat /\ (Len(bQueue) = 0 => bQueue = <<>>)
    BY EmptySeq
  <2>3. bAt = "wait" /\ ~bReadable' => Len(bQueue) <= 1 /\ Len(bQueue) # 1
    BY <2>1, Zenon DEF BlockingWakeInv
  <2>4. \A n \in Nat : n <= 1 /\ n # 1 => n = 0
    OBVIOUS
  <2>6. Len(<<>>) = 0
    BY EmptySeq
  <2>5. bAt = "wait" /\ ~bReadable' => bQueue = <<>>
    BY <2>2, <2>3, <2>4, Zenon
  <2> QED BY <2>1, <2>5, <2>6 DEF BlockingWakeInv
<1> QED BY <1>1, <1>2

LEMMA BlockingProcessStepKeeps ==
  ASSUME BlockingIInv, Blocking!ProcessStep
  PROVE BlockingIInv'
<1> USE MaxTasksAssumption DEF BlockingIInv, Blocking!TypeOK
<1>1. CASE Blocking!HandleEvents
  BY <1>1 DEF Blocking!HandleEvents, BlockingWakeInv
<1>2. CASE Blocking!Pop
  <2>1. /\ Head(bQueue) \in Blocking!Task /\ Tail(bQueue) \in Seq(Blocking!Task)
        /\ Len(<<Head(bQueue)>>) = 1
    BY <1>2 DEF Blocking!Pop
  <2>2. bCallback' \in Seq(Blocking!Task) /\ Len(bCallback') = 1 /\ bQueue' \in Seq(Blocking!Task)
    BY <1>2, <2>1 DEF Blocking!Pop
  <2> QED BY <1>2, <2>2 DEF Blocking!Pop, BlockingWakeInv
<1>3. CASE Blocking!PopEmpty
  BY <1>3 DEF Blocking!PopEmpty, BlockingWakeInv
<1>4. CASE Blocking!Run
  <2>1. Len(bCallback) = 1 /\ bCallback # <<>> /\ Head(bCallback) \in Blocking!Task
    <3>1. Len(bCallback) = 1 /\ bCallback \in Seq(Blocking!Task)
      BY <1>4 DEF Blocking!Run
    <3>2. Len(<<>>) = 0
      BY EmptySeq
    <3>3. bCallback # <<>>
      BY <3>1, <3>2, 1 # 0, Zenon
    <3> QED BY <3>1, <3>3, HeadTailProperties
  <2>2. bDone' \in [Adders -> 0 .. MaxTasks]
    BY <1>4, <2>1 DEF Blocking!Run, Blocking!Task
  <2>3. bCallback' \in Seq(Blocking!Task) /\ Len(bCallback') = 0
    BY <1>4 DEF Blocking!Run
  <2> QED BY <1>4, <2>2, <2>3 DEF Blocking!Run, BlockingWakeInv
<1> QED BY <1>1, <1>2, <1>3, <1>4 DEF Blocking!ProcessStep

\* BlockingIInv is inductive.
LEMMA BlockingStepKeeps ==
  ASSUME BlockingIInv, [Blocking!Next]_(Blocking!vars)
  PROVE BlockingIInv'
<1>1. CASE UNCHANGED Blocking!vars
  BY <1>1 DEF Blocking!vars, BlockingIInv, Blocking!TypeOK, BlockingWakeInv
<1> QED BY <1>1, BlockingPushStep, BlockingWakeUpStep, BlockingProcessStepKeeps
   DEF Blocking!Next

\* Whatever order Add and Process take their steps in, the queue keeps BlockingIInv.
THEOREM BlockingInductive == Blocking!Spec => []BlockingIInv
<1>1. BlockingIInv /\ [Blocking!Next]_(Blocking!vars) => BlockingIInv'
  BY BlockingStepKeeps
<1> QED BY BlockingInitIInv, <1>1, PTL DEF Blocking!Spec

\* Every variable keeps its type; Process holds one callback exactly while it
\* runs one.
THEOREM BlockingTypeCorrect == Blocking!Spec => []Blocking!TypeOK
<1>1. BlockingIInv => Blocking!TypeOK
  BY DEF BlockingIInv
<1> QED BY BlockingInductive, <1>1, PTL

\* WakeUp is written only when the queue was empty before the push, and yet no
\* wake-up is lost, for any number of threads in Add.
THEOREM BlockingNoWakeupIsLost == Blocking!Spec => []Blocking!NoLostWakeup
<1>1. BlockingIInv => Blocking!NoLostWakeup
  BY DEF BlockingIInv, BlockingWakeInv, Blocking!NoLostWakeup
<1> QED BY BlockingInductive, <1>1, PTL

\* The safety half of Implements: callbacks are run once and in the one order
\* in which they were pushed, whichever threads pushed them.
THEOREM BlockingRefinesFifo == Blocking!Spec =>
  Blocking!Fifo!Init /\ [][Blocking!Fifo!Next]_(Blocking!Fifo!vars)
<1>1. Blocking!Init => Blocking!Fifo!Init
  BY DEF Blocking!Init, Blocking!Fifo!Init
<1>2. BlockingIInv /\ [Blocking!Next]_(Blocking!vars) =>
      [Blocking!Fifo!Next]_(Blocking!Fifo!vars)
  <2> SUFFICES ASSUME BlockingIInv, [Blocking!Next]_(Blocking!vars)
               PROVE [Blocking!Fifo!Next]_(Blocking!Fifo!vars)
    OBVIOUS
  <2> USE
     DEF BlockingIInv, Blocking!TypeOK, Blocking!Fifo!Next, Blocking!Fifo!Add,
         Blocking!Fifo!Run, Blocking!Fifo!vars
  <2>1. ASSUME NEW p \in Adders, Blocking!Push(p) PROVE Blocking!Fifo!Next
    <3>1. bCallback \o Append(bQueue, <<p, bSent[p] + 1>>) =
            Append(bCallback \o bQueue, <<p, bSent[p] + 1>>)
      OBVIOUS
    <3> QED BY <2>1, <3>1 DEF Blocking!Push
  <2>2. ASSUME NEW p \in Adders, Blocking!WakeUpAndUnlock(p)
        PROVE UNCHANGED Blocking!Fifo!vars
    BY <2>2 DEF Blocking!WakeUpAndUnlock
  <2>3. Blocking!HandleEvents \/ Blocking!PopEmpty => UNCHANGED Blocking!Fifo!vars
    BY DEF Blocking!HandleEvents, Blocking!PopEmpty
  <2>4. CASE Blocking!Pop
    <3>1. bCallback = <<>> /\ bQueue # <<>>
      BY <2>4 DEF Blocking!Pop
    <3>2. bCallback' \o bQueue' = bCallback \o bQueue
      BY <2>4, <3>1 DEF Blocking!Pop
    <3> QED BY <2>4, <3>2 DEF Blocking!Pop
  <2>5. CASE Blocking!Run
    <3>1. /\ bCallback # <<>> /\ bCallback \o bQueue # <<>>
          /\ Head(bCallback \o bQueue) = Head(bCallback)
          /\ Tail(bCallback \o bQueue) = bQueue
      <4>1. Len(bCallback) = 1 /\ bCallback \in Seq(Blocking!Task) /\ bQueue \in Seq(Blocking!Task)
        BY <2>5 DEF Blocking!Run
      <4> QED BY <4>1, HeadOfConcat
    <3>2. bCallback' \o bQueue' = bQueue
      BY <2>5 DEF Blocking!Run
    <3> QED BY <2>5, <3>1, <3>2 DEF Blocking!Run
  <2>6. CASE UNCHANGED Blocking!vars
    BY <2>6 DEF Blocking!vars
  <2> QED BY <2>1, <2>2, <2>3, <2>4, <2>5, <2>6 DEF Blocking!Next, Blocking!ProcessStep
<1> QED BY BlockingInductive, <1>1, <1>2, PTL DEF Blocking!Spec

-----------------------------------------------------------------------------
(****************************************************************************)
(* EventDoubleBufferQueue.                                                   *)
(****************************************************************************)

\* running_ is empty while no batch runs, so that a swap empties pending_.
DoubleRunningInv == dAt # "run" => dRunning = <<>>

\* Once the batch has been taken, what is added is announced on the eventfd,
\* unless its adder is about to do so; before that the loop thread will look.
DoubleWakeInv ==
  dAt # "swap" /\ ~dReadable => Len(dPending) <= 1 /\ (dPending # <<>> => dMu # None)

\* What is pending was added, and what is in the batch was added before the
\* batch was taken.
DoubleBatchInv ==
  /\ \A p \in Adders : dDone[p] <= dBegun[p] /\ dBegun[p] <= dSent[p]
  /\ \A i \in 1 .. Len(dPending) : dPending[i][2] <= dSent[dPending[i][1]]
  /\ \A i \in 1 .. Len(dRunning) : dRunning[i][2] <= dBegun[dRunning[i][1]]

DoubleIInv == DoubleBuffer!TypeOK /\ DoubleRunningInv /\ DoubleWakeInv /\ DoubleBatchInv

-----------------------------------------------------------------------------

LEMMA EmptyHasLengthZero == Len(<<>>) = 0
  BY EmptySeq

LEMMA DoubleInitIInv == DoubleBuffer!Init => DoubleIInv
<1> SUFFICES ASSUME DoubleBuffer!Init PROVE DoubleIInv
  OBVIOUS
<1>1. dPending = <<>> /\ dRunning = <<>> /\ Len(dPending) = 0 /\ Len(dRunning) = 0
  BY EmptyHasLengthZero DEF DoubleBuffer!Init
<1>2. dPending \in Seq(DoubleBuffer!Task) /\ dRunning \in Seq(DoubleBuffer!Task)
  BY <1>1, EmptySeq
<1>3. /\ dSent \in [Adders -> 0 .. MaxTasks] /\ dDone \in [Adders -> 0 .. MaxTasks]
      /\ dBegun \in [Adders -> 0 .. MaxTasks] /\ dNext \in 1 .. 0 + 1
  BY MaxTasksAssumption DEF DoubleBuffer!Init
<1>4. DoubleBuffer!TypeOK
  BY <1>1, <1>2, <1>3 DEF DoubleBuffer!Init, DoubleBuffer!TypeOK
<1>5. DoubleRunningInv /\ DoubleWakeInv
  BY <1>1 DEF DoubleBuffer!Init, DoubleRunningInv, DoubleWakeInv
<1>6. DoubleBatchInv
  BY <1>1 DEF DoubleBuffer!Init, DoubleBatchInv
<1> QED BY <1>4, <1>5, <1>6 DEF DoubleIInv

LEMMA DoubleTypeStep ==
  ASSUME DoubleIInv, [DoubleBuffer!Next]_(DoubleBuffer!vars)
  PROVE DoubleBuffer!TypeOK'
<1> USE MaxTasksAssumption DEF DoubleIInv, DoubleBuffer!TypeOK
<1>1. ASSUME NEW p \in Adders, DoubleBuffer!Push(p) PROVE DoubleBuffer!TypeOK'
  <2>1. <<p, dSent[p] + 1>> \in DoubleBuffer!Task
    <3>1. dSent[p] \in 0 .. MaxTasks /\ dSent[p] < MaxTasks
      BY <1>1 DEF DoubleBuffer!Push
    <3>2. dSent[p] + 1 \in 1 .. MaxTasks
      BY <3>1
    <3> QED BY <3>2 DEF DoubleBuffer!Task
  <2>2. dSent' \in [Adders -> 0 .. MaxTasks]
    BY <1>1 DEF DoubleBuffer!Push
  <2>3. dPending' \in Seq(DoubleBuffer!Task)
    BY <1>1, <2>1 DEF DoubleBuffer!Push
  <2> QED BY <1>1, <2>2, <2>3 DEF DoubleBuffer!Push
<1>2. ASSUME NEW p \in Adders, DoubleBuffer!WakeUpAndUnlock(p) PROVE DoubleBuffer!TypeOK'
  BY <1>2 DEF DoubleBuffer!WakeUpAndUnlock
<1>3. CASE DoubleBuffer!HandleEvents
  BY <1>3 DEF DoubleBuffer!HandleEvents
<1>4. CASE DoubleBuffer!Swap
  <2>1. 1 \in 1 .. Len(dPending) + 1
    BY LenProperties
  <2> QED BY <1>4, <2>1 DEF DoubleBuffer!Swap
<1>5. CASE DoubleBuffer!Run
  <2>1. dNext \in 1 .. Len(dRunning) /\ dNext + 1 \in 1 .. Len(dRunning) + 1
    BY <1>5 DEF DoubleBuffer!Run
  <2>2. dRunning[dNext] \in DoubleBuffer!Task
    BY <2>1, ElementOfSeq
  <2>3. dDone' \in [Adders -> 0 .. MaxTasks]
    <3>1. dRunning[dNext][1] \in Adders /\ dRunning[dNext][2] \in 0 .. MaxTasks
      <4>1. \A t \in DoubleBuffer!Task : t[1] \in Adders /\ t[2] \in 0 .. MaxTasks
        BY DEF DoubleBuffer!Task
      <4> QED BY <2>2, <4>1
    <3> QED BY <1>5, <3>1 DEF DoubleBuffer!Run
  <2> QED BY <1>5, <2>1, <2>3 DEF DoubleBuffer!Run
<1>6. CASE DoubleBuffer!Clear
  <2>1. <<>> \in Seq(DoubleBuffer!Task) /\ Len(<<>>) = 0 /\ 1 \in 1 .. 0 + 1
    BY EmptySeq
  <2> QED BY <1>6, <2>1 DEF DoubleBuffer!Clear
<1>7. CASE UNCHANGED DoubleBuffer!vars
  BY <1>7 DEF DoubleBuffer!vars
<1> QED BY <1>1, <1>2, <1>3, <1>4, <1>5, <1>6, <1>7
   DEF DoubleBuffer!Next, DoubleBuffer!ProcessStep

LEMMA DoubleRunningStep ==
  ASSUME DoubleIInv, [DoubleBuffer!Next]_(DoubleBuffer!vars)
  PROVE DoubleRunningInv'
<1> USE DEF DoubleIInv, DoubleRunningInv
<1>1. ASSUME NEW p \in Adders, DoubleBuffer!Push(p) \/ DoubleBuffer!WakeUpAndUnlock(p)
      PROVE DoubleRunningInv'
  BY <1>1 DEF DoubleBuffer!Push, DoubleBuffer!WakeUpAndUnlock
<1>2. ASSUME DoubleBuffer!ProcessStep PROVE DoubleRunningInv'
  BY <1>2
     DEF DoubleBuffer!ProcessStep, DoubleBuffer!HandleEvents, DoubleBuffer!Swap,
         DoubleBuffer!Run, DoubleBuffer!Clear
<1>3. CASE UNCHANGED DoubleBuffer!vars
  BY <1>3 DEF DoubleBuffer!vars
<1> QED BY <1>1, <1>2, <1>3 DEF DoubleBuffer!Next

LEMMA DoubleWakeStep ==
  ASSUME DoubleIInv, [DoubleBuffer!Next]_(DoubleBuffer!vars)
  PROVE DoubleWakeInv'
<1>1. dPending \in Seq(DoubleBuffer!Task) /\ Len(dPending) \in Nat /\ (Len(dPending) = 0 =>
      dPending = <<>>)
  <2>1. dPending \in Seq(DoubleBuffer!Task)
    BY DEF DoubleIInv, DoubleBuffer!TypeOK
  <2> QED BY <2>1, EmptySeq, LenProperties
<1>2. ASSUME NEW p \in Adders, DoubleBuffer!Push(p) PROVE DoubleWakeInv'
  <2>1. dMu' = p /\ p # None /\ dMu = None /\ UNCHANGED <<dAt, dReadable>>
    BY <1>2, AddersAssumption DEF DoubleBuffer!Push
  <2>2. dAt # "swap" /\ ~dReadable => dPending = <<>>
    BY <2>1 DEF DoubleIInv, DoubleWakeInv
  <2>3. dPending = <<>> => Len(dPending') <= 1
    <3>1. Len(dPending') = Len(dPending) + 1
      BY <1>1, <1>2 DEF DoubleBuffer!Push
    <3> QED BY <3>1, EmptyHasLengthZero
  <2> QED BY <2>1, <2>2, <2>3, Zenon DEF DoubleWakeInv
<1>3. ASSUME NEW p \in Adders, DoubleBuffer!WakeUpAndUnlock(p) PROVE DoubleWakeInv'
  <2>1. UNCHANGED <<dPending, dAt>> /\ (~dReadable' => ~dReadable /\ Len(dPending) # 1)
    BY <1>3 DEF DoubleBuffer!WakeUpAndUnlock
  <2>2. dAt # "swap" /\ ~dReadable' => Len(dPending) <= 1 /\ Len(dPending) # 1
    BY <2>1, Zenon DEF DoubleIInv, DoubleWakeInv
  <2>3. \A n \in Nat : n <= 1 /\ n # 1 => n = 0
    OBVIOUS
  <2>4. dAt # "swap" /\ ~dReadable' => dPending = <<>>
    BY <1>1, <2>2, <2>3, Zenon
  <2> QED BY <2>1, <2>4, EmptyHasLengthZero DEF DoubleWakeInv
<1>4. CASE DoubleBuffer!HandleEvents
  BY <1>4 DEF DoubleBuffer!HandleEvents, DoubleWakeInv
<1>5. CASE DoubleBuffer!Swap
  <2>1. dPending' = <<>>
    BY <1>5 DEF DoubleBuffer!Swap, DoubleIInv, DoubleRunningInv
  <2> QED BY <2>1, EmptyHasLengthZero DEF DoubleWakeInv
<1>6. CASE DoubleBuffer!Run \/ DoubleBuffer!Clear
  BY <1>6 DEF DoubleBuffer!Run, DoubleBuffer!Clear, DoubleIInv, DoubleWakeInv
<1>7. CASE UNCHANGED DoubleBuffer!vars
  BY <1>7 DEF DoubleBuffer!vars, DoubleIInv, DoubleWakeInv
<1> QED BY <1>2, <1>3, <1>4, <1>5, <1>6, <1>7
   DEF DoubleBuffer!Next, DoubleBuffer!ProcessStep

LEMMA DoubleBatchStep ==
  ASSUME DoubleIInv, [DoubleBuffer!Next]_(DoubleBuffer!vars)
  PROVE DoubleBatchInv'
<1>1. /\ dSent \in [Adders -> Nat] /\ dDone \in [Adders -> Nat] /\ dBegun \in [Adders -> Nat]
      /\ dPending \in Seq(DoubleBuffer!Task) /\ dRunning \in Seq(DoubleBuffer!Task)
      /\ dNext \in 1 .. Len(dRunning) + 1
  BY MaxTasksAssumption DEF DoubleIInv, DoubleBuffer!TypeOK
<1>2. /\ \A i \in 1 .. Len(dPending) :
           dPending[i] \in DoubleBuffer!Task /\ dPending[i][1] \in Adders /\ dPending[i][2] \in Nat
      /\ \A i \in 1 .. Len(dRunning) :
           dRunning[i] \in DoubleBuffer!Task /\ dRunning[i][1] \in Adders /\ dRunning[i][2] \in Nat
  <2>1. \A t \in DoubleBuffer!Task : t[1] \in Adders /\ t[2] \in Nat
    BY MaxTasksAssumption DEF DoubleBuffer!Task
  <2> QED BY <1>1, <2>1, ElementOfSeq
<1>3. DoubleBatchInv
  BY DEF DoubleIInv
<1>4. ASSUME NEW p \in Adders, DoubleBuffer!Push(p) PROVE DoubleBatchInv'
  <2>1. /\ dSent' = [dSent EXCEPT ![p] = @ + 1] /\ UNCHANGED <<dDone, dRunning, dBegun>>
        /\ dPending' = Append(dPending, <<p, dSent[p] + 1>>)
    BY <1>4 DEF DoubleBuffer!Push
  <2>2. \A q \in Adders : dSent[q] \in Nat /\ dSent'[q] \in Nat /\ dSent[q] <= dSent'[q]
    BY <1>1, <2>1
  <2>3. /\ Len(dPending') = Len(dPending) + 1 /\ Len(dPending) \in Nat
        /\ dPending'[Len(dPending')] = <<p, dSent[p] + 1>>
        /\ \A i \in 1 .. Len(dPending) : dPending'[i] = dPending[i]
    BY <1>1, <2>1
  <2>4. \A q \in Adders : dDone'[q] <= dBegun'[q] /\ dBegun'[q] <= dSent'[q]
    BY <1>1, <1>3, <2>1, <2>2 DEF DoubleBatchInv
  <2>5. ASSUME NEW i \in 1 .. Len(dPending')
        PROVE dPending'[i][2] <= dSent'[dPending'[i][1]]
    <3>1. CASE i = Len(dPending')
      BY <1>1, <2>1, <2>3, <3>1
    <3>2. CASE i # Len(dPending')
      <4>1. i \in 1 .. Len(dPending) /\ dPending'[i] = dPending[i]
        BY <2>3, <3>2
      <4>2. dPending[i][2] <= dSent[dPending[i][1]]
        BY <1>3, <4>1 DEF DoubleBatchInv
      <4> QED BY <1>2, <2>2, <4>1, <4>2
    <3> QED BY <3>1, <3>2
  <2> QED BY <1>3, <2>1, <2>4, <2>5 DEF DoubleBatchInv
<1>5. ASSUME NEW p \in Adders, DoubleBuffer!WakeUpAndUnlock(p) PROVE DoubleBatchInv'
  BY <1>3, <1>5 DEF DoubleBuffer!WakeUpAndUnlock, DoubleBatchInv
<1>6. CASE DoubleBuffer!HandleEvents
  BY <1>3, <1>6 DEF DoubleBuffer!HandleEvents, DoubleBatchInv
<1>7. CASE DoubleBuffer!Swap
  <2>1. dPending' = <<>> /\ dRunning' = dPending /\ dBegun' = dSent /\ UNCHANGED <<dSent, dDone>>
    BY <1>7 DEF DoubleBuffer!Swap, DoubleIInv, DoubleRunningInv
  <2>2. Len(dPending') = 0
    BY <2>1, EmptyHasLengthZero
  <2>3. \A q \in Adders : dDone'[q] <= dBegun'[q] /\ dBegun'[q] <= dSent'[q]
    BY <1>1, <1>3, <2>1 DEF DoubleBatchInv
  <2> QED BY <1>3, <2>1, <2>2, <2>3 DEF DoubleBatchInv
<1>8. CASE DoubleBuffer!Run
  <2> DEFINE t == dRunning[dNext]
  <2>1. dNext \in 1 .. Len(dRunning) /\ dDone' = [dDone EXCEPT ![t[1]] = t[2]]
    BY <1>1, <1>8 DEF DoubleBuffer!Run
  <2>2. t[1] \in Adders /\ t[2] <= dBegun[t[1]]
    BY <1>2, <1>3, <2>1 DEF DoubleBatchInv
  <2>3. UNCHANGED <<dSent, dPending, dRunning, dBegun>>
    BY <1>8 DEF DoubleBuffer!Run
  <2>4. \A q \in Adders : dDone'[q] <= dBegun[q]
    BY <1>1, <1>3, <2>1, <2>2 DEF DoubleBatchInv
  <2> QED BY <1>3, <2>3, <2>4 DEF DoubleBatchInv
<1>9. CASE DoubleBuffer!Clear
  <2>1. Len(dRunning') = 0 /\ UNCHANGED <<dSent, dDone, dPending, dBegun>>
    BY <1>9, EmptyHasLengthZero DEF DoubleBuffer!Clear
  <2> QED BY <1>3, <2>1 DEF DoubleBatchInv
<1>10. CASE UNCHANGED DoubleBuffer!vars
  BY <1>3, <1>10 DEF DoubleBuffer!vars, DoubleBatchInv
<1> QED BY <1>4, <1>5, <1>6, <1>7, <1>8, <1>9, <1>10
   DEF DoubleBuffer!Next, DoubleBuffer!ProcessStep

\* DoubleIInv is inductive.
LEMMA DoubleStepKeeps ==
  ASSUME DoubleIInv, [DoubleBuffer!Next]_(DoubleBuffer!vars)
  PROVE DoubleIInv'
  BY DoubleTypeStep, DoubleRunningStep, DoubleWakeStep, DoubleBatchStep DEF DoubleIInv

\* Whatever order Add and Process take their steps in, the queue keeps DoubleIInv.
THEOREM DoubleInductive == DoubleBuffer!Spec => []DoubleIInv
<1>1. DoubleIInv /\ [DoubleBuffer!Next]_(DoubleBuffer!vars) => DoubleIInv'
  BY DoubleStepKeeps
<1> QED BY DoubleInitIInv, <1>1, PTL DEF DoubleBuffer!Spec

\* Every variable keeps its type; the position in running_ never passes its end.
THEOREM DoubleTypeCorrect == DoubleBuffer!Spec => []DoubleBuffer!TypeOK
<1>1. DoubleIInv => DoubleBuffer!TypeOK
  BY DEF DoubleIInv
<1> QED BY DoubleInductive, <1>1, PTL

\* No callback is left in pending_ without a wake-up, for any number of threads
\* in Add and although the other buffer may still be running.
THEOREM DoubleNoWakeupIsLost == DoubleBuffer!Spec => []DoubleBuffer!NoLostWakeup
<1>1. DoubleIInv => DoubleBuffer!NoLostWakeup
  BY DEF DoubleIInv, DoubleWakeInv, DoubleBuffer!NoLostWakeup
<1> QED BY DoubleInductive, <1>1, PTL

\* A batch is only what was pending when Process took it: a callback that
\* schedules itself cannot keep the loop thread away from the selector.
THEOREM DoubleBatchIsBounded == DoubleBuffer!Spec => []DoubleBuffer!BatchWasPending
<1>1. DoubleIInv => DoubleBuffer!BatchWasPending
  BY DEF DoubleIInv, DoubleBatchInv, DoubleBuffer!BatchWasPending
<1> QED BY DoubleInductive, <1>1, PTL

LEMMA AppendToConcat ==
  ASSUME NEW S, NEW s \in Seq(S), NEW t \in Seq(S), NEW e
  PROVE  s \o Append(t, e) = Append(s \o t, e)
  OBVIOUS

\* What is left of a sequence from position n on, with another one behind it:
\* its first element, and what remains without it.
LEMMA RestOfConcat ==
  ASSUME NEW S, NEW s \in Seq(S), NEW t \in Seq(S), NEW n \in 1 .. Len(s)
  PROVE  /\ SubSeq(s, n, Len(s)) \o t # <<>>
         /\ Head(SubSeq(s, n, Len(s)) \o t) = s[n]
         /\ Tail(SubSeq(s, n, Len(s)) \o t) = SubSeq(s, n + 1, Len(s)) \o t
<1> DEFINE u == SubSeq(s, n, Len(s))
           v == SubSeq(s, n + 1, Len(s))
           k == Len(s) - n
<1>1. Len(s) \in Nat /\ Len(t) \in Nat /\ k \in Nat /\ n \in Nat
  BY LenProperties
<1>2. /\ u \in Seq(S) /\ Len(u) = k + 1
      /\ \A i \in 1 .. k + 1 : u[i] = s[n + i - 1]
  BY <1>1, SubSeqProperties
<1>3. /\ v \in Seq(S) /\ Len(v) = k
      /\ \A i \in 1 .. k : v[i] = s[n + i]
  BY <1>1, SubSeqProperties
<1> HIDE DEF u, v
<1>4. /\ u \o t \in Seq(S) /\ Len(u \o t) = k + 1 + Len(t)
      /\ \A i \in 1 .. k + 1 + Len(t) : (u \o t)[i] = IF i <= k + 1 THEN u[i] ELSE t[i - (k + 1)]
  <2>1. /\ u \o t \in Seq(S) /\ Len(u \o t) = Len(u) + Len(t)
        /\ \A i \in 1 .. Len(u) + Len(t) : (u \o t)[i] = IF i <= Len(u) THEN u[i] ELSE t[i - Len(u)]
    BY <1>2, ConcatProperties
  <2>2. Len(u) = k + 1
    BY <1>2
  <2> QED BY <2>1, <2>2, Zenon
<1>5. /\ v \o t \in Seq(S) /\ Len(v \o t) = k + Len(t)
      /\ \A i \in 1 .. k + Len(t) : (v \o t)[i] = IF i <= k THEN v[i] ELSE t[i - k]
  <2>1. /\ v \o t \in Seq(S) /\ Len(v \o t) = Len(v) + Len(t)
        /\ \A i \in 1 .. Len(v) + Len(t) : (v \o t)[i] = IF i <= Len(v) THEN v[i] ELSE t[i - Len(v)]
    BY <1>3, ConcatProperties
  <2>2. Len(v) = k
    BY <1>3
  <2> QED BY <2>1, <2>2, Zenon
<1> HIDE DEF k
<1>6. u \o t # <<>>
  BY <1>1, <1>4, EmptyHasLengthZero
<1>7. Head(u \o t) = s[n]
  <2>1. Head(u \o t) = (u \o t)[1]
    BY <1>4, <1>6, HeadTailProperties
  <2>2. (u \o t)[1] = u[1] /\ u[1] = s[n]
    BY <1>1, <1>2, <1>4
  <2> QED BY <2>1, <2>2
<1>8. /\ Tail(u \o t) \in Seq(S) /\ Len(Tail(u \o t)) = k + Len(t)
      /\ \A i \in 1 .. k + Len(t) : Tail(u \o t)[i] = (u \o t)[i + 1]
  <2>1. /\ Tail(u \o t) \in Seq(S) /\ Len(Tail(u \o t)) = Len(u \o t) - 1
        /\ \A i \in 1 .. Len(Tail(u \o t)) : Tail(u \o t)[i] = (u \o t)[i + 1]
    BY <1>4, <1>6, HeadTailProperties
  <2>2. Len(u \o t) - 1 = k + Len(t)
    BY <1>1, <1>4
  <2> QED BY <2>1, <2>2, Zenon
<1>9. ASSUME NEW i \in 1 .. k + Len(t) PROVE Tail(u \o t)[i] = (v \o t)[i]
  <2>1. Tail(u \o t)[i] = IF i + 1 <= k + 1 THEN u[i + 1] ELSE t[i + 1 - (k + 1)]
    BY <1>1, <1>4, <1>8
  <2>2. CASE i <= k
    <3>1. i \in 1 .. k /\ i + 1 \in 1 .. k + 1 /\ i + 1 <= k + 1 /\ n + (i + 1) - 1 = n + i
      BY <1>1, <2>2
    <3>2. u[i + 1] = s[n + i]
      <4>1. u[i + 1] = s[n + (i + 1) - 1]
        BY <1>2, <3>1, Zenon
      <4> QED BY <3>1, <4>1, Zenon
    <3>3. v[i] = s[n + i]
      BY <1>3, <3>1, Zenon
    <3>4. (v \o t)[i] = v[i]
      BY <1>5, <2>2, Zenon
    <3> QED BY <2>1, <3>1, <3>2, <3>3, <3>4, Zenon
  <2>3. CASE ~(i <= k)
    <3>1. ~(i + 1 <= k + 1) /\ i + 1 - (k + 1) = i - k
      BY <1>1, <2>3
    <3> QED BY <1>5, <2>1, <2>3, <3>1, Zenon
  <2> QED BY <2>2, <2>3
<1>10. Tail(u \o t) = v \o t
  BY <1>5, <1>8, <1>9, SeqEqual
<1> QED BY <1>6, <1>7, <1>10 DEF u, v

\* The safety half of Implements: the callbacks of all threads are run once, in
\* the one order of their pushes, although Process takes them a batch at a time.
THEOREM DoubleRefinesFifo == DoubleBuffer!Spec =>
  DoubleBuffer!Fifo!Init /\ [][DoubleBuffer!Fifo!Next]_(DoubleBuffer!Fifo!vars)
<1> DEFINE rest == SubSeq(dRunning, dNext, Len(dRunning))
<1>1. DoubleBuffer!Init => DoubleBuffer!Fifo!Init
  <2> SUFFICES ASSUME DoubleBuffer!Init PROVE DoubleBuffer!Fifo!Init
    OBVIOUS
  <2>1. dRunning = <<>> /\ dPending = <<>> /\ dNext = 1
    BY DEF DoubleBuffer!Init
  <2>2. rest = <<>>
    BY <2>1, SubSeqEmpty, EmptyHasLengthZero, EmptySeq
  <2>3. rest \o dPending = <<>>
    BY <2>1, <2>2
  <2> QED BY <2>3 DEF DoubleBuffer!Init, DoubleBuffer!Fifo!Init
<1>2. DoubleIInv /\ [DoubleBuffer!Next]_(DoubleBuffer!vars) =>
      [DoubleBuffer!Fifo!Next]_(DoubleBuffer!Fifo!vars)
  <2> SUFFICES ASSUME DoubleIInv, [DoubleBuffer!Next]_(DoubleBuffer!vars)
               PROVE [DoubleBuffer!Fifo!Next]_(DoubleBuffer!Fifo!vars)
    OBVIOUS
  <2>1. /\ dRunning \in Seq(DoubleBuffer!Task) /\ dPending \in Seq(DoubleBuffer!Task)
        /\ dNext \in 1 .. Len(dRunning) + 1 /\ Len(dRunning) \in Nat
    BY LenProperties DEF DoubleIInv, DoubleBuffer!TypeOK
  <2>2. rest \in Seq(DoubleBuffer!Task)
    BY <2>1, SubSeqProperties
  <2>3. ASSUME NEW p \in Adders, DoubleBuffer!Push(p) PROVE DoubleBuffer!Fifo!Next
    <3>1. rest \o Append(dPending, <<p, dSent[p] + 1>>) =
            Append(rest \o dPending, <<p, dSent[p] + 1>>)
      <4>1. \A s, t \in Seq(DoubleBuffer!Task) : \A e : s \o Append(t, e) = Append(s \o t, e)
        BY AppendToConcat
      <4> HIDE DEF rest
      <4> QED BY <2>1, <2>2, <4>1, Zenon
    <3> QED BY <2>3, <3>1
       DEF DoubleBuffer!Push, DoubleBuffer!Fifo!Next, DoubleBuffer!Fifo!Add
  <2>4. ASSUME NEW p \in Adders, DoubleBuffer!WakeUpAndUnlock(p)
        PROVE UNCHANGED DoubleBuffer!Fifo!vars
    BY <2>4 DEF DoubleBuffer!WakeUpAndUnlock, DoubleBuffer!Fifo!vars
  <2>5. DoubleBuffer!HandleEvents => UNCHANGED DoubleBuffer!Fifo!vars
    BY DEF DoubleBuffer!HandleEvents, DoubleBuffer!Fifo!vars
  <2>6. CASE DoubleBuffer!Swap
    <3>1. dRunning = <<>> /\ dNext = 1
      BY <2>1, <2>6, EmptyHasLengthZero DEF DoubleBuffer!Swap, DoubleIInv, DoubleRunningInv
    <3>2. dRunning' = dPending /\ dPending' = <<>> /\ dNext' = 1
      BY <2>6, <3>1 DEF DoubleBuffer!Swap
    <3>3. rest = <<>>
      BY <3>1, SubSeqEmpty, EmptyHasLengthZero, EmptySeq
    <3>4. SubSeq(dRunning', dNext', Len(dRunning')) = dPending
      BY <2>1, <3>2, SubSeqFull
    <3>5. rest \o dPending = dPending
      BY <2>1, <3>3, ConcatEmptySeq
    <3>6. SubSeq(dRunning', dNext', Len(dRunning')) \o dPending' = dPending
      BY <2>1, <3>2, <3>4, ConcatEmptySeq
    <3> QED BY <2>6, <3>5, <3>6 DEF DoubleBuffer!Swap, DoubleBuffer!Fifo!vars
  <2>7. CASE DoubleBuffer!Run
    <3>1. dNext \in 1 .. Len(dRunning)
      BY <2>1, <2>7 DEF DoubleBuffer!Run
    <3>2. /\ rest \o dPending # <<>>
          /\ Head(rest \o dPending) = dRunning[dNext]
          /\ Tail(rest \o dPending) = SubSeq(dRunning, dNext + 1, Len(dRunning)) \o dPending
      BY <2>1, <3>1, RestOfConcat
    <3>3. /\ dDone' = [dDone EXCEPT ![dRunning[dNext][1]] = dRunning[dNext][2]]
          /\ dNext' = dNext + 1 /\ UNCHANGED <<dSent, dPending, dRunning>>
      BY <2>7 DEF DoubleBuffer!Run
    <3>4. SubSeq(dRunning', dNext', Len(dRunning')) \o dPending' = Tail(rest \o dPending)
      BY <3>2, <3>3
    <3> QED BY <3>2, <3>3, <3>4 DEF DoubleBuffer!Fifo!Next, DoubleBuffer!Fifo!Run
  <2>8. CASE DoubleBuffer!Clear
    <3>1. dNext = Len(dRunning) + 1
      BY <2>1, <2>8 DEF DoubleBuffer!Clear
    <3>2. dRunning' = <<>> /\ dNext' = 1 /\ UNCHANGED <<dSent, dDone, dPending>>
      BY <2>8 DEF DoubleBuffer!Clear
    <3>3. rest = <<>>
      BY <2>1, <3>1, SubSeqEmpty
    <3>4. SubSeq(dRunning', dNext', Len(dRunning')) = <<>>
      BY <3>2, SubSeqEmpty, EmptyHasLengthZero, EmptySeq
    <3> QED BY <3>2, <3>3, <3>4 DEF DoubleBuffer!Fifo!vars
  <2>9. CASE UNCHANGED DoubleBuffer!vars
    BY <2>9 DEF DoubleBuffer!vars, DoubleBuffer!Fifo!vars
  <2> QED BY <2>3, <2>4, <2>5, <2>6, <2>7, <2>8, <2>9
     DEF DoubleBuffer!Next, DoubleBuffer!ProcessStep
<1> QED BY DoubleInductive, <1>1, <1>2, PTL DEF DoubleBuffer!Spec

-----------------------------------------------------------------------------
(****************************************************************************)
(* FifoTaskQueue.                                                            *)
(****************************************************************************)

PromiseTypeInv ==
  /\ sent \in [Adders -> Nat]
  /\ done \in [Adders -> Nat]
  /\ pending \in Seq(Adders \X Nat)

\* What is pending lies between the two counters of its adder, and the
\* callbacks of one adder are pending in the order of their numbers.
PromiseSorted ==
  /\ \A p \in Adders : done[p] <= sent[p]
  /\ \A i \in 1 .. Len(pending) :
       done[pending[i][1]] < pending[i][2] /\ pending[i][2] <= sent[pending[i][1]]
  /\ \A i, j \in 1 .. Len(pending) :
       i < j /\ pending[i][1] = pending[j][1] => pending[i][2] < pending[j][2]

\* Everything between the two counters is pending.
PromiseComplete ==
  \A p \in Adders, n \in Nat :
    done[p] < n /\ n <= sent[p] =>
      \E i \in 1 .. Len(pending) : pending[i][1] = p /\ pending[i][2] = n

PromiseIInv == PromiseTypeInv /\ PromiseSorted /\ PromiseComplete

-----------------------------------------------------------------------------

\* The oldest callback is the next one of its adder.
LEMMA PromiseHeadIsNext ==
  ASSUME PromiseIInv, pending # <<>>, NEW t, t = Head(pending)
  PROVE  /\ t \in Adders \X Nat
         /\ t[1] \in Adders
         /\ t[2] = done[t[1]] + 1
         /\ done[t[1]] < sent[t[1]]
<1> USE DEF PromiseIInv, PromiseTypeInv
<1>1. pending[1] = t /\ Len(pending) \in Nat /\ 1 \in 1 .. Len(pending)
  OBVIOUS
<1>2. t \in Adders \X Nat
  OBVIOUS
<1> DEFINE p == t[1] n == t[2]
<1>3. p \in Adders /\ n \in Nat
  BY <1>2
<1>4. done[p] < n /\ n <= sent[p]
  BY <1>1 DEF PromiseSorted
<1>5. done[p] \in Nat /\ sent[p] \in Nat
  BY <1>3
<1>6. pending[1][1] = p /\ pending[1][2] = n
  BY <1>1
<1>8. PromiseSorted /\ PromiseComplete
  OBVIOUS
<1> HIDE DEF p, n, PromiseIInv, PromiseTypeInv
<1>9. ASSUME done[p] + 1 < n PROVE FALSE
  <2>1. done[p] + 1 \in Nat /\ done[p] < done[p] + 1 /\ done[p] + 1 <= sent[p]
    BY <1>3, <1>4, <1>5, <1>9
  <2>2. PICK i \in 1 .. Len(pending) : pending[i][1] = p /\ pending[i][2] = done[p] + 1
    BY <2>1, <1>3, <1>8 DEF PromiseComplete
  <2>3. i # 1
    BY <2>2, <1>6, <1>9, <1>3, <1>5
  <2>4. 1 < i
    BY <2>3, <1>1
  <2>5. pending[1][2] < pending[i][2]
    BY <2>2, <2>4, <1>1, <1>6, <1>8 DEF PromiseSorted
  <2>6. n < done[p] + 1
    BY <2>2, <2>5, <1>6
  <2> QED BY <2>6, <1>9, <1>3, <1>5
<1>7. n = done[p] + 1
  BY <1>3, <1>4, <1>5, <1>9
<1> QED BY <1>2, <1>3, <1>4, <1>5, <1>7 DEF p, n

LEMMA PromiseInitIInv == Promise!Init => PromiseIInv
  BY DEF Promise!Init, PromiseIInv, PromiseTypeInv, PromiseSorted, PromiseComplete

LEMMA PromiseAddStep ==
  ASSUME PromiseIInv, NEW p \in Adders, Promise!Add(p)
  PROVE PromiseIInv'
<1> USE DEF PromiseIInv, PromiseTypeInv
<1>1. /\ sent' = [sent EXCEPT ![p] = @ + 1] /\ done' = done
      /\ pending' = Append(pending, <<p, sent[p] + 1>>)
  BY DEF Promise!Add
<1>2. PromiseTypeInv'
  BY <1>1
<1>3. /\ Len(pending) \in Nat /\ Len(pending') = Len(pending) + 1
      /\ pending'[Len(pending')][1] = p /\ pending'[Len(pending')][2] = sent[p] + 1
      /\ \A i \in 1 .. Len(pending) :
           pending'[i] = pending[i] /\ pending[i][1] \in Adders /\ pending[i][2] \in Nat
  BY <1>1
<1>4. /\ sent'[p] = sent[p] + 1 /\ sent[p] \in Nat /\ done[p] \in Nat /\ done[p] <= sent[p]
      /\ \A q \in Adders : q # p => sent'[q] = sent[q]
      /\ \A q \in Adders : sent[q] \in Nat /\ done[q] \in Nat /\ sent[q] <= sent'[q]
  BY <1>1 DEF PromiseSorted
<1>7. PromiseSorted /\ PromiseComplete
  OBVIOUS
<1> HIDE DEF PromiseIInv, PromiseTypeInv
<1>5. PromiseSorted'
  <2>1. \A q \in Adders : done'[q] <= sent'[q]
    BY <1>1, <1>4, <1>7 DEF PromiseSorted
  <2>2. ASSUME NEW i \in 1 .. Len(pending')
        PROVE  done'[pending'[i][1]] < pending'[i][2] /\ pending'[i][2] <= sent'[pending'[i][1]]
    <3>1. CASE i = Len(pending')
      BY <3>1, <1>1, <1>3, <1>4
    <3>2. CASE i # Len(pending')
      <4>1. i \in 1 .. Len(pending) /\ pending'[i] = pending[i]
            /\ pending[i][1] \in Adders /\ pending[i][2] \in Nat
        BY <3>2, <1>3
      <4>2. done[pending[i][1]] < pending[i][2] /\ pending[i][2] <= sent[pending[i][1]]
        BY <4>1, <1>7 DEF PromiseSorted
      <4> QED BY <4>1, <4>2, <1>1, <1>4
    <3> QED BY <3>1, <3>2
  <2>3. ASSUME NEW i \in 1 .. Len(pending'), NEW j \in 1 .. Len(pending'),
               i < j, pending'[i][1] = pending'[j][1]
        PROVE  pending'[i][2] < pending'[j][2]
    <3>1. i \in 1 .. Len(pending) /\ pending'[i] = pending[i] /\ pending[i][2] \in Nat
      BY <2>3, <1>3
    <3>2. CASE j = Len(pending')
      <4>1. pending[i][1] = p /\ pending'[j][2] = sent[p] + 1 /\ pending[i][2] \in Nat
        BY <2>3, <3>1, <3>2, <1>3
      <4>2. pending[i][2] <= sent[p]
        BY <3>1, <4>1, <1>7 DEF PromiseSorted
      <4> QED BY <3>1, <4>1, <4>2, <1>4
    <3>3. CASE j # Len(pending')
      <4>1. j \in 1 .. Len(pending) /\ pending'[j] = pending[j]
        BY <3>3, <1>3
      <4> QED BY <2>3, <3>1, <4>1, <1>7 DEF PromiseSorted
    <3> QED BY <3>2, <3>3
  <2> QED BY <2>1, <2>2, <2>3 DEF PromiseSorted
<1>6. PromiseComplete'
  <2> SUFFICES ASSUME NEW q \in Adders, NEW n \in Nat, done'[q] < n, n <= sent'[q]
               PROVE  \E i \in 1 .. Len(pending') : pending'[i][1] = q /\ pending'[i][2] = n
    BY DEF PromiseComplete
  <2>1. CASE n <= sent[q]
    <3>1. PICK i \in 1 .. Len(pending) : pending[i][1] = q /\ pending[i][2] = n
      BY <2>1, <1>1, <1>7 DEF PromiseComplete
    <3> QED BY <3>1, <1>3
  <2>2. CASE ~(n <= sent[q])
    <3>1. q = p /\ n = sent[p] + 1
      BY <2>2, <1>4
    <3>2. Len(pending') \in 1 .. Len(pending')
      BY <1>3
    <3> QED BY <3>1, <3>2, <1>3
  <2> QED BY <2>1, <2>2
<1> QED BY <1>2, <1>5, <1>6 DEF PromiseIInv

LEMMA PromiseRunStep == ASSUME PromiseIInv, Promise!Run PROVE PromiseIInv'
<1> USE DEF PromiseIInv, PromiseTypeInv
<1> DEFINE t == Head(pending) p == t[1]
<1>1. pending # <<>> /\ done' = [done EXCEPT ![p] = t[2]] /\ sent' = sent /\ pending' = Tail(pending)
  BY DEF Promise!Run
<1>2. t \in Adders \X Nat /\ p \in Adders /\ t[2] = done[p] + 1 /\ done[p] < sent[p]
  BY <1>1, PromiseHeadIsNext
<1>3. t[2] \in Nat
  BY <1>2
<1>4. PromiseTypeInv'
  BY <1>1, <1>3
<1>5. /\ Len(pending) \in Nat /\ Len(pending') = Len(pending) - 1
      /\ pending[1] = t /\ 1 \in 1 .. Len(pending)
      /\ \A i \in 1 .. Len(pending') :
           /\ i + 1 \in 1 .. Len(pending) /\ 1 < i + 1 /\ pending'[i] = pending[i + 1]
           /\ pending[i + 1][1] \in Adders /\ pending[i + 1][2] \in Nat
  BY <1>1
<1>6. /\ done'[p] = done[p] + 1 /\ \A q \in Adders : q # p => done'[q] = done[q]
      /\ \A q \in Adders : sent[q] \in Nat /\ done[q] \in Nat /\ done[q] <= done'[q]
  <2>1. done'[p] = done[p] + 1 /\ \A q \in Adders : q # p => done'[q] = done[q]
    BY <1>1, <1>2
  <2>2. \A q \in Adders : sent[q] \in Nat /\ done[q] \in Nat
    OBVIOUS
  <2> HIDE DEF p, PromiseIInv, PromiseTypeInv
  <2>3. \A q \in Adders : done[q] <= done'[q]
    BY <2>1, <2>2
  <2> QED BY <2>1, <2>2, <2>3
<1>9. PromiseSorted /\ PromiseComplete
  OBVIOUS
<1> HIDE DEF t, p, PromiseIInv, PromiseTypeInv
<1>7. PromiseSorted'
  <2>1. \A q \in Adders : done'[q] <= sent'[q]
    BY <1>1, <1>2, <1>6, <1>9 DEF PromiseSorted
  <2>2. ASSUME NEW i \in 1 .. Len(pending')
        PROVE  done'[pending'[i][1]] < pending'[i][2] /\ pending'[i][2] <= sent'[pending'[i][1]]
    <3>1. /\ i + 1 \in 1 .. Len(pending) /\ pending'[i] = pending[i + 1] /\ 1 < i + 1
          /\ pending[i + 1][1] \in Adders /\ pending[i + 1][2] \in Nat
      BY <1>5
    <3>2. /\ done[pending[i + 1][1]] < pending[i + 1][2]
          /\ pending[i + 1][2] <= sent[pending[i + 1][1]]
          /\ pending[1][1] = pending[i + 1][1] => pending[1][2] < pending[i + 1][2]
      BY <3>1, <1>5, <1>9 DEF PromiseSorted
    <3>3. CASE pending[i + 1][1] = p
      <4>1. t[2] < pending[i + 1][2]
        BY <3>2, <3>3, <1>5, <1>9 DEF p
      <4> QED BY <3>1, <3>2, <3>3, <4>1, <1>1, <1>2, <1>3, <1>6
    <3>4. CASE pending[i + 1][1] # p
      BY <3>1, <3>2, <3>4, <1>1, <1>6
    <3> QED BY <3>3, <3>4
  <2>3. ASSUME NEW i \in 1 .. Len(pending'), NEW j \in 1 .. Len(pending'),
               i < j, pending'[i][1] = pending'[j][1]
        PROVE  pending'[i][2] < pending'[j][2]
    <3>1. /\ i + 1 \in 1 .. Len(pending) /\ pending'[i] = pending[i + 1]
          /\ j + 1 \in 1 .. Len(pending) /\ pending'[j] = pending[j + 1] /\ i + 1 < j + 1
      BY <2>3, <1>5
    <3> QED BY <2>3, <3>1, <1>9 DEF PromiseSorted
  <2> QED BY <2>1, <2>2, <2>3 DEF PromiseSorted
<1>8. PromiseComplete'
  <2> SUFFICES ASSUME NEW q \in Adders, NEW m \in Nat, done'[q] < m, m <= sent'[q]
               PROVE  \E i \in 1 .. Len(pending') : pending'[i][1] = q /\ pending'[i][2] = m
    BY DEF PromiseComplete
  <2>1. done[q] < m /\ m <= sent[q]
    BY <1>1, <1>6
  <2>2. PICK i \in 1 .. Len(pending) : pending[i][1] = q /\ pending[i][2] = m
    BY <2>1, <1>9 DEF PromiseComplete
  <2>3. i # 1
    BY <2>2, <1>5, <1>2, <1>6, <1>9 DEF p
  <2>4. i - 1 \in 1 .. Len(pending') /\ pending'[i - 1] = pending[i]
    BY <2>3, <1>1, <1>5
  <2> QED BY <2>2, <2>4
<1> QED BY <1>4, <1>7, <1>8 DEF PromiseIInv

-----------------------------------------------------------------------------

\* What both queues with a mutex promise includes what every EventQueue
\* promises: each callback once, and in the order of its adder.
THEOREM PromiseRefinesTaskQueue == Promise!Spec =>
  Promise!Abstract!Init /\ [][Promise!Abstract!Next]_(Promise!Abstract!vars)
<1>1. PromiseIInv /\ [Promise!Next]_(Promise!vars) => PromiseIInv'
  <2> SUFFICES ASSUME PromiseIInv, [Promise!Next]_(Promise!vars) PROVE PromiseIInv'
    OBVIOUS
  <2>1. CASE UNCHANGED Promise!vars
    <3>1. UNCHANGED <<sent, done, pending>>
      BY <2>1 DEF Promise!vars
    <3>2. PromiseTypeInv'
      BY <3>1 DEF PromiseIInv, PromiseTypeInv
    <3>3. PromiseSorted'
      BY <3>1 DEF PromiseIInv, PromiseSorted
    <3>4. PromiseComplete'
      BY <3>1 DEF PromiseIInv, PromiseComplete
    <3> QED BY <3>2, <3>3, <3>4 DEF PromiseIInv
  <2> QED BY <2>1, PromiseAddStep, PromiseRunStep DEF Promise!Next
<1>2. Promise!Init => Promise!Abstract!Init
  BY DEF Promise!Init, Promise!Abstract!Init
<1>3. PromiseIInv /\ [Promise!Next]_(Promise!vars) =>
      [Promise!Abstract!Next]_(Promise!Abstract!vars)
  <2> SUFFICES ASSUME PromiseIInv, [Promise!Next]_(Promise!vars)
               PROVE [Promise!Abstract!Next]_(Promise!Abstract!vars)
    OBVIOUS
  <2> USE
     DEF Promise!Abstract!Next, Promise!Abstract!Add, Promise!Abstract!Run, Promise!Abstract!vars
  <2>1. ASSUME NEW p \in Adders, Promise!Add(p) PROVE Promise!Abstract!Next
    BY <2>1 DEF Promise!Add
  <2>2. CASE Promise!Run
    <3> DEFINE t == Head(pending)
    <3>1. t[1] \in Adders /\ t[2] = done[t[1]] + 1 /\ done[t[1]] < sent[t[1]]
      BY <2>2, PromiseHeadIsNext DEF Promise!Run
    <3>2. done' = [done EXCEPT ![t[1]] = @ + 1] /\ sent' = sent
      BY <2>2, <3>1 DEF Promise!Run
    <3> QED BY <3>1, <3>2
  <2>3. CASE UNCHANGED Promise!vars
    BY <2>3 DEF Promise!vars
  <2> QED BY <2>1, <2>2, <2>3 DEF Promise!Next
<1> QED BY PromiseInitIInv, <1>1, <1>2, <1>3, PTL DEF Promise!Spec

-----------------------------------------------------------------------------
(***************************************************************************)
(* EventQueueFactory.                                                       *)
(***************************************************************************)

\* The queue that was made keeps its invariant and the others their initial
\* state, in which theirs hold.
FactoryIInv == IInv /\ BlockingIInv /\ DoubleIInv

\* A queue that was not made takes no step.
LEMMA StillQueues ==
  /\ IInv /\ UNCHANGED vars => IInv'
  /\ BlockingIInv /\ UNCHANGED bVars => BlockingIInv'
  /\ DoubleIInv /\ UNCHANGED dVars => DoubleIInv'
<1>1. IInv /\ UNCHANGED vars => IInv'
  BY StepKeeps
<1>2. BlockingIInv /\ UNCHANGED bVars => BlockingIInv'
  <2>1. UNCHANGED bVars => UNCHANGED Blocking!vars
    BY DEF bVars, Blocking!vars
  <2> QED BY <2>1, BlockingStepKeeps
<1>3. DoubleIInv /\ UNCHANGED dVars => DoubleIInv'
  <2>1. UNCHANGED dVars => UNCHANGED DoubleBuffer!vars
    BY DEF dVars, DoubleBuffer!vars
  <2> QED BY <2>1, DoubleStepKeeps
<1> QED BY <1>1, <1>2, <1>3

\* Whichever of the queues MakeEventQueue chooses, all its variables keep the
\* invariant of that queue.
THEOREM FactoryInvariant == AnyQueue => []FactoryIInv
<1>1. MakeEventQueue => FactoryIInv
  BY InitIInv, BlockingInitIInv, DoubleInitIInv DEF MakeEventQueue, FactoryIInv
<1>2. FactoryIInv /\ [Step]_<<event_queue_type, vars, bVars, dVars>> => FactoryIInv'
  <2> SUFFICES ASSUME FactoryIInv, [Step]_<<event_queue_type, vars, bVars, dVars>>
               PROVE  FactoryIInv'
    OBVIOUS
  <2>1. IInv /\ BlockingIInv /\ DoubleIInv
    BY DEF FactoryIInv
  <2>2. CASE Next /\ UNCHANGED <<bVars, dVars>>
    BY <2>1, <2>2, StepKeeps, StillQueues DEF FactoryIInv
  <2>3. CASE Blocking!Next /\ UNCHANGED <<vars, dVars>>
    BY <2>1, <2>3, BlockingStepKeeps, StillQueues DEF FactoryIInv
  <2>4. CASE DoubleBuffer!Next /\ UNCHANGED <<vars, bVars>>
    BY <2>1, <2>4, DoubleStepKeeps, StillQueues DEF FactoryIInv
  <2>5. CASE UNCHANGED <<event_queue_type, vars, bVars, dVars>>
    BY <2>1, <2>5, StillQueues DEF FactoryIInv
  <2> QED BY <2>2, <2>3, <2>4, <2>5 DEF Step
<1> QED BY <1>1, <1>2, PTL DEF AnyQueue

\* Waking only when the queue was empty before the push loses no wake-up in
\* either queue with a mutex, for any number of threads in Add and of callbacks.
THEOREM NoWakeupIsLostUnderMutex == AnyQueue => []NoLostWakeupUnderMutex
<1>1. FactoryIInv => NoLostWakeupUnderMutex
  BY DEF FactoryIInv, BlockingIInv, DoubleIInv, BlockingWakeInv, DoubleWakeInv,
         Blocking!NoLostWakeup, DoubleBuffer!NoLostWakeup, NoLostWakeupUnderMutex
<1> QED BY FactoryInvariant, <1>1, PTL
=============================================================================

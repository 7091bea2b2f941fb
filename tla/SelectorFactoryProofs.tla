-------------------------- MODULE SelectorFactoryProofs --------------------------
(***************************************************************************)
(* Proofs about SelectorFactory and its two selectors, for every set of     *)
(* channels, descriptors and events, every size of the buffer of            *)
(* EpollSelector and every bound on the one of Poller.                      *)
(***************************************************************************)
EXTENDS SelectorFactory, FiniteSetTheorems, TLAPS

-----------------------------------------------------------------------------
(* EpollSelector.                                                           *)

\* The kernel reports a channel once in an answer, and for something.
BufInv ==
  /\ \A i \in 1 .. Len(buf) : buf[i].events # {}
  /\ \A i, j \in 1 .. Len(buf) : buf[i].ptr = buf[j].ptr => i = j

IInv == KernelInStep /\ BufInv

\* Ready of a channel, for a set of channels, a buffer and an index.
ReadyIn(members, b, k, c) ==
  IF c \in members THEN UNION {b[i].events : i \in {j \in k .. Len(b) : b[j].ptr = c}} ELSE {}

-----------------------------------------------------------------------------

LEMMA InitIInv == Init => IInv
<1> SUFFICES ASSUME Init PROVE IInv
  OBVIOUS
<1>1. buf \in Seq(Entries) /\ Len(buf) = 0 /\ at = 1 /\ size = InitialSize
  BY DEF Init
<1>2. events \in [Channels -> SUBSET Events] /\ reported = <<>> /\ fatal = FALSE /\ reused = FALSE
  BY DEF Init
<1>3. channel = {} /\ kernel = {}
  BY DEF Init
<1>4. TypeOK
  <2>1. channel \subseteq Channels /\ kernel \subseteq Channels /\ {fatal, reused} \subseteq BOOLEAN
    BY <1>2, <1>3
  <2>2. Len(buf) <= size /\ size \in Nat \ {0} /\ at \in 1 .. Len(buf) + 1
    BY <1>1, SizeAssumption
  <2>3. reported \in {<<>>} \cup (Channels \X SUBSET Conditions)
    BY <1>2
  <2> QED BY <1>1, <1>2, <2>1, <2>2, <2>3 DEF TypeOK
<1> QED BY <1>1, <1>2, <1>3, <1>4 DEF Init, IInv, KernelInStep, BufInv

\* An answer of epoll_wait has the type of buf_ and no channel twice.
LEMMA WaitAnswer ==
  ASSUME IInv, NEW active \in [Channels -> SUBSET Conditions], Wait(active)
  PROVE  /\ buf' \in Seq(Entries) /\ Len(buf') <= size
         /\ BufInv'
         /\ \A i \in 1 .. Len(buf') :
              buf'[i].ptr \in kernel /\ buf'[i].events \subseteq events[buf'[i].ptr] \cup {HangUp}
<1> DEFINE hot == {c \in kernel : Found(active, c) # {}}
           n == IF Cardinality(hot) < size THEN Cardinality(hot) ELSE size
<1>1. kernel \subseteq Channels /\ size \in Nat /\ events \in [Channels -> SUBSET Events]
  BY DEF IInv, KernelInStep, TypeOK
<1>2. n \in Nat /\ n <= size
  <2>1. Cardinality(hot) \in Nat
    BY <1>1, ChannelsAssumption, FS_Subset, FS_CardinalityType
  <2> HIDE DEF hot
  <2> QED BY <1>1, <2>1
<1> HIDE DEF n
<1>3. PICK order \in [1 .. n -> hot] :
        /\ \A i, j \in 1 .. n : order[i] = order[j] => i = j
        /\ buf' = [i \in 1 .. n |-> [ptr |-> order[i], events |-> Found(active, order[i])]]
  BY DEF Wait, n
<1>4. \A i \in 1 .. n : order[i] \in kernel /\ Found(active, order[i]) # {}
  OBVIOUS
<1>5. \A i \in 1 .. n : Found(active, order[i]) \subseteq events[order[i]] \cup {HangUp}
  BY DEF Found
<1>6. \A i \in 1 .. n : Found(active, order[i]) \in SUBSET Conditions
  BY <1>1, <1>4, <1>5 DEF Conditions
<1>7. buf' \in [1 .. n -> Entries]
  BY <1>1, <1>3, <1>4, <1>6 DEF Entries
<1>8. buf' \in Seq(Entries) /\ Len(buf') = n
  BY <1>2, <1>7
<1>9. \A i \in 1 .. n : buf'[i].ptr = order[i] /\ buf'[i].events = Found(active, order[i])
  BY <1>3
<1> QED BY <1>2, <1>3, <1>4, <1>5, <1>8, <1>9 DEF BufInv

LEMMA NextIInv == IInv /\ [Next]_vars => IInv'
<1> SUFFICES ASSUME IInv, [Next]_vars PROVE IInv'
  OBVIOUS
<1> USE DEF IInv, KernelInStep
<1>1. TypeOK /\ kernel = channel /\ ~fatal
  OBVIOUS
<1>2. CASE UNCHANGED vars
  BY <1>2 DEF vars, TypeOK, BufInv
<1>3. ASSUME NEW c \in Channels, NEW wanted \in SUBSET Events, Add(c, wanted) PROVE IInv'
  <2>0. fatal' \in BOOLEAN /\ ~fatal'
    <3>1. c \notin kernel /\ fatal' = (c \in kernel)
      BY <1>1, <1>3 DEF Add
    <3>2. (c \in kernel) \in BOOLEAN
      OBVIOUS
    <3> QED BY <3>1, <3>2
  <2>1. channel' = kernel' /\ UNCHANGED <<buf, size, at>>
    BY <1>1, <1>3 DEF Add
  <2>2. events' \in [Channels -> SUBSET Events]
    BY <1>3 DEF Add, TypeOK
  <2>3. channel' \subseteq Channels /\ reported' = <<>> /\ reused' \in BOOLEAN
    BY <1>3 DEF Add, TypeOK
  <2> QED BY <2>0, <2>1, <2>2, <2>3 DEF TypeOK, BufInv
<1>4. ASSUME NEW c \in Channels, NEW wanted \in SUBSET Events, Update(c, wanted) PROVE IInv'
  <2>1. events' \in [Channels -> SUBSET Events]
    BY <1>4 DEF Update, TypeOK
  <2> QED BY <1>1, <1>4, <2>1 DEF Update, TypeOK, BufInv
<1>5. ASSUME NEW c \in Channels, Remove(c) PROVE IInv'
  BY <1>1, <1>5 DEF Remove, TypeOK, BufInv
<1>6. ASSUME NEW active \in [Channels -> SUBSET Conditions], Wait(active) PROVE IInv'
  <2>1. buf' \in Seq(Entries) /\ Len(buf') <= size /\ BufInv'
    BY <1>6, WaitAnswer
  <2>2. at' = 1 /\ reported' = <<>> /\ UNCHANGED <<channel, kernel, events, fatal, reused>>
    BY <1>6 DEF Wait
  <2>3. size' = size \/ size' = 2 * size
    BY <1>6 DEF Wait
  <2>4. size' \in Nat \ {0} /\ Len(buf') <= size'
    BY <2>1, <2>3 DEF TypeOK
  <2> QED BY <1>1, <2>1, <2>2, <2>4 DEF TypeOK
<1>7. CASE WaitFails
  BY <1>1, <1>7 DEF WaitFails, TypeOK, BufInv
<1>8. CASE Get
  <2>1. /\ at \in 1 .. Len(buf) /\ at' = at + 1
        /\ UNCHANGED <<channel, kernel, events, buf, size, fatal, reused>>
    BY <1>8 DEF Get, TypeOK
  <2>2. buf[at] \in Entries
    BY <2>1 DEF TypeOK
  <2>3. reported' \in {<<>>} \cup (Channels \X SUBSET Conditions)
    BY <1>8, <2>2 DEF Get, Entries
  <2> QED BY <1>1, <2>1, <2>3 DEF TypeOK, BufInv
<1> QED BY <1>2, <1>3, <1>4, <1>5, <1>6, <1>7, <1>8 DEF Next

-----------------------------------------------------------------------------
(* The refinement.                                                          *)

\* A channel without an entry still to come has nothing ready.
LEMMA NoEntry ==
  ASSUME NEW members, NEW b \in Seq(Entries), NEW k \in Nat, NEW c,
         \/ c \notin members
         \/ \A i \in k .. Len(b) : b[i].ptr # c
  PROVE  ReadyIn(members, b, k, c) = {}
  BY DEF ReadyIn

\* Entry i is the only one for c from k on.
Only(b, k, i, c) == \A j \in k .. Len(b) : b[j].ptr = c <=> j = i

\* With one entry, a channel has ready what the entry holds.
LEMMA OneEntry ==
  ASSUME NEW members, NEW b \in Seq(Entries), NEW k \in Nat \ {0}, NEW i \in k .. Len(b),
         NEW c \in members, Only(b, k, i, c)
  PROVE  ReadyIn(members, b, k, c) = b[i].events
<1>1. {j \in k .. Len(b) : b[j].ptr = c} = {i}
  BY DEF Only
<1>2. {b[j].events : j \in {i}} = {b[i].events}
  OBVIOUS
<1>3. UNION {b[i].events} = b[i].events
  OBVIOUS
<1> QED BY <1>1, <1>2, <1>3 DEF ReadyIn

\* Get takes the first entry and leaves the others.
LEMMA OthersStay ==
  ASSUME NEW members, NEW b \in Seq(Entries), NEW k \in 1 .. Len(b), NEW c, b[k].ptr # c
  PROVE  ReadyIn(members, b, k + 1, c) = ReadyIn(members, b, k, c)
<1>1. {j \in k .. Len(b) : b[j].ptr = c} = {j \in k + 1 .. Len(b) : b[j].ptr = c}
  OBVIOUS
<1> QED BY <1>1 DEF ReadyIn

\* The mapping for the variable ready of Selector.
Map == [c \in Channels |-> Ready(c)]

LEMMA MapIsReadyIn ==
  \A c \in Channels : /\ Map[c] = ReadyIn(channel, buf, at, c)
                      /\ Map'[c] = ReadyIn(channel', buf', at', c)
  BY DEF Map, Ready, ReadyIn

LEMMA RefineInit == Init => S!Init
<1> SUFFICES ASSUME Init PROVE S!Init
  OBVIOUS
<1>1. Map = [c \in Channels |-> {}]
  BY DEF Init, Map, Ready
<1> QED BY <1>1 DEF Init, S!Init, Map

\* What stays ready over a step that keeps the buffer and the index.
LEMMA SameReady ==
  ASSUME UNCHANGED <<buf, at>>, NEW d \in Channels, d \in channel' <=> d \in channel
  PROVE  Map'[d] = Map[d]
  BY DEF Map, Ready

LEMMA RefineAdd ==
  ASSUME IInv, NEW c \in Channels, NEW wanted \in SUBSET Events, Add(c, wanted), ~reused'
  PROVE  S!Add(c)
<1>1. c \notin channel /\ channel' = channel \cup {c} /\ UNCHANGED <<buf, at>>
  BY DEF Add
<1>2. ~Waiting(c)
  BY DEF Add
<1>3. buf \in Seq(Entries) /\ at \in Nat
  BY DEF IInv, KernelInStep, TypeOK
<1>4. Map[c] = {} /\ Map'[c] = {}
  <2>1. ReadyIn(channel, buf, at, c) = {} /\ ReadyIn(channel', buf, at, c) = {}
    BY <1>1, <1>2, <1>3, NoEntry DEF Waiting
  <2> QED BY <1>1, <2>1, MapIsReadyIn
<1>5. \A d \in Channels : d # c => Map'[d] = Map[d]
  BY <1>1, SameReady
<1>6. Map' = Map
  BY <1>4, <1>5 DEF Map
<1> QED BY <1>1, <1>6 DEF Add, S!Add, Map

LEMMA RefineUpdate ==
  ASSUME NEW c \in Channels, NEW wanted \in SUBSET Events, Update(c, wanted)
  PROVE  S!Update(c)
<1>1. \A d \in Channels : Map'[d] = Map[d]
  BY SameReady DEF Update
<1>2. Map' = Map
  BY <1>1 DEF Map
<1> QED BY <1>2 DEF Update, S!Update, Map

LEMMA RefineRemove ==
  ASSUME NEW c \in Channels, Remove(c)
  PROVE  S!Remove(c)
<1>1. c \in channel /\ channel' = channel \ {c} /\ UNCHANGED <<buf, at>>
  BY DEF Remove
<1>2. Map'[c] = {}
  BY <1>1 DEF Map, Ready
<1>3. \A d \in Channels : d # c => Map'[d] = Map[d]
  BY <1>1, SameReady
<1>4. Map' = [Map EXCEPT ![c] = {}]
  BY <1>2, <1>3 DEF Map
<1> QED BY <1>1, <1>4 DEF Remove, S!Remove, Map

LEMMA RefineWait ==
  ASSUME IInv, NEW active \in [Channels -> SUBSET Conditions], Wait(active)
  PROVE  S!Wait
<1>1. /\ at' = 1 /\ reported' = <<>> /\ UNCHANGED <<channel, events>>
      /\ kernel = channel /\ events \in [Channels -> SUBSET Events]
  BY DEF Wait, IInv, KernelInStep, TypeOK
<1>2. /\ buf' \in Seq(Entries) /\ BufInv'
      /\ \A i \in 1 .. Len(buf') :
           buf'[i].ptr \in channel /\ buf'[i].events \subseteq events[buf'[i].ptr] \cup {HangUp}
  BY <1>1, WaitAnswer
<1>3. \A c \in Channels : Map'[c] \subseteq S!Findable(c)
  <2> SUFFICES ASSUME NEW c \in Channels PROVE Map'[c] \subseteq S!Findable(c)
    OBVIOUS
  <2>1. Map'[c] = ReadyIn(channel', buf', 1, c)
    BY <1>1, MapIsReadyIn
  <2>2. CASE \A i \in 1 .. Len(buf') : buf'[i].ptr # c
    BY <1>2, <2>1, <2>2, NoEntry
  <2>3. ASSUME NEW i \in 1 .. Len(buf'), buf'[i].ptr = c PROVE Map'[c] \subseteq S!Findable(c)
    <3>1. ReadyIn(channel', buf', 1, c) = buf'[i].events
      <4>1. c \in channel' /\ Only(buf', 1, i, c)
        BY <1>1, <1>2, <2>3 DEF BufInv, Only
      <4> QED BY <1>2, <2>3, <4>1, OneEntry
    <3> QED BY <1>2, <2>1, <2>3, <3>1 DEF S!Findable
  <2> QED BY <2>2, <2>3
<1>4. Map' \in [Channels -> SUBSET S!Conditions]
  <2>1. \A c \in Channels : S!Findable(c) \subseteq S!Conditions
    BY <1>1 DEF S!Findable, S!Conditions
  <2> QED BY <1>3, <2>1 DEF Map
<1> QED BY <1>1, <1>3, <1>4 DEF S!Wait, Map

LEMMA RefineWaitFails == ASSUME IInv, WaitFails PROVE S!Other
<1>1. buf \in Seq(Entries) /\ at \in Nat /\ at > Len(buf)
  BY DEF IInv, KernelInStep, TypeOK, WaitFails
<1>2. \A c \in Channels : Map[c] = {}
  BY <1>1, NoEntry, MapIsReadyIn
<1>3. \A c \in Channels : Map'[c] = {}
  BY DEF WaitFails, Map, Ready
<1>4. Map' = Map
  BY <1>2, <1>3 DEF Map
<1> QED BY <1>4 DEF WaitFails, S!Other, Map

LEMMA RefineGet ==
  ASSUME IInv, Get
  PROVE  S!Other \/ \E c \in Channels : S!Get(c)
<1> DEFINE c == buf[at].ptr
<1>1. /\ buf \in Seq(Entries) /\ at \in 1 .. Len(buf) /\ at' = at + 1
      /\ UNCHANGED <<buf, channel, events>>
  BY DEF IInv, KernelInStep, TypeOK, Get
<1>2. c \in Channels /\ buf[at].ptr = c /\ Only(buf, at, at, c)
  <2>1. buf[at] \in Entries
    BY <1>1
  <2>2. \A j \in 1 .. Len(buf) : buf[j].ptr = buf[at].ptr => j = at
    BY <1>1 DEF IInv, BufInv
  <2>3. at .. Len(buf) \subseteq 1 .. Len(buf)
    BY <1>1
  <2> QED BY <2>1, <2>2, <2>3 DEF Entries, Only
<1> HIDE DEF c
<1>3. \A d \in Channels : d # c => Map'[d] = Map[d]
  <2>1. \A d \in Channels : d # c => ReadyIn(channel, buf, at + 1, d) = ReadyIn(channel, buf, at, d)
    BY <1>1, <1>2, OthersStay
  <2> QED BY <1>1, <2>1, MapIsReadyIn
<1>4. Map'[c] = {}
  <2>1. \A j \in at + 1 .. Len(buf) : buf[j].ptr # c
    BY <1>1, <1>2 DEF Only
  <2>2. ReadyIn(channel, buf, at + 1, c) = {}
    BY <1>1, <2>1, NoEntry
  <2> QED BY <1>1, <1>2, <2>2, MapIsReadyIn
<1>5. CASE c \in channel
  <2>1. ReadyIn(channel, buf, at, c) = buf[at].events
    BY <1>1, <1>2, <1>5, OneEntry
  <2>2. Map[c] = buf[at].events /\ Map[c] # {}
    <3>1. buf[at].events # {}
      BY <1>1 DEF IInv, BufInv
    <3> QED BY <1>2, <2>1, <3>1, MapIsReadyIn
  <2>3. reported' = <<c, Map[c]>>
    BY <1>2, <1>5, <2>2 DEF Get
  <2>4. Map' = [Map EXCEPT ![c] = {}]
    BY <1>2, <1>3, <1>4 DEF Map
  <2>5. S!Get(c)
    BY <1>1, <2>2, <2>3, <2>4 DEF S!Get, Map
  <2> QED BY <1>2, <2>5
<1>6. CASE c \notin channel
  <2>1. Map[c] = {}
    BY <1>2, <1>6 DEF Map, Ready
  <2>2. Map' = Map
    BY <1>3, <1>4, <2>1 DEF Map
  <2>3. reported' = <<>>
    BY <1>2, <1>6 DEF Get
  <2> QED BY <1>1, <2>2, <2>3 DEF S!Other, Map
<1> QED BY <1>5, <1>6

LEMMA RefineNext == IInv /\ [Next]_vars => [S!Next \/ reused']_S!vars
<1> SUFFICES ASSUME IInv, [Next]_vars, ~reused' PROVE S!Next \/ UNCHANGED S!vars
  OBVIOUS
<1>1. CASE UNCHANGED vars
  BY <1>1 DEF vars, S!vars, Ready
<1>2. CASE \E c \in Channels, wanted \in SUBSET Events : Add(c, wanted) \/ Update(c, wanted)
  BY <1>2, RefineAdd, RefineUpdate DEF S!Next
<1>3. CASE \E c \in Channels : Remove(c)
  BY <1>3, RefineRemove DEF S!Next
<1>4. CASE \E active \in [Channels -> SUBSET Conditions] : Wait(active)
  BY <1>4, RefineWait DEF S!Next
<1>5. CASE WaitFails
  BY <1>5, RefineWaitFails DEF S!Next
<1>6. CASE Get
  BY <1>6, RefineGet DEF S!Next
<1> QED BY <1>1, <1>2, <1>3, <1>4, <1>5, <1>6 DEF Next

-----------------------------------------------------------------------------

\* Whatever the channels, the size of the buffer and the order in which channels
\* come, go and become ready, the epoll selector keeps the promise of Selector
\* until an address is used again while a report for it waits in buf_.
THEOREM RefinesSelector == Spec => Implements
<1>1. Spec => []IInv
  BY InitIInv, NextIInv, PTL DEF Spec
<1> QED BY <1>1, RefineInit, RefineNext, PTL DEF Spec, Implements

\* channel_ and the epoll descriptor name the same channels at all times: no
\* epoll_ctl ever fails, which would be FATAL.
THEOREM KernelStaysInStep == Spec => []KernelInStep
<1>1. IInv => KernelInStep
  BY DEF IInv
<1> QED BY InitIInv, NextIInv, <1>1, PTL DEF Spec

-----------------------------------------------------------------------------
(* Poller: the positions that CleanUp takes and std::partition exchanges.    *)

\* Cardinality is one operator, whether Poller or EpollSelector brings it.
LEMMA CountIs == \A P : Poll!Cardinality(P) = Cardinality(P)
  BY DEF Poll!Cardinality, Cardinality

\* Among n positions, the ranks of those in a set are 1, 2 ... in their order.
LEMMA RankIsOneToOne ==
  ASSUME NEW n \in Nat, NEW P \in SUBSET (1 .. n)
  PROVE  /\ IsFiniteSet(P) /\ Cardinality(P) \in 0 .. n
         /\ \A i \in P : Poll!Rank(P, i) \in 1 .. Cardinality(P)
         /\ \A i, j \in P : Poll!Rank(P, i) = Poll!Rank(P, j) => i = j
<1> DEFINE Upto(i) == {j \in P : j <= i}
<1>1. IsFiniteSet(P) /\ Cardinality(P) \in 0 .. n
  <2>1. IsFiniteSet(1 .. n) /\ Cardinality(1 .. n) = n
    BY FS_Interval
  <2>2. IsFiniteSet(P) /\ Cardinality(P) <= Cardinality(1 .. n)
    BY <2>1, FS_Subset
  <2>3. Cardinality(P) \in Nat
    BY <2>2, FS_CardinalityType
  <2> QED BY <2>1, <2>2, <2>3
<1>2. \A i : Poll!Rank(P, i) = Cardinality(Upto(i))
  BY CountIs DEF Poll!Rank
<1>3. \A i \in P : IsFiniteSet(Upto(i)) /\ Cardinality(Upto(i)) \in 1 .. Cardinality(P)
  <2> SUFFICES ASSUME NEW i \in P
      PROVE  IsFiniteSet(Upto(i)) /\ Cardinality(Upto(i)) \in 1 .. Cardinality(P)
    OBVIOUS
  <2>1. Upto(i) \in SUBSET P /\ i \in Upto(i)
    OBVIOUS
  <2> HIDE DEF Upto
  <2>2. IsFiniteSet(Upto(i)) /\ Cardinality(Upto(i)) <= Cardinality(P)
    BY <1>1, <2>1, FS_Subset
  <2>3. Cardinality(Upto(i)) \in Nat /\ Cardinality(Upto(i)) # 0
    BY <2>1, <2>2, FS_CardinalityType, FS_EmptySet
  <2> QED BY <1>1, <2>2, <2>3
<1>4. ASSUME NEW i \in P, NEW j \in P, i < j PROVE Cardinality(Upto(i)) # Cardinality(Upto(j))
  <2>1. Upto(i) \in SUBSET Upto(j) /\ j \in Upto(j) /\ j \notin Upto(i)
    <3>1. /\ i \in Int /\ j \in Int /\ i < j
          /\ \A k \in P : k \in Int
      BY <1>4
    <3>2. \A k \in P : k <= i => k <= j
      BY <3>1
    <3>3. j <= j /\ ~(j <= i)
      BY <3>1
    <3> QED BY <3>2, <3>3
  <2> HIDE DEF Upto
  <2>2. Cardinality(Upto(j)) = Cardinality(Upto(i)) => Upto(j) = Upto(i)
    BY <1>3, <2>1, FS_Subset
  <2> QED BY <2>1, <2>2
<1>5. ASSUME NEW i \in P, NEW j \in P, Poll!Rank(P, i) = Poll!Rank(P, j) PROVE i = j
  <2>1. i \in Int /\ j \in Int
    OBVIOUS
  <2>2. ~(i < j) /\ ~(j < i)
    BY <1>2, <1>4, <1>5
  <2> QED BY <2>1, <2>2
<1> HIDE DEF Upto
<1> QED BY <1>1, <1>2, <1>3, <1>5

\* ... and every one of these numbers is the rank of one position.
LEMMA KthIsInverse ==
  ASSUME NEW n \in Nat, NEW P \in SUBSET (1 .. n)
  PROVE  /\ \A k \in 1 .. Cardinality(P) : Poll!Kth(P, k) \in P /\ Poll!Rank(P, Poll!Kth(P, k)) = k
         /\ \A i \in P : Poll!Kth(P, Poll!Rank(P, i)) = i
<1> DEFINE T == 1 .. Cardinality(P)
           rank == [i \in P |-> Poll!Rank(P, i)]
<1>1. /\ IsFiniteSet(P) /\ Cardinality(P) \in Nat
      /\ \A i \in P : Poll!Rank(P, i) \in T
      /\ \A i, j \in P : Poll!Rank(P, i) = Poll!Rank(P, j) => i = j
  BY RankIsOneToOne
<1>2. IsFiniteSet(T) /\ Cardinality(T) = Cardinality(P)
  BY <1>1, FS_Interval
<1> HIDE DEF T
<1>3. rank \in Injection(P, T)
  BY <1>1 DEF Injection, IsInjective
<1> HIDE DEF rank
<1>4. rank \in Surjection(P, T)
  BY <1>2, <1>3, FS_Injection
<1> USE DEF rank
<1>5. \A k \in T : \E i \in P : Poll!Rank(P, i) = k
  BY <1>4 DEF Surjection
<1>6. \A k \in T : Poll!Kth(P, k) \in P /\ Poll!Rank(P, Poll!Kth(P, k)) = k
  BY <1>5 DEF Poll!Kth
<1>7. \A i \in P : Poll!Kth(P, Poll!Rank(P, i)) = i
  BY <1>1, <1>6
<1> QED BY <1>6, <1>7 DEF T

\* What faces each other does so both ways.
LEMMA MirrorOfMirror ==
  ASSUME NEW n \in Nat, NEW P \in SUBSET (1 .. n), NEW Q \in SUBSET (1 .. n),
         Cardinality(P) = Cardinality(Q), NEW i \in P
  PROVE  /\ Poll!Mirror(P, Q, i) \in Q
         /\ Poll!Mirror(Q, P, Poll!Mirror(P, Q, i)) = i
<1> DEFINE q == Cardinality(Q)
           k == q + 1 - Poll!Rank(P, i)
           j == Poll!Kth(Q, k)
<1>1. q \in Nat /\ Poll!Rank(P, i) \in 1 .. q
  <2>1. Cardinality(Q) \in 0 .. n
    BY RankIsOneToOne
  <2>2. Poll!Rank(P, i) \in 1 .. Cardinality(P)
    BY RankIsOneToOne
  <2> QED BY <2>1, <2>2
<1>2. k \in 1 .. q /\ q + 1 - k = Poll!Rank(P, i)
  BY <1>1
<1>3. Poll!Mirror(P, Q, i) = j
  BY CountIs DEF Poll!Mirror
<1> HIDE DEF k
<1>4. j \in Q /\ Poll!Rank(Q, j) = k
  BY <1>2, KthIsInverse
<1> HIDE DEF j
<1>5. Poll!Mirror(Q, P, j) = Poll!Kth(P, Poll!Rank(P, i))
  BY <1>2, <1>4, CountIs DEF Poll!Mirror
<1>6. Poll!Kth(P, Poll!Rank(P, i)) = i
  BY KthIsInverse
<1> QED BY <1>3, <1>4, <1>5, <1>6

\* A sequence with every entry of another, in places that p exchanges.
Exchanged(s, p, r) ==
  /\ p \in [1 .. Len(s) -> 1 .. Len(s)]
  /\ \A i \in 1 .. Len(s) : p[p[i]] = i
  /\ r = [i \in 1 .. Len(s) |-> s[p[i]]]

\* std::partition exchanges entries and leaves those with events in front.
LEMMA PartitionExchanges ==
  ASSUME NEW s \in Seq(Poll!Pollfds)
  PROVE  /\ Cardinality(Poll!Hits(s)) \in 0 .. Len(s)
         /\ \E p : Exchanged(s, p, Poll!Partition(s))
         /\ \A i \in 1 .. Cardinality(Poll!Hits(s)) : Poll!Partition(s)[i].revents # {}
<1> DEFINE n == Len(s)
           H == Poll!Hits(s)
           m == Cardinality(H)
           front == (1 .. m) \ H
           back == H \ (1 .. m)
           p == [i \in 1 .. n |-> IF i \in front THEN Poll!Mirror(front, back, i)
                                 ELSE IF i \in back THEN Poll!Mirror(back, front, i)
                                 ELSE i]
<1>1. n \in Nat /\ DOMAIN s = 1 .. n
  OBVIOUS
<1>2. H \in SUBSET (1 .. n) /\ \A i \in H : s[i].revents # {}
  BY <1>1 DEF Poll!Hits
<1> HIDE DEF n, H
<1>3. IsFiniteSet(H) /\ m \in 0 .. n
  BY <1>1, <1>2, RankIsOneToOne
<1> HIDE DEF m
<1>4. IsFiniteSet(1 .. m) /\ Cardinality(1 .. m) = m
  BY <1>3, FS_Interval
<1>5. Cardinality(front) = Cardinality(back)
  <2>1. Cardinality(front) = m - Cardinality((1 .. m) \cap H)
    BY <1>4, FS_Difference
  <2>2. Cardinality(back) = m - Cardinality(H \cap (1 .. m))
    BY <1>3, FS_Difference DEF m
  <2>3. (1 .. m) \cap H = H \cap (1 .. m)
    OBVIOUS
  <2> QED BY <2>1, <2>2, <2>3
<1>6. front \in SUBSET (1 .. n) /\ back \in SUBSET (1 .. n) /\ front \cap back = {}
  BY <1>1, <1>2, <1>3
<1>7. 1 .. m \subseteq front \cup H
  OBVIOUS
<1>8. back \subseteq H /\ (1 .. m) \cap back = {}
  OBVIOUS
<1> HIDE DEF front, back
<1>9. \A i \in front : /\ Poll!Mirror(front, back, i) \in back
                       /\ Poll!Mirror(back, front, Poll!Mirror(front, back, i)) = i
  BY <1>1, <1>5, <1>6, MirrorOfMirror
<1>10. \A i \in back : /\ Poll!Mirror(back, front, i) \in front
                       /\ Poll!Mirror(front, back, Poll!Mirror(back, front, i)) = i
  BY <1>1, <1>5, <1>6, MirrorOfMirror
<1>11. p \in [1 .. n -> 1 .. n]
  BY <1>6, <1>9, <1>10
<1>12. \A i \in 1 .. n : p[p[i]] = i
  BY <1>6, <1>9, <1>10
<1>13. Poll!Partition(s) = [i \in 1 .. n |-> s[p[i]]]
  <2>1. Poll!Partition(s) = [i \in 1 .. n |->
          IF i \in front THEN s[Poll!Mirror(front, back, i)]
          ELSE IF i \in back THEN s[Poll!Mirror(back, front, i)] ELSE s[i]]
    BY <1>1, CountIs DEF Poll!Partition, front, back, m, H
  <2> QED BY <2>1
<1>14. \A i \in 1 .. m : p[i] \in H
  <2>1. \A i \in 1 .. m : i \in 1 .. n /\ i \notin back
    BY <1>1, <1>3, <1>8
  <2>2. \A i \in 1 .. m : p[i] = IF i \in front THEN Poll!Mirror(front, back, i) ELSE i
    BY <2>1
  <2> QED BY <1>7, <1>8, <1>9, <2>2
<1> HIDE DEF p
<1>15. \A i \in 1 .. m : Poll!Partition(s)[i].revents # {}
  <2>1. \A i \in 1 .. m : i \in 1 .. n
    BY <1>1, <1>3
  <2> QED BY <1>2, <1>13, <1>14, <2>1
<1>16. Exchanged(s, p, Poll!Partition(s))
  BY <1>11, <1>12, <1>13 DEF Exchanged, n
<1> QED BY <1>3, <1>15, <1>16 DEF m, n, H

-----------------------------------------------------------------------------
(* The invariant of Poller.                                                 *)

In(ch, f) == ch[f] # Poll!NoLocator

\* A registered descriptor is the one of its channel, has an entry in b and a
\* position there.
Entered(b, ch, d) ==
  /\ b \in Seq(Poll!Pollfds) /\ Len(b) <= MaxBuf
  /\ ch \in [Fds -> [pos : 0 .. MaxBuf, channel : Channels \cup {None}]]
  /\ \A f \in Fds : In(ch, f) =>
       /\ ch[f].pos \in 1 .. Len(b)
       /\ ch[f].channel \in Channels /\ d[ch[f].channel] = f
       /\ \E i \in 1 .. Len(b) : b[i].fd = f

\* No descriptor has two entries, and one that is registered is polled for what
\* its channel has asked for.
Exact(b, ch, ev) ==
  /\ \A i, j \in 1 .. Len(b) : b[i].fd = b[j].fd => i = j
  /\ \A f \in Fds : In(ch, f) =>
       \A i \in 1 .. Len(b) : b[i].fd = f => b[i].events = ev[ch[f].channel]

PollInv ==
  /\ Poll!TypeOK
  /\ \A c, d \in Channels : fd[c] = fd[d] /\ fd[c] # None => c = d
  /\ Entered(pollBuf, channels, fd)
  /\ spoiled = "no" => Exact(pollBuf, channels, pollEvents)
  /\ \A i \in 1 .. ready : pollBuf[i].revents # {}

\* The entries of r are entries of b in other places, up to their revents.
Moved(b, r, q) ==
  /\ q \in [1 .. Len(r) -> 1 .. Len(b)]
  /\ \A i, j \in 1 .. Len(r) : q[i] = q[j] => i = j
  /\ \A i \in 1 .. Len(r) : r[i].fd = b[q[i]].fd /\ r[i].events = b[q[i]].events

SameLocators(ch, chs) ==
  \A f \in Fds : (In(chs, f) <=> In(ch, f)) /\ chs[f].channel = ch[f].channel

LEMMA ExactStays ==
  ASSUME NEW b, NEW r, NEW q, NEW ch, NEW chs, NEW ev, Exact(b, ch, ev), Moved(b, r, q),
         SameLocators(ch, chs)
  PROVE  Exact(r, chs, ev)
<1>1. \A i, j \in 1 .. Len(r) : r[i].fd = r[j].fd => i = j
  BY DEF Exact, Moved
<1>2. ASSUME NEW f \in Fds, In(chs, f), NEW i \in 1 .. Len(r), r[i].fd = f
      PROVE  r[i].events = ev[chs[f].channel]
  BY <1>2 DEF Exact, Moved, SameLocators
<1> QED BY <1>1, <1>2 DEF Exact

\* CleanUp drops no entry of a registered descriptor.
LEMMA KeptEntries ==
  ASSUME PollInv
  PROVE  /\ Poll!Kept \in Seq(Poll!Pollfds) /\ Len(Poll!Kept) <= MaxBuf
         /\ \E q : Moved(pollBuf, Poll!Kept, q)
         /\ \A f \in Fds : In(channels, f) => \E k \in 1 .. Len(Poll!Kept) : Poll!Kept[k].fd = f
<1> DEFINE n == Len(pollBuf)
           stay == {i \in DOMAIN pollBuf : Poll!Registered(pollBuf[i].fd)}
           m == Cardinality(stay)
           q == [k \in 1 .. m |-> Poll!Kth(stay, k)]
<1>1. /\ pollBuf \in Seq(Poll!Pollfds) /\ n \in Nat /\ n <= MaxBuf /\ MaxBuf \in Nat
      /\ DOMAIN pollBuf = 1 .. n /\ stay \in SUBSET (1 .. n)
  BY PollerAssumption DEF PollInv, Entered, Poll!Parameters
<1>2. \A f \in Fds : In(channels, f) => \E i \in stay : pollBuf[i].fd = f
  BY <1>1 DEF PollInv, Entered, In, Poll!Registered
<1>3. Poll!Kept = [k \in 1 .. m |-> pollBuf[Poll!Kth(stay, k)]]
  BY CountIs DEF Poll!Kept
<1> HIDE DEF n, stay
<1>4. m \in 0 .. n /\ \A i \in stay : Poll!Rank(stay, i) \in 1 .. m
  BY <1>1, RankIsOneToOne
<1>5. /\ \A k \in 1 .. m : Poll!Kth(stay, k) \in stay /\ Poll!Rank(stay, Poll!Kth(stay, k)) = k
      /\ \A i \in stay : Poll!Kth(stay, Poll!Rank(stay, i)) = i
  BY <1>1, KthIsInverse
<1> HIDE DEF m
<1>6. q \in [1 .. m -> 1 .. n] /\ \A i, j \in 1 .. m : q[i] = q[j] => i = j
  BY <1>1, <1>5
<1>7. Poll!Kept = [k \in 1 .. m |-> pollBuf[q[k]]]
  BY <1>3
<1> HIDE DEF q
<1>8. Poll!Kept \in Seq(Poll!Pollfds) /\ Len(Poll!Kept) = m
  <2>1. \A k \in 1 .. m : pollBuf[q[k]] \in Poll!Pollfds
    BY <1>1, <1>6
  <2>2. m \in Nat
    BY <1>1, <1>4
  <2> QED BY <1>7, <2>1, <2>2
<1>9. Moved(pollBuf, Poll!Kept, q)
  BY <1>6, <1>7, <1>8 DEF Moved, n
<1>10. ASSUME NEW f \in Fds, In(channels, f) PROVE \E k \in 1 .. m : Poll!Kept[k].fd = f
  <2>1. PICK i \in stay : pollBuf[i].fd = f
    BY <1>2, <1>10
  <2>2. Poll!Rank(stay, i) \in 1 .. m /\ q[Poll!Rank(stay, i)] = i
    BY <1>4, <1>5 DEF q
  <2> QED BY <1>7, <2>1, <2>2
<1> QED BY <1>1, <1>4, <1>8, <1>9, <1>10

\* The last of a set of positions is one of them.
LEMMA LastIsIn ==
  ASSUME NEW n \in Nat, NEW P \in SUBSET (1 .. n), P # {}
  PROVE  Poll!LastOf(P) \in P
<1>1. IsFiniteSet(P) /\ Cardinality(P) \in Nat
  BY RankIsOneToOne
<1>2. Cardinality(P) \in 1 .. Cardinality(P)
  <2>1. Cardinality(P) # 0
    BY <1>1, FS_EmptySet
  <2> QED BY <1>1, <2>1
<1> QED BY <1>2, CountIs, KthIsInverse DEF Poll!LastOf

LEMMA CleanedStays ==
  ASSUME PollInv
  PROVE  /\ Entered(Poll!Cleaned.buf, Poll!Cleaned.channels, fd)
         /\ SameLocators(channels, Poll!Cleaned.channels)
         /\ spoiled = "no" => Exact(Poll!Cleaned.buf, Poll!Cleaned.channels, pollEvents)
<1> DEFINE kept == Poll!Kept
           ents(f) == {k \in DOMAIN kept : kept[k].fd = f}
           ch == [f \in Fds |->
                   IF In(channels, f) THEN [channels[f] EXCEPT !.pos = Poll!LastOf(ents(f))]
                   ELSE Poll!NoLocator]
<1>1. CASE ~cleanable
  <2>1. Poll!Cleaned.buf = pollBuf /\ Poll!Cleaned.channels = channels
    BY <1>1 DEF Poll!Cleaned
  <2> QED BY <2>1 DEF PollInv, SameLocators
<1>2. CASE cleanable
  <2>1. Poll!Cleaned.buf = kept /\ Poll!Cleaned.channels = ch
    BY <1>2 DEF Poll!Cleaned, Poll!CleanUp, Poll!Registered, In
  <2>2. /\ kept \in Seq(Poll!Pollfds) /\ Len(kept) <= MaxBuf
        /\ \E q : Moved(pollBuf, kept, q)
        /\ \A f \in Fds : In(channels, f) => \E k \in 1 .. Len(kept) : kept[k].fd = f
    BY KeptEntries
  <2> HIDE DEF kept
  <2>3. DOMAIN kept = 1 .. Len(kept) /\ Len(kept) \in Nat /\ MaxBuf \in Nat
    BY <2>2, PollerAssumption DEF Poll!Parameters
  <2>4. \A f \in Fds : In(channels, f) => Poll!LastOf(ents(f)) \in 1 .. Len(kept)
    <3> SUFFICES ASSUME NEW f \in Fds, In(channels, f) PROVE Poll!LastOf(ents(f)) \in ents(f)
      BY <2>3
    <3>1. ents(f) \in SUBSET (1 .. Len(kept)) /\ ents(f) # {}
      BY <2>2, <2>3
    <3> HIDE DEF ents
    <3> QED BY <2>3, <3>1, LastIsIn
  <2> HIDE DEF ents
  <2>5. /\ channels \in [Fds -> [pos : 0 .. MaxBuf, channel : Channels \cup {None}]]
        /\ \A f \in Fds : In(channels, f) =>
             channels[f].channel \in Channels /\ fd[channels[f].channel] = f
    BY DEF PollInv, Entered
  <2>6. \A f \in Fds : In(channels, f) =>
          /\ ch[f].pos \in 1 .. Len(kept) /\ ch[f].channel = channels[f].channel
          /\ ch[f] \in [pos : 0 .. MaxBuf, channel : Channels \cup {None}]
    BY <2>2, <2>3, <2>4, <2>5
  <2>7. Poll!NoLocator.pos = 0 /\ Poll!NoLocator.channel = None
        /\ Poll!NoLocator \in [pos : 0 .. MaxBuf, channel : Channels \cup {None}]
    BY <2>3 DEF Poll!NoLocator
  <2>8. \A f \in Fds : ~In(channels, f) => ch[f] = Poll!NoLocator /\ channels[f] = Poll!NoLocator
    BY DEF In
  <2>9. \A f \in Fds : In(ch, f) <=> In(channels, f)
    <3> SUFFICES ASSUME NEW f \in Fds PROVE ch[f] # Poll!NoLocator <=> In(channels, f)
      BY DEF In
    <3> HIDE DEF ch
    <3>1. CASE In(channels, f)
      <4>1. ch[f].pos # Poll!NoLocator.pos
        BY <2>3, <2>6, <2>7, <3>1
      <4> QED BY <3>1, <4>1
    <3>2. CASE ~In(channels, f)
      BY <2>8, <3>2
    <3> QED BY <3>1, <3>2
  <2>10. SameLocators(channels, ch)
    BY <2>6, <2>8, <2>9 DEF SameLocators
  <2>11. ch \in [Fds -> [pos : 0 .. MaxBuf, channel : Channels \cup {None}]]
    BY <2>6, <2>7, <2>8
  <2> HIDE DEF ch
  <2>12. Entered(kept, ch, fd)
    BY <2>2, <2>5, <2>6, <2>9, <2>11 DEF Entered
  <2>13. ASSUME spoiled = "no" PROVE Exact(kept, ch, pollEvents)
    BY <2>2, <2>10, <2>13, ExactStays DEF PollInv
  <2> QED BY <2>1, <2>10, <2>12, <2>13
<1>3. cleanable \in BOOLEAN
  BY DEF PollInv, Poll!TypeOK
<1> QED BY <1>1, <1>2, <1>3

\* poll(2) writes revents only, and std::partition moves whole entries.
LEMMA AnswerMoves ==
  ASSUME NEW found \in [Fds -> SUBSET Poll!Conditions], NEW b \in Seq(Poll!Pollfds)
  PROVE  /\ Poll!Answer(b, found) \in Seq(Poll!Pollfds) /\ Len(Poll!Answer(b, found)) = Len(b)
         /\ \A i \in 1 .. Len(b) :
              /\ Poll!Answer(b, found)[i].fd = b[i].fd
              /\ Poll!Answer(b, found)[i].events = b[i].events
              /\ Poll!Answer(b, found)[i].revents \subseteq b[i].events \cup {HangUp}
<1> DEFINE a == Poll!Answer(b, found)
<1>1. Len(b) \in Nat /\ DOMAIN b = 1 .. Len(b) /\ \A i \in 1 .. Len(b) : b[i] \in Poll!Pollfds
  OBVIOUS
<1>2. a = [i \in 1 .. Len(b) |->
            [b[i] EXCEPT !.revents = found[b[i].fd] \cap (b[i].events \cup {HangUp})]]
  BY <1>1 DEF Poll!Answer
<1> HIDE DEF a
<1>3. \A i \in 1 .. Len(b) :
        /\ a[i] \in Poll!Pollfds /\ a[i].fd = b[i].fd /\ a[i].events = b[i].events
        /\ a[i].revents \subseteq b[i].events \cup {HangUp}
  BY <1>1, <1>2 DEF Poll!Pollfds
<1>4. a \in Seq(Poll!Pollfds) /\ Len(a) = Len(b)
  <2>1. a \in [1 .. Len(b) -> Poll!Pollfds]
    BY <1>2, <1>3
  <2> HIDE DEF Poll!Pollfds
  <2> QED BY <1>1, <2>1
<1> QED BY <1>3, <1>4 DEF a

\* What a Wait makes of the entries b that CleanUp has left: every entry is in r,
\* the first n of which have events.
Waited(b, r, n) ==
  /\ r \in Seq(Poll!Pollfds) /\ Len(r) = Len(b) /\ n \in 0 .. Len(b)
  /\ \E q : Moved(b, r, q)
  /\ \A i \in 1 .. Len(b) : \E k \in 1 .. Len(r) : r[k].fd = b[i].fd
  /\ \A i \in 1 .. Len(r) : r[i].revents \subseteq r[i].events \cup {HangUp}
  /\ \A i \in 1 .. n : r[i].revents # {}

LEMMA WaitMoves ==
  ASSUME NEW found \in [Fds -> SUBSET Poll!Conditions], NEW b \in Seq(Poll!Pollfds),
         NEW r, NEW n, r = Poll!Partition(Poll!Answer(b, found)),
         n = Cardinality(Poll!Hits(Poll!Answer(b, found)))
  PROVE  Waited(b, r, n)
<1> DEFINE a == Poll!Answer(b, found)
<1>1. /\ a \in Seq(Poll!Pollfds) /\ Len(a) = Len(b)
      /\ \A i \in 1 .. Len(b) :
           /\ a[i].fd = b[i].fd /\ a[i].events = b[i].events
           /\ a[i].revents \subseteq b[i].events \cup {HangUp}
  BY AnswerMoves
<1>2. n = Cardinality(Poll!Hits(a)) /\ r = Poll!Partition(a)
  OBVIOUS
<1> HIDE DEF a
<1>3. n \in 0 .. Len(b) /\ (\A i \in 1 .. n : r[i].revents # {})
  BY <1>1, <1>2, PartitionExchanges
<1>4. PICK q : Exchanged(a, q, r)
  BY <1>1, <1>2, PartitionExchanges
<1>5. /\ q \in [1 .. Len(b) -> 1 .. Len(b)] /\ \A i \in 1 .. Len(b) : q[q[i]] = i
      /\ r = [i \in 1 .. Len(b) |-> a[q[i]]]
  BY <1>1, <1>4 DEF Exchanged
<1>6. r \in Seq(Poll!Pollfds) /\ Len(r) = Len(b)
  <2>1. \A i \in 1 .. Len(b) : a[q[i]] \in Poll!Pollfds
    BY <1>1, <1>5
  <2> QED BY <1>5, <2>1
<1>7. \A i \in 1 .. Len(b) :
        /\ q[i] \in 1 .. Len(b)
        /\ r[i].fd = b[q[i]].fd /\ r[i].events = b[q[i]].events
        /\ r[i].revents \subseteq r[i].events \cup {HangUp}
  BY <1>1, <1>5
<1>8. \A i, j \in 1 .. Len(b) : q[i] = q[j] => i = j
  BY <1>5
<1>9. Moved(b, r, q)
  BY <1>5, <1>6, <1>7, <1>8 DEF Moved
<1>10. \A i \in 1 .. Len(b) : r[q[i]].fd = b[i].fd
  BY <1>5, <1>7
<1> QED BY <1>1, <1>3, <1>6, <1>7, <1>9, <1>10 DEF Waited

-----------------------------------------------------------------------------

LEMMA PollFacts ==
  ASSUME PollInv
  PROVE  /\ None \notin Channels /\ None \notin Fds /\ MaxBuf \in Nat
         /\ pollBuf \in Seq(Poll!Pollfds) /\ Len(pollBuf) \in Nat /\ Len(pollBuf) <= MaxBuf
         /\ DOMAIN pollBuf = 1 .. Len(pollBuf)
         /\ \A i \in 1 .. Len(pollBuf) : pollBuf[i] \in Poll!Pollfds
         /\ fd \in [Channels -> Fds \cup {None}] /\ pollEvents \in [Channels -> SUBSET Events]
         /\ channels \in [Fds -> [pos : 0 .. MaxBuf, channel : Channels \cup {None}]]
         /\ ready \in 0 .. Len(pollBuf) /\ pollAt \in 1 .. ready + 1
         /\ \A f \in Fds : In(channels, f) <=> Poll!Registered(f)
  BY PollerAssumption DEF PollInv, Poll!TypeOK, Poll!Parameters, In, Poll!Registered

\* The channel of a registered descriptor is the one that has it.
LEMMA OneChannel ==
  ASSUME PollInv, NEW c \in Channels, NEW f \in Fds, In(channels, f)
  PROVE  channels[f].channel = c <=> fd[c] = f
<1>1. channels[f].channel \in Channels /\ fd[channels[f].channel] = f /\ f # None
  BY PollFacts DEF PollInv, Entered
<1> QED BY <1>1 DEF PollInv

LEMMA PollAdd ==
  ASSUME PollInv, NEW c \in Channels, NEW f \in Fds, NEW wanted \in SUBSET Events,
         Poll!Add(c, f, wanted)
  PROVE  PollInv'
<1> DEFINE n == Len(pollBuf)
           e == [fd |-> f, events |-> wanted, revents |-> {}]
<1>1. /\ fd[c] = None /\ (\A d \in Channels : fd[d] # f) /\ n < MaxBuf
      /\ fd' = [fd EXCEPT ![c] = f] /\ pollEvents' = [pollEvents EXCEPT ![c] = wanted]
      /\ pollBuf' = Append(pollBuf, e)
      /\ channels' = [channels EXCEPT ![f] = [pos |-> Len(pollBuf'), channel |-> c]]
      /\ spoiled' = IF \E i \in 1 .. n : pollBuf[i].fd = f THEN "reused" ELSE spoiled
      /\ pollReported' = <<>> /\ UNCHANGED <<cleanable, ready, pollAt>>
  BY DEF Poll!Add
<1>2. e \in Poll!Pollfds /\ e.fd = f /\ e.events = wanted
  BY DEF Poll!Pollfds
<1> HIDE DEF e
<1>3. /\ pollBuf' \in Seq(Poll!Pollfds) /\ Len(pollBuf') = n + 1 /\ n \in Nat
      /\ pollBuf'[n + 1] = e /\ \A i \in 1 .. n : pollBuf'[i] = pollBuf[i]
  BY <1>1, <1>2, PollFacts
<1> HIDE DEF n
<1>4. 1 .. n + 1 = (1 .. n) \cup {n + 1} /\ n + 1 \notin 1 .. n /\ n + 1 \in 1 .. MaxBuf
  BY <1>1, <1>3, PollFacts
<1>5. ~In(channels, f)
  BY <1>1 DEF PollInv, Entered
<1>6. /\ channels'[f].pos = n + 1 /\ channels'[f].channel = c
      /\ \A g \in Fds : g # f => channels'[g] = channels[g]
      /\ channels' \in [Fds -> [pos : 0 .. MaxBuf, channel : Channels \cup {None}]]
  BY <1>1, <1>3, <1>4, PollFacts
<1>7. \A g \in Fds : g # f /\ In(channels', g) =>
        /\ In(channels, g) /\ channels[g].channel \in Channels \ {c}
        /\ fd[channels[g].channel] = g
  <2> SUFFICES ASSUME NEW g \in Fds, g # f, In(channels', g)
      PROVE  /\ In(channels, g) /\ channels[g].channel \in Channels \ {c}
             /\ fd[channels[g].channel] = g
    OBVIOUS
  <2>1. In(channels, g)
    BY <1>6 DEF In
  <2>2. channels[g].channel \in Channels /\ fd[channels[g].channel] = g /\ g # None
    BY <2>1, PollFacts DEF PollInv, Entered
  <2> QED BY <1>1, <2>1, <2>2
<1>8. Entered(pollBuf', channels', fd')
  <2>1. ASSUME NEW g \in Fds, g # f, In(channels', g)
        PROVE  /\ channels'[g].pos \in 1 .. n + 1
               /\ channels'[g].channel \in Channels /\ fd'[channels'[g].channel] = g
               /\ \E i \in 1 .. n + 1 : pollBuf'[i].fd = g
    <3>1. In(channels, g) /\ channels'[g] = channels[g] /\ channels[g].channel \in Channels \ {c}
      BY <1>6, <1>7, <2>1
    <3>2. channels[g].pos \in 1 .. n /\ \E i \in 1 .. n : pollBuf[i].fd = g
      BY <3>1 DEF PollInv, Entered, n
    <3>3. fd'[channels[g].channel] = g
      BY <1>1, <1>7, <2>1, PollFacts
    <3> QED BY <1>3, <1>4, <3>1, <3>2, <3>3
  <2>2. /\ channels'[f].pos \in 1 .. n + 1 /\ channels'[f].channel \in Channels
        /\ fd'[channels'[f].channel] = f /\ \E i \in 1 .. n + 1 : pollBuf'[i].fd = f
    BY <1>1, <1>2, <1>3, <1>4, <1>6, PollFacts
  <2>3. n + 1 <= MaxBuf
    BY <1>4, PollFacts
  <2> QED BY <1>3, <1>6, <2>1, <2>2, <2>3 DEF Entered
<1>9. ASSUME spoiled' = "no" PROVE Exact(pollBuf', channels', pollEvents')
  <2>1. spoiled = "no" /\ \A i \in 1 .. n : pollBuf[i].fd # f
    BY <1>1, <1>9
  <2>2. Exact(pollBuf, channels, pollEvents)
    BY <2>1 DEF PollInv
  <2>3. \A i, j \in 1 .. n + 1 : pollBuf'[i].fd = pollBuf'[j].fd => i = j
    BY <1>2, <1>3, <1>4, <2>1, <2>2 DEF Exact, n
  <2>4. ASSUME NEW g \in Fds, In(channels', g), NEW i \in 1 .. n + 1, pollBuf'[i].fd = g
        PROVE  pollBuf'[i].events = pollEvents'[channels'[g].channel]
    <3>1. CASE g = f
      BY <1>1, <1>2, <1>3, <1>4, <1>6, <2>1, <2>4, <3>1, PollFacts
    <3>2. CASE g # f
      <4>1. i \in 1 .. n /\ pollBuf'[i] = pollBuf[i]
        BY <1>2, <1>3, <1>4, <2>4, <3>2
      <4>2. pollBuf[i].events = pollEvents[channels[g].channel]
        BY <1>7, <2>2, <2>4, <3>2, <4>1 DEF Exact, n
      <4> QED BY <1>1, <1>6, <1>7, <2>4, <3>2, <4>1, <4>2, PollFacts
    <3> QED BY <3>1, <3>2
  <2> QED BY <1>3, <2>3, <2>4 DEF Exact
<1>10. Poll!TypeOK'
  <2>1. fd' \in [Channels -> Fds \cup {None}] /\ pollEvents' \in [Channels -> SUBSET Events]
    BY <1>1, PollFacts
  <2>2. ready' \in 0 .. n + 1 /\ pollAt' \in 1 .. ready' + 1 /\ n + 1 <= MaxBuf
    BY <1>1, <1>3, <1>4, PollFacts DEF n
  <2>3. spoiled' \in {"no", "moved", "reused"} /\ cleanable' \in BOOLEAN
    BY <1>1 DEF PollInv, Poll!TypeOK
  <2> QED BY <1>1, <1>3, <1>6, <2>1, <2>2, <2>3 DEF Poll!TypeOK
<1>11. \A d1, d2 \in Channels : fd'[d1] = fd'[d2] /\ fd'[d1] # None => d1 = d2
  BY <1>1, PollFacts DEF PollInv
<1>12. \A i \in 1 .. ready' : pollBuf'[i].revents # {}
  <2>1. \A i \in 1 .. ready : i \in 1 .. n
    BY PollFacts DEF n
  <2> QED BY <1>1, <1>3, <2>1 DEF PollInv
<1> QED BY <1>8, <1>9, <1>10, <1>11, <1>12 DEF PollInv

LEMMA FewerLocators ==
  ASSUME NEW b, NEW ch, NEW chs, NEW ev, Exact(b, ch, ev),
         \A f \in Fds : In(chs, f) => In(ch, f) /\ chs[f] = ch[f]
  PROVE  Exact(b, chs, ev)
  BY DEF Exact

LEMMA PollRemove == ASSUME PollInv, NEW c \in Channels, Poll!Remove(c) PROVE PollInv'
<1>1. /\ fd[c] \in Fds /\ channels' = [channels EXCEPT ![fd[c]] = Poll!NoLocator]
      /\ cleanable' = TRUE /\ pollReported' = <<>>
      /\ UNCHANGED <<fd, pollEvents, pollBuf, ready, pollAt, spoiled>>
  BY PollFacts DEF Poll!Remove, Poll!Contain
<1>2. Poll!NoLocator \in [pos : 0 .. MaxBuf, channel : Channels \cup {None}]
  BY PollFacts DEF Poll!NoLocator
<1>3. /\ channels' \in [Fds -> [pos : 0 .. MaxBuf, channel : Channels \cup {None}]]
      /\ \A f \in Fds : In(channels', f) => In(channels, f) /\ channels'[f] = channels[f]
  BY <1>1, <1>2, PollFacts DEF In
<1>4. Entered(pollBuf', channels', fd')
  BY <1>1, <1>3 DEF PollInv, Entered
<1>5. ASSUME spoiled' = "no" PROVE Exact(pollBuf', channels', pollEvents')
  <2>1. Exact(pollBuf, channels, pollEvents)
    BY <1>1, <1>5 DEF PollInv
  <2> QED BY <1>1, <1>3, <2>1, FewerLocators
<1>6. Poll!TypeOK'
  BY <1>1, <1>3 DEF PollInv, Poll!TypeOK
<1> QED BY <1>1, <1>4, <1>5, <1>6 DEF PollInv

LEMMA PollClose == ASSUME PollInv, NEW c \in Channels, Poll!Close(c) PROVE PollInv'
<1>1. /\ fd[c] # None /\ fd' = [fd EXCEPT ![c] = None]
      /\ pollEvents' = [pollEvents EXCEPT ![c] = {}] /\ pollReported' = <<>>
      /\ UNCHANGED <<pollBuf, channels, cleanable, ready, pollAt, spoiled>>
  BY DEF Poll!Close
<1>2. ~In(channels, fd[c])
  BY DEF Poll!Close, Poll!Registered, In
<1>3. \A f \in Fds : In(channels, f) => channels[f].channel \in Channels \ {c}
  BY <1>2 DEF PollInv, Entered
<1>4. Entered(pollBuf', channels', fd')
  BY <1>1, <1>3, PollFacts DEF PollInv, Entered
<1>5. spoiled' = "no" => Exact(pollBuf', channels', pollEvents')
  BY <1>1, <1>3, PollFacts DEF PollInv, Exact
<1>6. Poll!TypeOK'
  <2>1. fd' \in [Channels -> Fds \cup {None}] /\ pollEvents' \in [Channels -> SUBSET Events]
    BY <1>1, PollFacts
  <2> QED BY <1>1, <2>1 DEF PollInv, Poll!TypeOK
<1>7. \A d1, d2 \in Channels : fd'[d1] = fd'[d2] /\ fd'[d1] # None => d1 = d2
  BY <1>1, PollFacts DEF PollInv
<1> QED BY <1>1, <1>4, <1>5, <1>6, <1>7 DEF PollInv

LEMMA PollSetEvents ==
  ASSUME PollInv, NEW c \in Channels, NEW wanted \in SUBSET Events, Poll!SetEvents(c, wanted)
  PROVE  PollInv'
<1>1. /\ fd[c] # None /\ fd[c] \in Fds /\ pollEvents' = [pollEvents EXCEPT ![c] = wanted]
      /\ pollReported' = <<>> /\ UNCHANGED <<fd, channels, cleanable, ready, pollAt>>
  BY PollFacts DEF Poll!SetEvents
<1>2. pollEvents' \in [Channels -> SUBSET Events] /\ pollEvents'[c] = wanted
      /\ \A d \in Channels : d # c => pollEvents'[d] = pollEvents[d]
  BY <1>1, PollFacts
<1>3. CASE ~In(channels, fd[c])
  <2>1. UNCHANGED <<pollBuf, spoiled>>
    BY <1>3 DEF Poll!SetEvents, Poll!Contain, Poll!Registered, In
  <2>2. \A f \in Fds : In(channels, f) => channels[f].channel \in Channels \ {c}
    BY <1>3 DEF PollInv, Entered
  <2>3. spoiled' = "no" => Exact(pollBuf', channels', pollEvents')
    BY <1>1, <1>2, <2>1, <2>2 DEF PollInv, Exact
  <2>4. Poll!TypeOK' /\ Entered(pollBuf', channels', fd')
    BY <1>1, <1>2, <2>1 DEF PollInv, Poll!TypeOK, Entered
  <2> QED BY <1>1, <2>1, <2>3, <2>4 DEF PollInv
<1>4. CASE In(channels, fd[c])
  <2> DEFINE pos == channels[fd[c]].pos
             n == Len(pollBuf)
  <2>1. pos \in 1 .. n /\ n \in Nat /\ DOMAIN pollBuf = 1 .. n /\ ready \in 0 .. n
    BY <1>1, <1>4, PollFacts DEF PollInv, Entered
  <2>2. /\ pollBuf' = [pollBuf EXCEPT ![pos].events = wanted]
        /\ spoiled' = IF pollBuf[pos].fd # fd[c] THEN "moved" ELSE spoiled
    BY <1>1, <1>4 DEF Poll!SetEvents, Poll!Contain, Poll!Registered, Poll!Update, In
  <2> HIDE DEF pos, n
  <2>3. /\ \A i \in 1 .. n :
             /\ pollBuf'[i] \in Poll!Pollfds
             /\ pollBuf'[i].fd = pollBuf[i].fd
             /\ pollBuf'[i].revents = pollBuf[i].revents
             /\ i # pos => pollBuf'[i].events = pollBuf[i].events
        /\ pollBuf'[pos].events = wanted
    <3>1. \A i \in 1 .. n : pollBuf[i] \in Poll!Pollfds
      BY PollFacts DEF n
    <3>2. \A i \in 1 .. n : i # pos => pollBuf'[i] = pollBuf[i]
      BY <2>1, <2>2
    <3>3. pollBuf'[pos] = [pollBuf[pos] EXCEPT !.events = wanted]
      BY <2>1, <2>2
    <3>4. /\ pollBuf'[pos] \in Poll!Pollfds /\ pollBuf'[pos].fd = pollBuf[pos].fd
          /\ pollBuf'[pos].revents = pollBuf[pos].revents /\ pollBuf'[pos].events = wanted
      BY <2>1, <3>1, <3>3 DEF Poll!Pollfds
    <3> QED BY <3>1, <3>2, <3>4
  <2>4. pollBuf' \in Seq(Poll!Pollfds) /\ Len(pollBuf') = n
    <3>1. pollBuf' = [i \in 1 .. n |-> pollBuf'[i]]
      BY <2>1, <2>2
    <3>2. pollBuf' \in [1 .. n -> Poll!Pollfds]
      BY <2>3, <3>1
    <3> QED BY <2>1, <3>2
  <2>5. Entered(pollBuf', channels', fd')
    <3>1. Entered(pollBuf, channels, fd)
      BY DEF PollInv
    <3>2. \A f \in Fds : In(channels, f) => \E i \in 1 .. n : pollBuf'[i].fd = f
      BY <2>3, <3>1 DEF Entered, n
    <3> QED BY <1>1, <2>4, <3>1, <3>2 DEF Entered, n
  <2>6. ASSUME spoiled' = "no" PROVE Exact(pollBuf', channels', pollEvents')
    <3>1. /\ \A i, j \in 1 .. n : pollBuf[i].fd = pollBuf[j].fd => i = j
          /\ \A f \in Fds : In(channels, f) => \A i \in 1 .. n :
               pollBuf[i].fd = f => pollBuf[i].events = pollEvents[channels[f].channel]
          /\ pollBuf[pos].fd = fd[c]
      BY <2>2, <2>6 DEF PollInv, Exact, n
    <3>2. ASSUME NEW f \in Fds, In(channels, f), NEW i \in 1 .. n, pollBuf[i].fd = f
          PROVE  pollBuf'[i].events = pollEvents'[channels[f].channel]
      <4>1. channels[f].channel \in Channels /\ (channels[f].channel = c <=> fd[c] = f)
        BY <3>2, OneChannel DEF PollInv, Entered
      <4>2. CASE i = pos
        BY <1>2, <2>3, <3>1, <3>2, <4>1, <4>2
      <4>3. CASE i # pos
        <5>1. channels[f].channel # c
          BY <2>1, <3>1, <3>2, <4>1, <4>3
        <5> QED BY <1>2, <2>3, <3>1, <3>2, <4>1, <4>3, <5>1
      <4> QED BY <4>2, <4>3
    <3>3. \A i, j \in 1 .. n : pollBuf'[i].fd = pollBuf'[j].fd => i = j
      BY <2>3, <3>1
    <3>4. \A f \in Fds : In(channels, f) => \A i \in 1 .. n :
            pollBuf'[i].fd = f => pollBuf'[i].events = pollEvents'[channels[f].channel]
      BY <2>3, <3>2
    <3> QED BY <1>1, <2>4, <3>3, <3>4 DEF Exact
  <2>7. Poll!TypeOK'
    <3>1. spoiled' \in {"no", "moved", "reused"}
      BY <2>2 DEF PollInv, Poll!TypeOK
    <3>2. n <= MaxBuf
      BY PollFacts DEF n
    <3>3. ready' \in 0 .. n /\ pollAt' \in 1 .. ready' + 1
      BY <1>1, <2>1, PollFacts
    <3> QED BY <1>1, <1>2, <2>4, <3>1, <3>2, <3>3 DEF PollInv, Poll!TypeOK
  <2>8. \A i \in 1 .. ready : pollBuf'[i].revents # {}
    <3>1. \A i \in 1 .. ready : i \in 1 .. n /\ pollBuf[i].revents # {}
      BY <2>1 DEF PollInv
    <3> QED BY <2>3, <3>1
  <2> QED BY <1>1, <2>5, <2>6, <2>7, <2>8 DEF PollInv
<1> QED BY <1>3, <1>4

LEMMA PollWait ==
  ASSUME PollInv, NEW found \in [Fds -> SUBSET Poll!Conditions], Poll!Wait(found)
  PROVE  /\ PollInv' /\ SameLocators(channels, channels')
         /\ \A i \in 1 .. Len(pollBuf') :
              pollBuf'[i].revents \subseteq pollBuf'[i].events \cup {HangUp}
<1> DEFINE b == Poll!Cleaned.buf
           ch == Poll!Cleaned.channels
<1>1. /\ Entered(b, ch, fd) /\ SameLocators(channels, ch)
      /\ spoiled = "no" => Exact(b, ch, pollEvents)
  BY CleanedStays
<1>2. /\ channels' = ch /\ pollBuf' = Poll!Partition(Poll!Answer(b, found))
      /\ ready' = Cardinality(Poll!Hits(Poll!Answer(b, found)))
      /\ pollAt' = 1 /\ pollReported' = <<>> /\ UNCHANGED <<fd, pollEvents, cleanable, spoiled>>
  BY CountIs DEF Poll!Wait
<1> HIDE DEF b, ch
<1>3. b \in Seq(Poll!Pollfds) /\ Len(b) <= MaxBuf /\ Len(b) \in Nat
  BY <1>1 DEF Entered
<1>4. Waited(b, pollBuf', ready')
  BY <1>2, <1>3, WaitMoves
<1>5. Entered(pollBuf', channels', fd')
  <2>1. \A f \in Fds : In(ch, f) => \E k \in 1 .. Len(pollBuf') : pollBuf'[k].fd = f
    <3>1. \A f \in Fds : In(ch, f) => \E i \in 1 .. Len(b) : b[i].fd = f
      BY <1>1 DEF Entered
    <3>2. \A i \in 1 .. Len(b) : \E k \in 1 .. Len(pollBuf') : pollBuf'[k].fd = b[i].fd
      BY <1>4 DEF Waited
    <3> QED BY <3>1, <3>2, Zenon
  <2> QED BY <1>1, <1>2, <1>3, <1>4, <2>1 DEF Entered, Waited
<1>6. ASSUME spoiled' = "no" PROVE Exact(pollBuf', channels', pollEvents')
  <2>1. Exact(b, ch, pollEvents) /\ SameLocators(ch, ch)
    BY <1>1, <1>2, <1>6 DEF SameLocators
  <2> QED BY <1>2, <1>4, <2>1, ExactStays DEF Waited
<1>7. Poll!TypeOK'
  <2>1. channels' \in [Fds -> [pos : 0 .. MaxBuf, channel : Channels \cup {None}]]
    BY <1>5 DEF Entered
  <2> QED BY <1>2, <1>3, <1>4, <2>1 DEF PollInv, Poll!TypeOK, Waited
<1> QED BY <1>1, <1>2, <1>4, <1>5, <1>6, <1>7 DEF PollInv, Waited

LEMMA PollWaitFails ==
  ASSUME PollInv, Poll!WaitFails
  PROVE  PollInv' /\ SameLocators(channels, channels')
<1>1. /\ channels' = Poll!Cleaned.channels /\ pollBuf' = Poll!Cleaned.buf
      /\ ready' = 0 /\ pollAt' = 1 /\ pollReported' = <<>>
      /\ UNCHANGED <<fd, pollEvents, cleanable, spoiled>>
  BY DEF Poll!WaitFails
<1>2. /\ Entered(pollBuf', channels', fd') /\ SameLocators(channels, channels')
      /\ spoiled' = "no" => Exact(pollBuf', channels', pollEvents')
  BY <1>1, CleanedStays
<1>3. Poll!TypeOK'
  <2>1. /\ channels' \in [Fds -> [pos : 0 .. MaxBuf, channel : Channels \cup {None}]]
        /\ pollBuf' \in Seq(Poll!Pollfds) /\ Len(pollBuf') <= MaxBuf /\ Len(pollBuf') \in Nat
    BY <1>2 DEF Entered
  <2> QED BY <1>1, <2>1 DEF PollInv, Poll!TypeOK
<1> QED BY <1>1, <1>2, <1>3 DEF PollInv

LEMMA PollGet == ASSUME PollInv, Poll!Get PROVE PollInv'
<1>1. /\ pollAt <= ready /\ pollAt' = pollAt + 1
      /\ UNCHANGED <<fd, pollEvents, pollBuf, channels, cleanable, ready, spoiled>>
  BY DEF Poll!Get
<1>2. pollAt \in 1 .. Len(pollBuf) /\ pollAt' \in 1 .. ready + 1
  BY <1>1, PollFacts
<1>3. pollReported' \in {<<>>} \cup (Channels \X SUBSET Poll!Conditions)
  <2>1. pollBuf[pollAt].fd \in Fds /\ pollBuf[pollAt].revents \in SUBSET Poll!Conditions
    BY <1>2, PollFacts DEF Poll!Pollfds
  <2>2. Poll!Registered(pollBuf[pollAt].fd) => channels[pollBuf[pollAt].fd].channel \in Channels
    BY <2>1, PollFacts DEF PollInv, Entered
  <2> QED BY <2>1, <2>2 DEF Poll!Get
<1>4. Poll!TypeOK'
  BY <1>1, <1>2, <1>3 DEF PollInv, Poll!TypeOK
<1> QED BY <1>1, <1>4 DEF PollInv, Entered, Exact

LEMMA PollInit == Poll!Init => PollInv
<1> SUFFICES ASSUME Poll!Init PROVE PollInv
  OBVIOUS
<1>1. /\ fd = [c \in Channels |-> None] /\ pollEvents = [c \in Channels |-> {}]
      /\ pollBuf = <<>> /\ channels = [f \in Fds |-> Poll!NoLocator]
      /\ cleanable = FALSE /\ ready = 0 /\ pollAt = 1 /\ pollReported = <<>> /\ spoiled = "no"
  BY DEF Poll!Init
<1>2. MaxBuf \in Nat /\ pollBuf \in Seq(Poll!Pollfds) /\ Len(pollBuf) = 0
  BY <1>1, PollerAssumption DEF Poll!Parameters
<1>3. channels \in [Fds -> [pos : 0 .. MaxBuf, channel : Channels \cup {None}]]
      /\ \A f \in Fds : ~In(channels, f)
  BY <1>1, <1>2 DEF In, Poll!NoLocator
<1>4. Poll!TypeOK
  <2>1. fd \in [Channels -> Fds \cup {None}] /\ pollEvents \in [Channels -> SUBSET Events]
    BY <1>1
  <2>2. /\ ready \in 0 .. Len(pollBuf) /\ pollAt \in 1 .. ready + 1 /\ Len(pollBuf) <= MaxBuf
        /\ pollReported = <<>> /\ spoiled \in {"no"}
    BY <1>1, <1>2
  <2>3. cleanable \in BOOLEAN
    BY <1>1
  <2> QED BY <1>2, <1>3, <2>1, <2>2, <2>3 DEF Poll!TypeOK
<1> QED BY <1>1, <1>2, <1>3, <1>4 DEF PollInv, Entered, Exact

LEMMA PollNext == PollInv /\ [Poll!Next]_(Poll!vars) => PollInv'
<1> SUFFICES ASSUME PollInv, [Poll!Next]_(Poll!vars) PROVE PollInv'
  OBVIOUS
<1>1. CASE UNCHANGED Poll!vars
  <2>1. /\ UNCHANGED <<fd, pollEvents, pollBuf, channels, cleanable>>
        /\ UNCHANGED <<ready, pollAt, pollReported, spoiled>>
    BY <1>1 DEF Poll!vars
  <2>2. Poll!TypeOK'
    BY <2>1 DEF PollInv, Poll!TypeOK
  <2> QED BY <2>1, <2>2 DEF PollInv, Entered, Exact
<1> QED BY <1>1, PollAdd, PollRemove, PollClose, PollSetEvents, PollWait, PollWaitFails, PollGet
        DEF Poll!Next

LEMMA PollInvGives == PollInv => Poll!PolledAsAsked
<1> SUFFICES ASSUME PollInv PROVE Poll!PolledAsAsked
  OBVIOUS
<1>1. \A f \in Fds : In(channels, f) =>
        /\ \E i \in 1 .. Len(pollBuf) : pollBuf[i].fd = f
        /\ channels[f].pos \in 1 .. Len(pollBuf)
  BY DEF PollInv, Entered
<1>2. spoiled = "no" => \A f \in Fds : In(channels, f) => \A i \in 1 .. Len(pollBuf) :
        pollBuf[i].fd = f => pollBuf[i].events = pollEvents[channels[f].channel]
  BY DEF PollInv, Exact
<1>3. Poll!TypeOK
  BY DEF PollInv
<1> QED BY <1>1, <1>2, <1>3 DEF Poll!PolledAsAsked, Poll!Registered, Poll!EntriesOf, In

-----------------------------------------------------------------------------
(* Poller implements Selector.                                              *)

\* What the entries k to n of b hold for a descriptor.
Hot(b, f, k, n) == {i \in k .. n : b[i].fd = f}
FoundAt(b, f, k, n) == UNION {b[i].revents : i \in Hot(b, f, k, n)}

LEMMA EntriesAreHot ==
  ASSUME NEW b, NEW f, NEW m \in Nat, m = Len(b), NEW n \in 0 .. m, NEW k \in 1 .. n + 1
  PROVE  {i \in 1 .. Len(b) : b[i].fd = f} \cap (k .. n) = Hot(b, f, k, n)
  BY DEF Hot

LEMMA FoundIs ==
  ASSUME PollInv, PollInv', NEW c \in Channels
  PROVE  /\ Poll!Found(c) = IF Poll!Contain(c) THEN FoundAt(pollBuf, fd[c], pollAt, ready) ELSE {}
         /\ Poll!Found(c)' =
              IF Poll!Contain(c)' THEN FoundAt(pollBuf', fd'[c], pollAt', ready') ELSE {}
<1>1. /\ Len(pollBuf) \in Nat /\ ready \in 0 .. Len(pollBuf) /\ pollAt \in 1 .. ready + 1
      /\ Len(pollBuf') \in Nat /\ ready' \in 0 .. Len(pollBuf') /\ pollAt' \in 1 .. ready' + 1
  <2>1. ready \in 0 .. Len(pollBuf) /\ pollAt \in 1 .. ready + 1 /\ Len(pollBuf) \in Nat
    BY PollFacts
  <2>2. /\ pollBuf' \in Seq(Poll!Pollfds)
        /\ ready' \in 0 .. Len(pollBuf') /\ pollAt' \in 1 .. ready' + 1
    BY DEF PollInv, Poll!TypeOK
  <2>3. Len(pollBuf') \in Nat
    BY <2>2
  <2> QED BY <2>1, <2>2, <2>3
<1>2. /\ Poll!EntriesOf(fd[c]) \cap (pollAt .. ready) = Hot(pollBuf, fd[c], pollAt, ready)
      /\ Poll!EntriesOf(fd[c])' \cap (pollAt' .. ready') = Hot(pollBuf', fd'[c], pollAt', ready')
  BY <1>1, EntriesAreHot DEF Poll!EntriesOf
<1> QED BY <1>2 DEF Poll!Found, FoundAt

\* It stays when these entries stay, and their events may change.
LEMMA FoundAtStays ==
  ASSUME NEW b, NEW r, NEW f, NEW k, NEW n,
         \A i \in k .. n : r[i].fd = b[i].fd /\ r[i].revents = b[i].revents
  PROVE  FoundAt(r, f, k, n) = FoundAt(b, f, k, n)
<1>1. Hot(r, f, k, n) = Hot(b, f, k, n)
  BY DEF Hot
<1>2. \A i \in Hot(b, f, k, n) : r[i].revents = b[i].revents
  BY DEF Hot
<1>3. {r[i].revents : i \in Hot(b, f, k, n)} = {b[i].revents : i \in Hot(b, f, k, n)}
  BY <1>2
<1> QED BY <1>1, <1>3 DEF FoundAt

LEMMA NothingFound ==
  ASSUME NEW b, NEW f, NEW k, NEW n, \A i \in k .. n : b[i].fd # f
  PROVE  FoundAt(b, f, k, n) = {}
  BY DEF FoundAt, Hot

\* The mapping for the variables interest and ready of Selector.
PollInterest == [c \in Channels |-> pollEvents[c]]
PollMap == [c \in Channels |-> Poll!Found(c)]

LEMMA PollRefineInit == Poll!Init => Poll!S!Init
<1> SUFFICES ASSUME Poll!Init PROVE Poll!S!Init
  OBVIOUS
<1>1. \A c \in Channels : ~Poll!Contain(c)
  BY DEF Poll!Init, Poll!Contain
<1>2. Poll!Members = {} /\ PollMap = [c \in Channels |-> {}]
  BY <1>1 DEF Poll!Members, PollMap, Poll!Found
<1>3. PollInterest = [c \in Channels |-> {}] /\ pollReported = <<>>
  BY DEF Poll!Init, PollInterest
<1> QED BY <1>2, <1>3 DEF Poll!S!Init, PollMap, PollInterest

\* The entries that wait lie in buf_.
LEMMA WaitingInBuf ==
  ASSUME PollInv, NEW i \in pollAt .. ready
  PROVE  i \in 1 .. Len(pollBuf) /\ i \in 1 .. ready
<1>1. Len(pollBuf) \in Nat /\ ready \in 0 .. Len(pollBuf) /\ pollAt \in 1 .. ready + 1
  BY PollFacts
<1> QED BY <1>1

LEMMA PollRefineAdd ==
  ASSUME PollInv, PollInv', NEW c \in Channels, NEW f \in Fds, NEW wanted \in SUBSET Events,
         Poll!Add(c, f, wanted), spoiled' = "no"
  PROVE  Poll!S!Add(c)
<1>1. /\ fd[c] = None /\ (\A d \in Channels : fd[d] # f)
      /\ fd' = [fd EXCEPT ![c] = f] /\ pollEvents' = [pollEvents EXCEPT ![c] = wanted]
      /\ pollBuf' = Append(pollBuf, [fd |-> f, events |-> wanted, revents |-> {}])
      /\ channels' = [channels EXCEPT ![f] = [pos |-> Len(pollBuf'), channel |-> c]]
      /\ (\A i \in 1 .. Len(pollBuf) : pollBuf[i].fd # f)
      /\ pollReported' = <<>> /\ UNCHANGED <<ready, pollAt>>
  BY DEF Poll!Add
<1>2. \A i \in pollAt .. ready :
        i \in 1 .. Len(pollBuf) /\ pollBuf'[i] = pollBuf[i] /\ pollBuf[i].fd # f
  BY <1>1, PollFacts, WaitingInBuf
<1>3. /\ fd'[c] = f /\ f # None /\ \A d \in Channels : d # c => fd'[d] = fd[d] /\ fd[d] # f
  BY <1>1, PollFacts
<1>4. Poll!Contain(c)' /\ ~Poll!Contain(c)
  <2>1. Len(pollBuf') # 0
    BY <1>1, PollFacts
  <2>2. channels'[f].pos # Poll!NoLocator.pos
    BY <1>1, <2>1, PollFacts DEF Poll!NoLocator
  <2> QED BY <1>1, <1>3, <2>2 DEF Poll!Contain, Poll!Registered
<1>5. \A d \in Channels : d # c => (Poll!Contain(d)' <=> Poll!Contain(d))
  BY <1>1, <1>3, PollFacts DEF Poll!Contain, Poll!Registered
<1>6. Poll!Members' = Poll!Members \cup {c} /\ c \notin Poll!Members
  BY <1>4, <1>5 DEF Poll!Members
<1>7. PollMap'[c] = {} /\ PollMap[c] = {}
  <2>1. FoundAt(pollBuf', f, pollAt', ready') = {}
    BY <1>1, <1>2, NothingFound
  <2> QED BY <1>3, <1>4, <2>1, FoundIs DEF PollMap
<1>8. \A d \in Channels : d # c => PollMap'[d] = PollMap[d]
  <2> SUFFICES ASSUME NEW d \in Channels, d # c PROVE PollMap'[d] = PollMap[d]
    OBVIOUS
  <2>1. FoundAt(pollBuf', fd[d], pollAt, ready) = FoundAt(pollBuf, fd[d], pollAt, ready)
    BY <1>2, FoundAtStays
  <2> QED BY <1>1, <1>3, <1>5, <2>1, FoundIs DEF PollMap
<1>9. PollMap' = PollMap
  BY <1>7, <1>8 DEF PollMap
<1>10. PollInterest' = [PollInterest EXCEPT ![c] = wanted]
  BY <1>1, PollFacts DEF PollInterest
<1> QED BY <1>1, <1>6, <1>9, <1>10 DEF Poll!S!Add, PollMap, PollInterest

LEMMA PollRefineRemove ==
  ASSUME PollInv, PollInv', NEW c \in Channels, Poll!Remove(c)
  PROVE  Poll!S!Remove(c)
<1>1. /\ Poll!Contain(c) /\ channels' = [channels EXCEPT ![fd[c]] = Poll!NoLocator]
      /\ pollReported' = <<>> /\ UNCHANGED <<fd, pollEvents, pollBuf, ready, pollAt>>
  BY DEF Poll!Remove
<1>2. fd[c] \in Fds /\ \A d \in Channels : d # c => fd[d] # fd[c]
  BY <1>1, PollFacts DEF PollInv, Poll!Contain
<1>3. ~Poll!Contain(c)' /\ \A d \in Channels : d # c => (Poll!Contain(d)' <=> Poll!Contain(d))
  BY <1>1, <1>2, PollFacts DEF Poll!Contain, Poll!Registered
<1>4. Poll!Members' = Poll!Members \ {c} /\ c \in Poll!Members
  BY <1>1, <1>3 DEF Poll!Members
<1>5. PollMap'[c] = {} /\ \A d \in Channels : d # c => PollMap'[d] = PollMap[d]
  BY <1>1, <1>3, FoundIs DEF PollMap
<1>6. PollMap' = [PollMap EXCEPT ![c] = {}]
  BY <1>5 DEF PollMap
<1>7. PollInterest' = PollInterest
  BY <1>1 DEF PollInterest
<1> QED BY <1>1, <1>4, <1>6, <1>7 DEF Poll!S!Remove, PollMap, PollInterest

LEMMA PollRefineClose ==
  ASSUME PollInv, PollInv', NEW c \in Channels, Poll!Close(c)
  PROVE  Poll!S!Update(c)
<1>1. /\ fd[c] # None /\ ~Poll!Registered(fd[c]) /\ fd' = [fd EXCEPT ![c] = None]
      /\ pollEvents' = [pollEvents EXCEPT ![c] = {}] /\ pollReported' = <<>>
      /\ UNCHANGED <<pollBuf, channels, ready, pollAt>>
  BY DEF Poll!Close
<1>2. \A d \in Channels : (Poll!Contain(d)' <=> Poll!Contain(d))
                         /\ (Poll!Contain(d) => fd'[d] = fd[d])
  BY <1>1, PollFacts DEF Poll!Contain, Poll!Registered
<1>3. Poll!Members' = Poll!Members
  BY <1>2 DEF Poll!Members
<1>4. \A d \in Channels : PollMap'[d] = PollMap[d]
  BY <1>1, <1>2, FoundIs DEF PollMap
<1>5. PollMap' = PollMap
  BY <1>4 DEF PollMap
<1>6. PollInterest' = [PollInterest EXCEPT ![c] = {}]
  BY <1>1, PollFacts DEF PollInterest
<1> QED BY <1>1, <1>3, <1>5, <1>6 DEF Poll!S!Update, PollMap, PollInterest

LEMMA PollRefineSetEvents ==
  ASSUME PollInv, PollInv', NEW c \in Channels, NEW wanted \in SUBSET Events,
         Poll!SetEvents(c, wanted)
  PROVE  Poll!S!Update(c)
<1>1. /\ pollEvents' = [pollEvents EXCEPT ![c] = wanted]
      /\ pollReported' = <<>> /\ UNCHANGED <<fd, channels, ready, pollAt>>
  BY DEF Poll!SetEvents
<1>2. \A i \in 1 .. Len(pollBuf) :
        pollBuf'[i].fd = pollBuf[i].fd /\ pollBuf'[i].revents = pollBuf[i].revents
  <2>1. CASE UNCHANGED pollBuf
    BY <2>1
  <2>2. ASSUME NEW pos, pollBuf' = [pollBuf EXCEPT ![pos].events = wanted]
        PROVE  \A i \in 1 .. Len(pollBuf) :
                 pollBuf'[i].fd = pollBuf[i].fd /\ pollBuf'[i].revents = pollBuf[i].revents
    <3>1. \A i \in 1 .. Len(pollBuf) :
            pollBuf'[i] = IF i = pos THEN [pollBuf[i] EXCEPT !.events = wanted] ELSE pollBuf[i]
      BY <2>2, PollFacts
    <3>2. \A i \in 1 .. Len(pollBuf) : pollBuf[i] \in Poll!Pollfds
      BY PollFacts
    <3> QED BY <3>1, <3>2 DEF Poll!Pollfds
  <2> QED BY <2>1, <2>2 DEF Poll!SetEvents, Poll!Update
<1>3. \A d \in Channels : Poll!Contain(d)' <=> Poll!Contain(d)
  BY <1>1 DEF Poll!Contain, Poll!Registered
<1>4. Poll!Members' = Poll!Members
  BY <1>3 DEF Poll!Members
<1>5. \A d \in Channels : PollMap'[d] = PollMap[d]
  <2> SUFFICES ASSUME NEW d \in Channels PROVE PollMap'[d] = PollMap[d]
    OBVIOUS
  <2>1. FoundAt(pollBuf', fd[d], pollAt, ready) = FoundAt(pollBuf, fd[d], pollAt, ready)
    BY <1>2, WaitingInBuf, FoundAtStays
  <2> QED BY <1>1, <1>3, <2>1, FoundIs DEF PollMap
<1>6. PollMap' = PollMap
  BY <1>5 DEF PollMap
<1>7. PollInterest' = [PollInterest EXCEPT ![c] = wanted]
  BY <1>1, PollFacts DEF PollInterest
<1> QED BY <1>1, <1>4, <1>6, <1>7 DEF Poll!S!Update, PollMap, PollInterest

\* A Wait keeps who is registered: CleanUp moves positions only.
LEMMA MembersStay ==
  ASSUME PollInv, PollInv', SameLocators(channels, channels'), UNCHANGED fd
  PROVE  /\ \A c \in Channels : Poll!Contain(c)' <=> Poll!Contain(c)
         /\ Poll!Members' = Poll!Members
<1>1. \A c \in Channels : Poll!Contain(c)' <=> Poll!Contain(c)
  <2> SUFFICES ASSUME NEW c \in Channels, fd[c] # None
      PROVE  Poll!Registered(fd[c])' <=> Poll!Registered(fd[c])
    BY DEF Poll!Contain
  <2>1. fd[c] \in Fds
    BY PollFacts
  <2> QED BY <2>1 DEF SameLocators, In, Poll!Registered
<1> QED BY <1>1 DEF Poll!Members

LEMMA PollRefineWait ==
  ASSUME PollInv, PollInv', NEW found \in [Fds -> SUBSET Poll!Conditions], Poll!Wait(found),
         spoiled' = "no"
  PROVE  Poll!S!Wait
<1>1. pollAt' = 1 /\ pollReported' = <<>> /\ UNCHANGED <<fd, pollEvents>>
  BY DEF Poll!Wait
<1>2. /\ SameLocators(channels, channels')
      /\ \A i \in 1 .. Len(pollBuf') :
           pollBuf'[i].revents \subseteq pollBuf'[i].events \cup {HangUp}
  BY PollWait
<1>3. Poll!Members' = Poll!Members /\ \A c \in Channels : Poll!Contain(c)' <=> Poll!Contain(c)
  BY <1>1, <1>2, MembersStay
<1>4. \A i \in pollAt' .. ready' : i \in 1 .. Len(pollBuf')
  <2>1. /\ ready' \in 0 .. Len(pollBuf') /\ pollBuf' \in Seq(Poll!Pollfds)
    BY DEF PollInv, Poll!TypeOK
  <2> QED BY <1>1, <2>1
<1>5. ASSUME NEW c \in Channels, Poll!Contain(c)
      PROVE  FoundAt(pollBuf', fd[c], pollAt', ready') \subseteq pollEvents[c] \cup {HangUp}
  <2>1. fd[c] \in Fds /\ In(channels, fd[c])
    BY <1>5, PollFacts DEF Poll!Contain
  <2>2. channels[fd[c]].channel = c
    BY <2>1, OneChannel
  <2>3. In(channels', fd[c]) /\ channels'[fd[c]].channel = c
    BY <1>2, <2>1, <2>2 DEF SameLocators
  <2>4. \A i \in 1 .. Len(pollBuf') : pollBuf'[i].fd = fd[c] => pollBuf'[i].events = pollEvents[c]
    BY <1>1, <2>1, <2>3 DEF PollInv, Exact
  <2>5. \A i \in Hot(pollBuf', fd[c], pollAt', ready') :
          pollBuf'[i].revents \subseteq pollEvents[c] \cup {HangUp}
    BY <1>2, <1>4, <2>4 DEF Hot
  <2> QED BY <2>5 DEF FoundAt
<1>6. \A c \in Channels : PollMap'[c] \subseteq Poll!S!Findable(c)
  <2> SUFFICES ASSUME NEW c \in Channels PROVE PollMap'[c] \subseteq Poll!S!Findable(c)
    OBVIOUS
  <2>1. PollMap'[c] = IF Poll!Contain(c) THEN FoundAt(pollBuf', fd[c], pollAt', ready') ELSE {}
    BY <1>1, <1>3, FoundIs DEF PollMap
  <2>2. Poll!S!Findable(c) = IF Poll!Contain(c) THEN pollEvents[c] \cup {HangUp} ELSE {}
    BY DEF Poll!S!Findable, Poll!Members
  <2> QED BY <1>5, <2>1, <2>2
<1>7. PollMap' \in [Channels -> SUBSET Poll!S!Conditions]
  <2>1. \A c \in Channels : Poll!S!Findable(c) \subseteq Poll!S!Conditions
    BY PollFacts DEF Poll!S!Findable, Poll!S!Conditions
  <2> QED BY <1>6, <2>1 DEF PollMap
<1>8. PollInterest' = PollInterest
  BY <1>1 DEF PollInterest
<1> QED BY <1>1, <1>3, <1>6, <1>7, <1>8 DEF Poll!S!Wait, PollMap, PollInterest

LEMMA PollRefineWaitFails ==
  ASSUME PollInv, PollInv', Poll!WaitFails
  PROVE  Poll!S!Wait
<1>1. ready' = 0 /\ pollAt' = 1 /\ pollReported' = <<>> /\ UNCHANGED <<fd, pollEvents>>
  BY DEF Poll!WaitFails
<1>2. Poll!Members' = Poll!Members
  BY <1>1, PollWaitFails, MembersStay
<1>3. \A c \in Channels : PollMap'[c] = {}
  <2>1. \A f : FoundAt(pollBuf', f, pollAt', ready') = {}
    BY <1>1 DEF FoundAt, Hot
  <2> QED BY <2>1, FoundIs DEF PollMap
<1>4. PollMap' \in [Channels -> SUBSET Poll!S!Conditions]
  BY <1>3 DEF PollMap
<1>5. PollInterest' = PollInterest
  BY <1>1 DEF PollInterest
<1> QED BY <1>1, <1>2, <1>3, <1>4, <1>5 DEF Poll!S!Wait, PollMap, PollInterest

LEMMA PollRefineGet ==
  ASSUME PollInv, PollInv', Poll!Get, spoiled' = "no"
  PROVE  Poll!S!Other \/ \E c \in Channels : Poll!S!Get(c)
<1> DEFINE f == pollBuf[pollAt].fd
<1>1. /\ pollAt <= ready /\ pollAt' = pollAt + 1
      /\ UNCHANGED <<fd, pollEvents, pollBuf, channels, ready, spoiled>>
  BY DEF Poll!Get
<1>2. /\ pollAt \in Nat /\ ready \in Nat /\ pollAt \in pollAt .. ready
      /\ pollAt .. ready = (pollAt + 1 .. ready) \cup {pollAt} /\ pollAt \notin pollAt + 1 .. ready
  BY <1>1, PollFacts
<1>3. /\ pollAt \in 1 .. Len(pollBuf) /\ pollBuf[pollAt].revents # {}
      /\ f \in Fds /\ \A i \in pollAt + 1 .. ready : pollBuf[i].fd # f
  <2>1. pollAt \in 1 .. Len(pollBuf) /\ pollAt \in 1 .. ready
    BY <1>2, WaitingInBuf
  <2>2. pollBuf[pollAt].revents # {} /\ pollBuf[pollAt] \in Poll!Pollfds
    BY <2>1, PollFacts DEF PollInv
  <2>3. \A i, j \in 1 .. Len(pollBuf) : pollBuf[i].fd = pollBuf[j].fd => i = j
    BY <1>1 DEF PollInv, Exact
  <2>4. \A i \in pollAt + 1 .. ready : i \in 1 .. Len(pollBuf) /\ i # pollAt
    BY <1>2, WaitingInBuf
  <2> QED BY <2>1, <2>2, <2>3, <2>4 DEF Poll!Pollfds
<1> HIDE DEF f
<1>4. \A g : g # f => FoundAt(pollBuf, g, pollAt + 1, ready) = FoundAt(pollBuf, g, pollAt, ready)
  <2> SUFFICES ASSUME NEW g, g # f
      PROVE  Hot(pollBuf, g, pollAt + 1, ready) = Hot(pollBuf, g, pollAt, ready)
    BY DEF FoundAt
  <2> QED BY <1>2 DEF Hot, f
<1>5. /\ FoundAt(pollBuf, f, pollAt + 1, ready) = {}
      /\ FoundAt(pollBuf, f, pollAt, ready) = pollBuf[pollAt].revents
  <2>1. Hot(pollBuf, f, pollAt, ready) = {pollAt}
    BY <1>2, <1>3 DEF Hot, f
  <2>2. {pollBuf[i].revents : i \in {pollAt}} = {pollBuf[pollAt].revents}
    OBVIOUS
  <2>3. UNION {pollBuf[pollAt].revents} = pollBuf[pollAt].revents
    OBVIOUS
  <2> QED BY <1>3, <2>1, <2>2, <2>3, NothingFound DEF FoundAt
<1>6. \A d \in Channels : Poll!Contain(d)' <=> Poll!Contain(d)
  BY <1>1 DEF Poll!Contain, Poll!Registered
<1>7. Poll!Members' = Poll!Members /\ PollInterest' = PollInterest
  BY <1>1, <1>6 DEF Poll!Members, PollInterest
<1>8. \A d \in Channels :
        /\ PollMap[d] = IF Poll!Contain(d) THEN FoundAt(pollBuf, fd[d], pollAt, ready) ELSE {}
        /\ PollMap'[d] = IF Poll!Contain(d) THEN FoundAt(pollBuf, fd[d], pollAt + 1, ready) ELSE {}
  BY <1>1, <1>6, FoundIs DEF PollMap
<1>9. \A d \in Channels : fd[d] # f => PollMap'[d] = PollMap[d]
  BY <1>4, <1>8
<1>10. CASE Poll!Registered(f)
  <2> DEFINE c == channels[f].channel
  <2>1. c \in Channels /\ fd[c] = f /\ f # None
    BY <1>3, <1>10, PollFacts DEF PollInv, Entered
  <2>2. Poll!Contain(c) /\ \A d \in Channels : d # c => fd[d] # f
    BY <1>10, <2>1 DEF Poll!Contain, PollInv
  <2>3. PollMap[c] = pollBuf[pollAt].revents /\ PollMap'[c] = {}
    BY <1>5, <1>8, <2>1, <2>2
  <2>4. pollReported' = <<c, PollMap[c]>>
    BY <1>10, <2>3 DEF Poll!Get, f
  <2> HIDE DEF c
  <2>5. PollMap' = [PollMap EXCEPT ![c] = {}]
    BY <1>9, <2>1, <2>2, <2>3 DEF PollMap
  <2>6. Poll!S!Get(c)
    BY <1>3, <1>7, <2>1, <2>3, <2>4, <2>5 DEF Poll!S!Get, PollMap, PollInterest
  <2> QED BY <2>1, <2>6
<1>11. CASE ~Poll!Registered(f)
  <2>1. \A d \in Channels : fd[d] = f => ~Poll!Contain(d)
    BY <1>11 DEF Poll!Contain
  <2>2. \A d \in Channels : PollMap'[d] = PollMap[d]
    BY <1>8, <1>9, <2>1
  <2>3. PollMap' = PollMap
    BY <2>2 DEF PollMap
  <2>4. pollReported' = <<>>
    BY <1>11 DEF Poll!Get, f
  <2> QED BY <1>7, <2>3, <2>4 DEF Poll!S!Other, PollMap, PollInterest
<1> QED BY <1>10, <1>11

LEMMA PollRefineNext ==
  PollInv /\ PollInv' /\ [Poll!Next]_(Poll!vars) => [Poll!S!Next \/ spoiled' # "no"]_(Poll!S!vars)
<1> SUFFICES ASSUME PollInv, PollInv', [Poll!Next]_(Poll!vars), spoiled' = "no"
    PROVE  Poll!S!Next \/ UNCHANGED Poll!S!vars
  OBVIOUS
<1>1. CASE UNCHANGED Poll!vars
  <2>1. UNCHANGED <<fd, pollEvents, pollBuf, channels, ready, pollAt, pollReported>>
    BY <1>1 DEF Poll!vars
  <2>2. UNCHANGED <<Poll!Members, PollInterest, PollMap, pollReported>>
    BY <2>1 DEF Poll!Members, Poll!Contain, Poll!Registered, PollInterest, PollMap, Poll!Found,
                Poll!EntriesOf
  <2> QED BY <2>2 DEF Poll!S!vars, PollInterest, PollMap
<1>2. CASE \E c \in Channels, wanted \in SUBSET Events :
             Poll!SetEvents(c, wanted) \/ \E f \in Fds : Poll!Add(c, f, wanted)
  BY <1>2, PollRefineAdd, PollRefineSetEvents DEF Poll!S!Next
<1>3. CASE \E c \in Channels : Poll!Remove(c) \/ Poll!Close(c)
  BY <1>3, PollRefineRemove, PollRefineClose DEF Poll!S!Next
<1>4. CASE \E found \in [Fds -> SUBSET Poll!Conditions] : Poll!Wait(found)
  BY <1>4, PollRefineWait DEF Poll!S!Next
<1>5. CASE Poll!WaitFails
  BY <1>5, PollRefineWaitFails DEF Poll!S!Next
<1>6. CASE Poll!Get
  BY <1>6, PollRefineGet DEF Poll!S!Next
<1> QED BY <1>1, <1>2, <1>3, <1>4, <1>5, <1>6 DEF Poll!Next

-----------------------------------------------------------------------------
(* SelectorFactory: the selector that was made keeps its invariant, the      *)
(* other one that of its initial state.                                      *)

FactoryInv == IInv /\ PollInv
factoryVars == <<selector_type, vars, pollVars>>

LEMMA FactoryInit == MakeSelector => FactoryInv
  BY InitIInv, PollInit DEF MakeSelector, FactoryInv

LEMMA FactorySteps ==
  [Step]_factoryVars => [Next]_vars /\ [Poll!Next]_(Poll!vars)
  BY DEF Step, factoryVars, pollVars, Poll!vars, vars

LEMMA FactoryNext == FactoryInv /\ [Step]_factoryVars => FactoryInv'
  BY FactorySteps, NextIInv, PollNext DEF FactoryInv

\* Whichever selector the options choose, and whatever is added, updated,
\* removed, closed and reported in between: a descriptor that is registered with
\* Poller has an entry, at whatever place std::partition has put it, and is
\* polled for what its channel asks for until an Update goes astray.
THEOREM PolledForWhatIsAsked == EitherSelector => []PolledAsAsked
<1>1. FactoryInv => PolledAsAsked
  BY PollInvGives DEF FactoryInv, PolledAsAsked
<1> QED BY <1>1, FactoryInit, FactoryNext, PTL DEF EitherSelector, factoryVars

\* Poller keeps the promise of Selector until then: no channel is reported
\* twice, after its removal or for what it has not asked for.
THEOREM PollerRefinesSelector == EitherSelector => PollerImplements
<1>1. EitherSelector => []FactoryInv
  BY FactoryInit, FactoryNext, PTL DEF EitherSelector, factoryVars
<1>2. MakeSelector => Poll!S!Init
  BY PollRefineInit DEF MakeSelector
<1>3. FactoryInv /\ FactoryInv' /\ [Step]_factoryVars
        => [Poll!S!Next \/ spoiled' # "no"]_(Poll!S!vars)
  BY FactorySteps, PollRefineNext DEF FactoryInv
<1> QED BY <1>1, <1>2, <1>3, PTL DEF EitherSelector, factoryVars, PollerImplements, Poll!Implements

\* And so does EpollSelector, when it is chosen and when it is not.
THEOREM EitherRefinesSelector == EitherSelector => Implements
<1>1. EitherSelector => []FactoryInv
  BY FactoryInit, FactoryNext, PTL DEF EitherSelector, factoryVars
<1>2. MakeSelector => S!Init
  BY RefineInit DEF MakeSelector
<1>3. FactoryInv /\ [Step]_factoryVars => [S!Next \/ reused']_S!vars
  BY FactorySteps, RefineNext DEF FactoryInv
<1> QED BY <1>1, <1>2, <1>3, PTL DEF EitherSelector, factoryVars, Implements
=============================================================================

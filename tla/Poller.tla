------------------------------- MODULE Poller -------------------------------
(***************************************************************************)
(* The selector made of poll(2) (include/pedronet/selector/poller.h), with  *)
(* the loop that waits and asks for each ready entry (src/eventloop.cc:     *)
(* 22-38) and the channels whose SetReadable and SetWritable update it.     *)
(* Everything happens on the loop thread.  buf is counted from 1.           *)
(***************************************************************************)
EXTENDS Naturals, Sequences, FiniteSets

CONSTANTS
  Channels,
  Fds,      \* numbers of descriptors
  Events,   \* what a channel may ask for
  HangUp,   \* the condition that is reported unasked
  None,     \* no descriptor, no channel
  MaxBuf    \* bound: entries of buf_

\* What the constants are: assumed where SelectorFactory makes a Poller.
Parameters == None \notin Channels \cup Fds /\ MaxBuf \in Nat

Conditions == Events \cup {HangUp}

VARIABLES
  fd,         \* the open descriptor of each channel, or None
  events,     \* what each channel has asked for: events_ of a SocketChannel
  buf,        \* buf_
  channels,   \* channels_: for each descriptor a position and a channel
  cleanable,  \* cleanable_
  ready,      \* ready_
  at,         \* the index the loop asks for next
  reported,   \* the answer of Get in the step that gives it, else <<>>
  spoiled     \* history: "moved": an Update went to the entry of another
              \* descriptor; "reused": a descriptor was added while buf_ still
              \* held an entry for its number

vars == <<fd, events, buf, channels, cleanable, ready, at, reported, spoiled>>

NoLocator == [pos |-> 0, channel |-> None]
Registered(f) == channels[f] # NoLocator
Contain(c) == fd[c] # None /\ Registered(fd[c])

Init ==
  /\ fd = [c \in Channels |-> None]
  /\ events = [c \in Channels |-> {}]
  /\ buf = <<>>
  /\ channels = [f \in Fds |-> NoLocator]
  /\ cleanable = FALSE
  /\ ready = 0 /\ at = 1
  /\ reported = <<>>
  /\ spoiled = "no"

\* A new channel with a descriptor the kernel has free is registered.
Add(c, f, wanted) ==
  /\ fd[c] = None
  /\ \A d \in Channels : fd[d] # f
  /\ Len(buf) < MaxBuf
  /\ fd' = [fd EXCEPT ![c] = f]
  /\ events' = [events EXCEPT ![c] = wanted]
  /\ buf' = Append(buf, [fd |-> f, events |-> wanted, revents |-> {}])
  /\ channels' = [channels EXCEPT ![f] = [pos |-> Len(buf'), channel |-> c]]
  /\ spoiled' = IF \E i \in 1 .. Len(buf) : buf[i].fd = f THEN "reused" ELSE spoiled
  /\ reported' = <<>>
  /\ UNCHANGED <<cleanable, ready, at>>

Remove(c) ==
  /\ Contain(c)
  /\ channels' = [channels EXCEPT ![fd[c]] = NoLocator]
  /\ cleanable' = TRUE
  /\ reported' = <<>>
  /\ UNCHANGED <<fd, events, buf, ready, at, spoiled>>

\* The last owner lets go of a channel: its descriptor is closed.
Close(c) ==
  /\ fd[c] # None /\ ~Registered(fd[c])
  /\ fd' = [fd EXCEPT ![c] = None]
  /\ events' = [events EXCEPT ![c] = {}]
  /\ reported' = <<>>
  /\ UNCHANGED <<buf, channels, cleanable, ready, at, spoiled>>

Update(c, wanted) ==
  LET pos == channels[fd[c]].pos
  IN  /\ buf' = [buf EXCEPT ![pos].events = wanted]
      /\ spoiled' = IF buf[pos].fd # fd[c] THEN "moved" ELSE spoiled

\* SetReadable and SetWritable: the selector hears of a change only.
SetEvents(c, wanted) ==
  /\ fd[c] # None
  /\ events[c] # wanted
  /\ Cardinality(events[c] \ wanted) + Cardinality(wanted \ events[c]) = 1
  /\ events' = [events EXCEPT ![c] = wanted]
  /\ IF Contain(c) THEN Update(c, wanted) ELSE UNCHANGED <<buf, spoiled>>
  /\ reported' = <<>>
  /\ UNCHANGED <<fd, channels, cleanable, ready, at>>

\* How many of a set of positions come up to one of them, the k-th of the set,
\* and the last.
Rank(P, i) == Cardinality({j \in P : j <= i})
Kth(P, k) == CHOOSE i \in P : Rank(P, i) = k
LastOf(P) == Kth(P, Cardinality(P))

\* The entries of registered descriptors, closed up.
Kept ==
  LET stay == {i \in DOMAIN buf : Registered(buf[i].fd)}
  IN  [k \in 1 .. Cardinality(stay) |-> buf[Kth(stay, k)]]

\* Mutant of CleanUp: the entries close up, the positions stay.
CleanUpPositionsStay == [buf |-> Kept, channels |-> channels]

\* What CleanUp makes of buf_ and channels_: entries of descriptors that are
\* not registered go, and the positions are taken anew, the last one stays.
CleanUp ==
  LET kept == Kept
  IN  [buf |-> kept,
       channels |-> [f \in Fds |->
         IF Registered(f)
         THEN [channels[f] EXCEPT !.pos = LastOf({k \in DOMAIN kept : kept[k].fd = f})]
         ELSE NoLocator]]

Cleaned == IF cleanable THEN CleanUp ELSE [buf |-> buf, channels |-> channels]

\* What poll(2) makes of the entries, for the conditions it finds true of each
\* descriptor.
Answer(s, found) ==
  [i \in DOMAIN s |->
    [s[i] EXCEPT !.revents = found[s[i].fd] \cap (s[i].events \cup {HangUp})]]

Hits(s) == {i \in DOMAIN s : s[i].revents # {}}

\* Mutant of Partition: the entries stay where they are.
PartitionNot(s) == s

\* The first of P and the last of Q face each other, the second and the last
\* but one, and so on.
Mirror(P, Q, i) == Kth(Q, Cardinality(Q) + 1 - Rank(P, i))

\* std::partition: the entries without events among the first n change places
\* with the ones with events behind them, the first with the last.
Partition(s) ==
  LET n == Cardinality(Hits(s))
      front == (1 .. n) \ Hits(s)
      back == Hits(s) \ (1 .. n)
  IN  [i \in DOMAIN s |->
        IF i \in front THEN s[Mirror(front, back, i)]
        ELSE IF i \in back THEN s[Mirror(back, front, i)]
        ELSE s[i]]

Wait(found) ==
  LET polled == Answer(Cleaned.buf, found)
  IN  /\ at > ready
      /\ channels' = Cleaned.channels
      /\ buf' = Partition(polled)
      /\ ready' = Cardinality(Hits(polled))
      /\ at' = 1
      /\ reported' = <<>>
      /\ UNCHANGED <<fd, events, cleanable, spoiled>>

\* poll(2) is interrupted: nothing is ready, the entries keep what they had.
WaitFails ==
  /\ at > ready
  /\ channels' = Cleaned.channels /\ buf' = Cleaned.buf
  /\ ready' = 0 /\ at' = 1
  /\ reported' = <<>>
  /\ UNCHANGED <<fd, events, cleanable, spoiled>>

\* Get, for the next index: a descriptor that is not registered has no channel.
Get ==
  /\ at <= ready
  /\ at' = at + 1
  /\ reported' = IF Registered(buf[at].fd)
                 THEN <<channels[buf[at].fd].channel, buf[at].revents>>
                 ELSE <<>>
  /\ UNCHANGED <<fd, events, buf, channels, cleanable, ready, spoiled>>

Next ==
  \/ Get \/ WaitFails
  \/ \E found \in [Fds -> SUBSET Conditions] : Wait(found)
  \/ \E c \in Channels : Remove(c) \/ Close(c)
  \/ \E c \in Channels, wanted \in SUBSET Events :
       SetEvents(c, wanted) \/ \E f \in Fds : Add(c, f, wanted)

Spec == Init /\ [][Next]_vars
-----------------------------------------------------------------------------

Pollfds == [fd : Fds, events : SUBSET Events, revents : SUBSET Conditions]

TypeOK ==
  /\ fd \in [Channels -> Fds \cup {None}]
  /\ events \in [Channels -> SUBSET Events]
  /\ buf \in Seq(Pollfds) /\ Len(buf) <= MaxBuf
  /\ channels \in [Fds -> [pos : 0 .. MaxBuf, channel : Channels \cup {None}]]
  /\ cleanable \in BOOLEAN
  /\ ready \in 0 .. Len(buf) /\ at \in 1 .. ready + 1
  /\ reported \in {<<>>} \cup (Channels \X SUBSET Conditions)
  /\ spoiled \in {"no", "moved", "reused"}

EntriesOf(f) == {i \in 1 .. Len(buf) : buf[i].fd = f}

\* Whatever std::partition has moved and CleanUp closed up, a registered
\* descriptor has an entry and its position lies in buf_; and unless an Update
\* went astray or a number was used again too early, each of its entries is
\* polled for exactly what the channel has asked for.
PolledAsAsked ==
  /\ TypeOK
  /\ \A f \in Fds : Registered(f) =>
       /\ EntriesOf(f) # {}
       /\ channels[f].pos \in 1 .. Len(buf)
       /\ spoiled = "no" =>
            \A i \in EntriesOf(f) : buf[i].events = events[channels[f].channel]

-----------------------------------------------------------------------------
(* The selector that EventLoop expects.                                     *)

Members == {c \in Channels : Contain(c)}
Found(c) == IF Contain(c)
            THEN UNION {buf[i].revents : i \in EntriesOf(fd[c]) \cap (at .. ready)}
            ELSE {}

S == INSTANCE Selector WITH
  registered <- Members,
  interest <- [c \in Channels |-> events[c]],
  ready <- [c \in Channels |-> Found(c)]

\* Until an Update goes astray or a number is used again too early, Poller keeps
\* the promise of a selector: no channel is reported twice, after its removal or
\* for what it has not asked for.
Implements == S!Init /\ [][S!Next \/ spoiled' # "no"]_S!vars
=============================================================================

---------------------------- MODULE EpollSelector ----------------------------
(***************************************************************************)
(* The default selector (src/selector/epoller.cc), with the loop that waits  *)
(* and asks for each entry (src/eventloop.cc:22-38).  Everything happens on  *)
(* the loop thread.  buf is counted from 1.  A channel is named by its       *)
(* address, which is what the entries hold.                                  *)
(***************************************************************************)
EXTENDS Naturals, Sequences, FiniteSets

CONSTANTS
  Channels,     \* addresses of channels
  Events,       \* what a channel may ask for
  HangUp,       \* the condition that is reported unasked
  InitialSize,  \* entries of buf_ at first, 256 in the code
  SizeLimit     \* bound of buf_, 65536 in the code

ASSUME ChannelsAssumption == IsFiniteSet(Channels)
ASSUME SizeAssumption == InitialSize \in Nat \ {0} /\ SizeLimit \in Nat

Conditions == Events \cup {HangUp}

VARIABLES
  channel,   \* channel_: the channels added and not removed
  kernel,    \* what the epoll descriptor holds: the channels of epoll_ctl
  events,    \* the events that go with them
  buf,       \* buf_, as far as the last epoll_wait has filled it
  size,      \* the size of buf_
  at,        \* the index the loop asks for next
  reported,  \* the answer of Get in the step that gives it, else <<>>
  fatal,     \* epoll_ctl has failed
  reused     \* history: a channel was added at an address that buf_ still holds

vars == <<channel, kernel, events, buf, size, at, reported, fatal, reused>>

\* What the loop has still to ask for.
Waiting(c) == \E i \in at .. Len(buf) : buf[i].ptr = c

Init ==
  /\ channel = {} /\ kernel = {}
  /\ events = [c \in Channels |-> {}]
  /\ buf = <<>> /\ size = InitialSize /\ at = 1
  /\ reported = <<>>
  /\ fatal = FALSE /\ reused = FALSE

\* epoll_ctl fails for a channel that is added twice or not there.
Add(c, wanted) ==
  /\ c \notin channel
  /\ channel' = channel \cup {c}
  /\ kernel' = kernel \cup {c}
  /\ fatal' = (c \in kernel)
  /\ events' = [events EXCEPT ![c] = wanted]
  /\ reused' = (reused \/ Waiting(c))
  /\ reported' = <<>>
  /\ UNCHANGED <<buf, size, at>>

Update(c, wanted) ==
  /\ c \in channel
  /\ events' = [events EXCEPT ![c] = wanted]
  /\ fatal' = (c \notin kernel)
  /\ reported' = <<>>
  /\ UNCHANGED <<channel, kernel, buf, size, at, reused>>

Remove(c) ==
  /\ c \in channel
  /\ channel' = channel \ {c}
  /\ kernel' = kernel \ {c}
  /\ fatal' = (c \notin kernel)
  /\ reported' = <<>>
  /\ UNCHANGED <<events, buf, size, at, reused>>

\* What epoll_wait finds when active[c] is true of the descriptor of c.
Found(active, c) == active[c] \cap (events[c] \cup {HangUp})

\* epoll_wait fills at most size entries with channels that are ready; which
\* ones, when there are more, and in what order is up to the kernel.
Wait(active) ==
  LET hot == {c \in kernel : Found(active, c) # {}}
      n == IF Cardinality(hot) < size THEN Cardinality(hot) ELSE size
  IN  /\ at > Len(buf)
      /\ \E order \in [1 .. n -> hot] :
           /\ \A i, j \in 1 .. n : order[i] = order[j] => i = j
           /\ buf' = [i \in 1 .. n |-> [ptr |-> order[i], events |-> Found(active, order[i])]]
      /\ at' = 1
      /\ size' = IF n = size /\ n < SizeLimit THEN 2 * size ELSE size
      /\ reported' = <<>>
      /\ UNCHANGED <<channel, kernel, events, fatal, reused>>

\* epoll_wait is interrupted.
WaitFails ==
  /\ at > Len(buf)
  /\ buf' = <<>> /\ at' = 1
  /\ reported' = <<>>
  /\ UNCHANGED <<channel, kernel, events, size, fatal, reused>>

\* Mutant of Get: the channel is not looked up.
GetUnchecked ==
  /\ at <= Len(buf)
  /\ at' = at + 1
  /\ reported' = <<buf[at].ptr, buf[at].events>>
  /\ UNCHANGED <<channel, kernel, events, buf, size, fatal, reused>>

\* Get, for the next index: an address that is not registered has no channel.
Get ==
  /\ at <= Len(buf)
  /\ at' = at + 1
  /\ reported' = IF buf[at].ptr \in channel THEN <<buf[at].ptr, buf[at].events>> ELSE <<>>
  /\ UNCHANGED <<channel, kernel, events, buf, size, fatal, reused>>

Next ==
  /\ ~fatal
  /\ \/ Get \/ WaitFails
     \/ \E active \in [Channels -> SUBSET Conditions] : Wait(active)
     \/ \E c \in Channels : Remove(c)
     \/ \E c \in Channels, wanted \in SUBSET Events : Add(c, wanted) \/ Update(c, wanted)

Spec == Init /\ [][Next]_vars

-----------------------------------------------------------------------------

Entries == [ptr : Channels, events : SUBSET Conditions]

TypeOK ==
  /\ channel \subseteq Channels /\ kernel \subseteq Channels
  /\ events \in [Channels -> SUBSET Events]
  /\ buf \in Seq(Entries) /\ Len(buf) <= size
  /\ size \in Nat \ {0}
  /\ at \in 1 .. Len(buf) + 1
  /\ reported \in {<<>>} \cup (Channels \X SUBSET Conditions)
  /\ {fatal, reused} \subseteq BOOLEAN

\* channel_ and the epoll descriptor stay in step, so that no epoll_ctl, whose
\* failure ends the process, ever fails.
KernelInStep == TypeOK /\ kernel = channel /\ ~fatal

-----------------------------------------------------------------------------
(* The selector that EventLoop expects.                                     *)

Ready(c) == IF c \in channel
            THEN UNION {buf[i].events : i \in {j \in at .. Len(buf) : buf[j].ptr = c}}
            ELSE {}

S == INSTANCE Selector WITH
  registered <- channel,
  interest <- events,
  ready <- [c \in Channels |-> Ready(c)]

\* Until an address is used again while a report for it waits, EpollSelector
\* keeps the promise of a selector: no channel is reported twice, after its
\* removal or for what it has not asked for.
Implements == S!Init /\ [][S!Next \/ reused']_S!vars
=============================================================================

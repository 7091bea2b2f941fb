----------------------------- MODULE TimerNumbers -----------------------------
(***************************************************************************)
(* The numbers of the timers of a group of loops (src/eventloopgroup.cc):   *)
(* the queue of each loop numbers its own timers, and the group makes one   *)
(* number of that and of the number of the loop.  EventLoopGroup says who   *)
(* asks for a timer, cancels it and runs it, and when.                      *)
(***************************************************************************)
EXTENDS Naturals

CONSTANTS
  N,            \* size_
  MaxTimers     \* bound: timers that are asked for

Loops == 0 .. N - 1

ASSUME NAssumption == N \in Nat \ {0}
ASSUME MaxTimersAssumption == MaxTimers \in Nat

VARIABLES
  counter,   \* counter[l]: timers the queue of l has numbered
  live,      \* live[l]: numbers of timers in its table
  given,     \* history: what was returned: [id, loop, timer]
  dropped    \* history: ids cancelled, or of timers that have run for good

NoTimers ==
  /\ counter = [l \in Loops |-> 0]
  /\ live = [l \in Loops |-> {}]
  /\ given = {} /\ dropped = {}

\* Mutant of GroupId: the two parts change places.
GroupIdSwapped(timer, l) == l * N + timer

GroupId(timer, l) == timer * N + l

\* The queue of l numbers a timer, and the group returns one number for both.
NumberTimer(l) ==
  LET timer == counter[l] + 1
  IN  /\ counter' = [counter EXCEPT ![l] = timer]
      /\ live' = [live EXCEPT ![l] = @ \cup {timer}]
      /\ given' = given \cup {[id |-> GroupId(timer, l), loop |-> l, timer |-> timer]}
      /\ UNCHANGED dropped

\* A timer leaves the table of l.
DropTimer(l, timer, id) ==
  /\ live' = [live EXCEPT ![l] = @ \ {timer}]
  /\ dropped' = dropped \cup {id}
  /\ UNCHANGED <<counter, given>>

-----------------------------------------------------------------------------

TimersTypeOK ==
  /\ counter \in [Loops -> 0 .. MaxTimers]
  /\ live \in [Loops -> SUBSET (1 .. MaxTimers)]
  /\ given \subseteq [id : Nat, loop : Loops, timer : 1 .. MaxTimers]
  /\ dropped \subseteq {g.id : g \in given}

\* The number of a timer names it among all loops: timers of different loops
\* with the same number there stay apart, and one is alive exactly until its
\* own number is cancelled or it has run for good.
AliveUntilCancelled ==
  /\ TimersTypeOK
  /\ \A g \in given : g.timer \in live[g.loop] <=> g.id \notin dropped
=============================================================================

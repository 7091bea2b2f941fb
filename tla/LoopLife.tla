------------------------------- MODULE LoopLife -------------------------------
(***************************************************************************)
(* What the owner of an EventLoop relies on (include/pedronet/eventloop.h): *)
(* its thread enters Loop once and sets kLooping, leaves only after a Close *)
(* has cleared it, and runs the closures that Close queues only while it is *)
(* inside; the owner waits for the thread, then for close_latch_.  Another   *)
(* thread may be inside Close to that moment, so whoever uses a loop has to  *)
(* see to that.  EventLoop keeps this promise, and every loop of an           *)
(* EventLoopGroup lives by it.                                              *)
(***************************************************************************)
CONSTANTS
  Threads,   \* threads that may call Close
  Self       \* the thread that runs Loop()

VARIABLES
  phase,     \* "created", "looping", "ended", "joined" or "destroyed"
  looping,   \* state_ & kLooping
  closing,   \* threads between the two statements of Close
  queued,    \* a closure of Close is in the queue
  latch      \* close_latch_ has been counted down

vars == <<phase, looping, closing, queued, latch>>

Init ==
  /\ phase = "created"
  /\ ~looping /\ closing = {} /\ ~queued /\ ~latch

\* The CAS at the start of Loop.
Enter ==
  /\ phase = "created"
  /\ phase' = "looping" /\ looping' = TRUE
  /\ UNCHANGED <<closing, queued, latch>>

\* Close, first statement: from the loop thread, only inside Loop.
Clear(t) ==
  /\ phase # "destroyed" /\ t \notin closing
  /\ t = Self => phase = "looping"
  /\ looping' = FALSE
  /\ closing' = closing \cup {t}
  /\ UNCHANGED <<phase, queued, latch>>

\* Close, second statement; undefined once the loop is destroyed.
Queue(t) ==
  /\ phase # "destroyed"
  /\ t \in closing
  /\ closing' = closing \ {t}
  /\ queued' = TRUE
  /\ UNCHANGED <<phase, looping, latch>>

\* One of the closures of Close; another may be queued behind it.
RunClose ==
  /\ phase = "looping" /\ Self \notin closing
  /\ queued
  /\ queued' \in BOOLEAN
  /\ latch' = TRUE
  /\ UNCHANGED <<phase, looping, closing>>

Leave ==
  /\ phase = "looping" /\ Self \notin closing
  /\ ~looping
  /\ phase' = "ended"
  /\ UNCHANGED <<looping, closing, queued, latch>>

Join ==
  /\ phase = "ended"
  /\ phase' = "joined"
  /\ UNCHANGED <<looping, closing, queued, latch>>

\* ~EventLoop.
Destroy ==
  /\ phase = "joined"
  /\ latch
  /\ phase' = "destroyed"
  /\ UNCHANGED <<looping, closing, queued, latch>>

Next ==
  \/ Enter \/ RunClose \/ Leave \/ Join \/ Destroy
  \/ \E t \in Threads : Clear(t) \/ Queue(t)

Spec == Init /\ [][Next]_vars
=============================================================================

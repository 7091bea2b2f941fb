-------------------------- MODULE EventQueueFactory --------------------------
(***************************************************************************)
(* MakeEventQueue (include/pedronet/queue/event_queue_factory.h): the       *)
(* options of a loop choose its queue once.  The variables of               *)
(* EventLockFreeQueue, the default, keep their names; blocking and          *)
(* doubleBuffer stand for those of the other two.                           *)
(***************************************************************************)
EXTENDS EventLockFreeQueue, Sequences

VARIABLES
  event_queue_type,  \* options_.event_queue_type
  bSent, bDone, bQueue, bMu, bReadable, bAt, bCallback,
  dSent, dDone, dPending, dRunning, dNext, dMu, dReadable, dAt, dBegun

bVars == <<bSent, bDone, bQueue, bMu, bReadable, bAt, bCallback>>
dVars == <<dSent, dDone, dPending, dRunning, dNext, dMu, dReadable, dAt, dBegun>>

Blocking == INSTANCE EventBlockingQueue WITH
  sent <- bSent, done <- bDone, queue <- bQueue, mu <- bMu,
  readable <- bReadable, at <- bAt, callback <- bCallback

DoubleBuffer == INSTANCE EventDoubleBufferQueue WITH
  sent <- dSent, done <- dDone, pending <- dPending, running <- dRunning,
  next <- dNext, mu <- dMu, readable <- dReadable, at <- dAt, begun <- dBegun

MakeEventQueue ==
  /\ event_queue_type \in {"kBlockingQueue", "kDoubleBufferQueue", "kLockFreeQueue"}
  /\ Init /\ Blocking!Init /\ DoubleBuffer!Init

Step ==
  /\ UNCHANGED event_queue_type
  /\ \/ event_queue_type = "kLockFreeQueue" /\ Next /\ UNCHANGED <<bVars, dVars>>
     \/ event_queue_type = "kBlockingQueue" /\ Blocking!Next /\ UNCHANGED <<vars, dVars>>
     \/ event_queue_type = "kDoubleBufferQueue" /\ DoubleBuffer!Next /\ UNCHANGED <<vars, bVars>>

\* The fairness of a queue that was not made asks for nothing: in its initial
\* state nobody is inside Add and there is nothing to read.
AnyQueue ==
  /\ MakeEventQueue
  /\ [][Step]_<<event_queue_type, vars, bVars, dVars>>
  /\ Fairness /\ Blocking!Fairness /\ DoubleBuffer!Fairness

-----------------------------------------------------------------------------

\* Waking only when the queue was empty before the push loses no wake-up in
\* either of the queues with a mutex, although one may be between its last Pop
\* and the selector and the other still at its other buffer; EventLockFreeQueue
\* has its own NoLostWakeup.
NoLostWakeupUnderMutex == Blocking!NoLostWakeup /\ DoubleBuffer!NoLostWakeup

\* Callbacks popped one at a time, or taken a batch at a time, run once, in one
\* global order and eventually, while others are added and buffers exchanged.
ImplementsUnderMutex == Blocking!Implements /\ DoubleBuffer!Implements
=============================================================================

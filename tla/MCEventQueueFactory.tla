------------------------- MODULE MCEventQueueFactory -------------------------
(* Two user threads and the loop thread; a buffer of two, so that a batch of  *)
(* the lock-free queue can be full, partial or empty.                         *)
EXTENDS EventQueueFactory, TLC

CONSTANTS a1, a2, loop

MCAdders == {a1, a2, loop}
=============================================================================

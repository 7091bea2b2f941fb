---- MODULE MCTimerHeapQueue ----
(* User threads beside the callbacks of the loop thread.                      *)
EXTENDS TimerHeapQueue, TLC

CONSTANTS u1, u2, loop

OneUser == {u1}
TwoUsers == {u1, u2}
ShortAndLong == {0, 1, 3}
Growing == {2, 4}
OnceOrRepeat == {0, 2}
Once == {0}
====

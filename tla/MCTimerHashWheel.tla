---- MODULE MCTimerHashWheel ----
(* A wheel of three buckets and time for one full rotation and its wrap.         *)
EXTENDS TimerHashWheel, TLC

CONSTANTS u1, loop

OneUser == {u1}
ShortAndLong == {0, 2}
SomeIntervals == {Once, 1}
====

---- MODULE MCEventLoop ----
(* User threads beside the loop thread, which also calls from callbacks.     *)
EXTENDS EventLoop, TLC

CONSTANTS u1, u2, loop

OneUser == {u1}
TwoUsers == {u1, u2}
Anywhere == {"user", "task", "handler"}
FromHandler == {"handler"}
====

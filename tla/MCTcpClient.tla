---- MODULE MCTcpClient ----
(* Two user threads beside the loop thread, whose handler calls as well.      *)
EXTENDS TcpClient, TLC

CONSTANTS u1, u2, loop

TwoUsers == {u1, u2}
====

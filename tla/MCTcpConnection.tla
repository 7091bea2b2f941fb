---- MODULE MCTcpConnection ----
(* One user thread beside the loop thread, whose handler calls as well; a     *)
(* socket with room for two bytes, so that a Send is written whole, in part   *)
(* or not at all.                                                            *)
EXTENDS TcpConnection, TLC

CONSTANTS u1, loop, boss

OneUser == {u1}
JustOne == {1}
JustTwo == {2}
All == AllCalls
Sending == {"Send"}
====

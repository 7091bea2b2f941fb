----------------------------- MODULE MCTcpServer -----------------------------
(* A small server: one user thread, the boss loop and a worker loop, which    *)
(* may be one and the same, and two connections.                             *)
EXTENDS TcpServer

CONSTANTS u1, boss, w1, c1, c2

OneUser == {u1}
BossAndWorker == {boss, w1}
TwoConns == {c1, c2}
=============================================================================

-------------------------- MODULE MCEventLoopGroup --------------------------
(* Two loops, the owner of the group, three timers that it or the loops ask    *)
(* for, and a next_ that wraps at a number the loops do not divide.            *)
EXTENDS EventLoopGroup

CONSTANTS u1

OneUser == {u1}
=============================================================================

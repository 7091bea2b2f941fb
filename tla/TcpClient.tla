------------------------------ MODULE TcpClient ------------------------------
(***************************************************************************)
(* A TcpClient (src/tcp_client.cc): user threads that start and close it,   *)
(* the loop thread that connects, retries and calls the handler, and the    *)
(* handler, which may close the client or its connection from inside.       *)
(*                                                                         *)
(* The TcpConnection appears by what it promises: ForceClose is followed by *)
(* OnClose, at once on the loop thread, unless the connection is silent: a  *)
(* Close with output waiting has stored kDisconnected without OnClose to    *)
(* follow, and every later end returns at that state.  After Shutdown the   *)
(* peer decides.  conn_ is a plain shared_ptr: "if (conn_) conn_->Close()"  *)
(* reads it twice, and nothing keeps the loop thread from resetting it      *)
(* before, between and after.                                               *)
(***************************************************************************)
EXTENDS Naturals, Sequences

CONSTANTS
  Users,      \* user threads
  Loop        \* the thread of eventloop_

ASSUME ThreadsAssumption == Loop \notin Users

Threads == Users \cup {Loop}
State == {"offline", "connecting", "connected", "disconnecting", "disconnected"}
Ops == {"Close", "ForceClose", "Shutdown", "ForceShutdown"}
Handlers == {"OnConnect", "OnRead", "OnClose"}

VARIABLES
  state,      \* state_
  conn,       \* conn_ points to the connection
  raises,     \* calls of raiseConnection queued on the loop
  retries,    \* timers of retry that have not rung
  tcp,        \* the connection: "none", "open", "ending" (OnClose is due), "silent"
              \* or "closed"
  stack,      \* what the loop thread still has to do, next first
  pc,         \* where a thread is in a call that closes the client
  op,         \* which call that is; "none" before there was one
  missed,     \* history: the call found no connection
  early,      \* history: OnClose came before conn_ was assigned
  crashed     \* the call went through a null conn_ or to a connection that was freed

vars == <<state, conn, raises, retries, tcp, stack, pc, op, missed, early, crashed>>
callVars == <<pc, op, missed, crashed>>

TypeOK ==
  /\ state \in State
  /\ conn \in BOOLEAN
  /\ raises \in Nat /\ retries \in Nat
  /\ tcp \in {"none", "open", "ending", "silent", "closed"}
  /\ stack \in Seq(Handlers \cup {"assign", "reset"}) /\ Len(stack) <= 4
  /\ pc \in [Threads -> {"idle", "check", "read", "call"}]
  /\ op \in Ops \cup {"none"}
  /\ {missed, early, crashed} \subseteq BOOLEAN

Init ==
  /\ state = "offline" /\ conn = FALSE
  /\ raises = 0 /\ retries = 0
  /\ tcp = "none" /\ stack = <<>>
  /\ pc = [t \in Threads |-> "idle"] /\ op = "none"
  /\ missed = FALSE /\ early = FALSE /\ crashed = FALSE

InHandler == stack # <<>> /\ Head(stack) \in Handlers /\ pc[Loop] = "idle"
Assigning == \E i \in 1 .. Len(stack) : stack[i] = "assign"

-----------------------------------------------------------------------------
(* Start, and the attempts to connect.                                      *)

\* In any other state Start returns at once.
Start ==
  /\ state = "offline"
  /\ state' = "connecting"
  /\ raises' = raises + 1
  /\ UNCHANGED <<conn, retries, tcp, stack, callVars, early>>

\* connect(2) has succeeded or is in progress; Start registers the channel and
\* calls OnConnect before it returns.
HandleConnection ==
  /\ IF state = "connecting"
     THEN /\ state' = "connected"
          /\ tcp' = "open"
          /\ stack' = <<"OnConnect", "assign">>
     ELSE UNCHANGED <<state, tcp, stack>>
  /\ UNCHANGED retries

\* Mutant of Retry: the client gives up without saying so.
RetryNot == UNCHANGED <<state, retries, tcp, stack>>

Retry ==
  /\ retries' = retries + 1
  /\ UNCHANGED <<state, tcp, stack>>

GiveUp ==
  /\ state' = "offline"
  /\ UNCHANGED <<retries, tcp, stack>>

RaiseConnection ==
  /\ raises > 0 /\ stack = <<>>
  /\ raises' = raises - 1
  /\ IF state = "connecting"
     THEN HandleConnection \/ Retry \/ GiveUp
     ELSE UNCHANGED <<state, retries, tcp, stack>>
  /\ UNCHANGED <<conn, callVars, early>>

RetryRings ==
  /\ retries > 0
  /\ retries' = retries - 1
  /\ raises' = raises + 1
  /\ UNCHANGED <<state, conn, tcp, stack, callVars, early>>

\* Mutant of Assign: conn_ is left alone.
AssignNot ==
  /\ stack # <<>> /\ Head(stack) = "assign"
  /\ stack' = Tail(stack)
  /\ UNCHANGED <<state, conn, raises, retries, tcp, callVars, early>>

\* conn_ = conn, after OnConnect has returned.
Assign ==
  /\ stack # <<>> /\ Head(stack) = "assign"
  /\ conn' = TRUE
  /\ stack' = Tail(stack)
  /\ UNCHANGED <<state, raises, retries, tcp, callVars, early>>

-----------------------------------------------------------------------------
(* The calls that close the client: a compare-and-swap, then two reads of   *)
(* conn_.                                                                   *)

\* When state_ is not kConnected the call returns at once.
Begin(t, call) ==
  /\ state = "connected"
  /\ pc[t] = "idle"
  /\ t = Loop => InHandler
  /\ state' = "disconnecting"
  /\ pc' = [pc EXCEPT ![t] = "check"]
  /\ op' = call
  /\ UNCHANGED <<conn, raises, retries, tcp, stack, missed, early, crashed>>

Close(t) == Begin(t, "Close")
ForceClose(t) == Begin(t, "ForceClose")
Shutdown(t) == Begin(t, "Shutdown")
ForceShutdown(t) == Begin(t, "ForceShutdown")

Check(t) ==
  /\ pc[t] = "check"
  /\ pc' = [pc EXCEPT ![t] = IF conn THEN "read" ELSE "idle"]
  /\ missed' = ~conn
  /\ UNCHANGED <<state, conn, raises, retries, tcp, stack, op, early, crashed>>

\* conn_ is read again: null, it has no connection to call.
ReadConnection(t) ==
  /\ pc[t] = "read"
  /\ pc' = [pc EXCEPT ![t] = IF conn THEN "call" ELSE "idle"]
  /\ crashed' = ~conn
  /\ UNCHANGED <<state, conn, raises, retries, tcp, stack, op, missed, early>>

\* The connection ends: its OnClose runs at once on the loop thread.
End(t) ==
  /\ tcp = "open"
  /\ \/ /\ t = Loop
        /\ tcp' = "closed"
        /\ stack' = <<"OnClose", "reset">> \o stack
     \/ /\ t # Loop
        /\ tcp' = "ending"
        /\ UNCHANGED stack

\* Close of a connection with output waiting: there is no OnClose to come.
CloseSilently ==
  /\ tcp = "open"
  /\ tcp' = "silent"
  /\ UNCHANGED stack

\* Mutant of CallConnection: nothing is called.
CallConnectionNot(t) ==
  /\ pc[t] = "call"
  /\ pc' = [pc EXCEPT ![t] = "idle"]
  /\ UNCHANGED <<state, conn, raises, retries, tcp, stack, op, missed, early, crashed>>

\* Close does nothing after a Shutdown, and ForceClose nothing once kDisconnected
\* is stored.  If OnClose has reset conn_ meanwhile, only somebody else who holds
\* the connection can have kept it.
CallConnection(t) ==
  /\ pc[t] = "call"
  /\ pc' = [pc EXCEPT ![t] = "idle"]
  /\ \/ conn /\ op \in {"ForceClose", "Close"} /\ End(t) /\ UNCHANGED crashed
     \/ conn /\ op = "Close" /\ CloseSilently /\ UNCHANGED crashed
     \/ /\ op = "ForceClose" => tcp # "open"
        /\ crashed' \in {FALSE, ~conn}
        /\ UNCHANGED <<tcp, stack>>
  /\ UNCHANGED <<state, conn, raises, retries, op, missed, early>>

-----------------------------------------------------------------------------
(* The connection and its handler, on the loop thread.                      *)

\* A user thread that holds the connection calls Close or ForceClose of it.
HolderEnds ==
  /\ \E t \in Users : End(t) \/ CloseSilently
  /\ UNCHANGED <<state, conn, raises, retries, callVars, early>>

\* The loop thread has the connection call its handler, which a silent
\* connection goes on to do, ...
HandleRead ==
  /\ stack = <<>> /\ tcp \in {"open", "ending", "silent"}
  /\ stack' = <<"OnRead">>
  /\ UNCHANGED <<state, conn, raises, retries, tcp, callVars, early>>

\* ... runs the closure that removes it, or finds that the peer has ended it.
HandleRemove ==
  /\ stack = <<>> /\ tcp \in {"open", "ending"}
  /\ stack' = <<"OnClose", "reset">> /\ tcp' = "closed"
  /\ UNCHANGED <<state, conn, raises, retries, callVars, early>>

\* The handler calls Close or ForceClose of the connection itself.
HandlerEnds ==
  /\ InHandler
  /\ End(Loop) \/ CloseSilently
  /\ UNCHANGED <<state, conn, raises, retries, callVars, early>>

HandlerReturns ==
  /\ InHandler
  /\ stack' = Tail(stack)
  /\ UNCHANGED <<state, conn, raises, retries, tcp, callVars, early>>

\* Mutants of OnClose: conn_ is kept; only a client that was closed is told.
OnCloseKeeps ==
  /\ stack # <<>> /\ Head(stack) = "reset"
  /\ state' = "disconnected"
  /\ early' = (early \/ Assigning)
  /\ stack' = Tail(stack)
  /\ UNCHANGED <<conn, raises, retries, tcp, callVars>>

OnCloseRestarts ==
  /\ stack # <<>> /\ Head(stack) = "reset"
  /\ state' = "offline"
  /\ conn' = FALSE
  /\ early' = (early \/ Assigning)
  /\ stack' = Tail(stack)
  /\ UNCHANGED <<raises, retries, tcp, callVars>>

\* What follows the user's OnClose.
OnClose ==
  /\ stack # <<>> /\ Head(stack) = "reset"
  /\ state' = "disconnected"
  /\ conn' = FALSE
  /\ early' = (early \/ Assigning)
  /\ stack' = Tail(stack)
  /\ UNCHANGED <<raises, retries, tcp, callVars>>

-----------------------------------------------------------------------------

LoopStep ==
  \/ RaiseConnection \/ Assign \/ HandleRead \/ HandleRemove \/ HandlerReturns \/ OnClose

CallStep(t) == Check(t) \/ ReadConnection(t) \/ CallConnection(t)

Next ==
  /\ ~crashed
  /\ \/ Start \/ RetryRings \/ LoopStep \/ HandlerEnds \/ HolderEnds
     \/ \E t \in Threads :
          CallStep(t) \/ Close(t) \/ ForceClose(t) \/ Shutdown(t) \/ ForceShutdown(t)

\* The loop thread runs and comes to the end of the connection, handlers
\* return, a thread inside a call goes on and timers ring.  Nothing makes the
\* network accept a connection.
Fairness ==
  /\ WF_vars(~crashed /\ LoopStep)
  /\ SF_vars(~crashed /\ tcp = "ending" /\ HandleRemove)
  /\ WF_vars(~crashed /\ RetryRings)
  /\ \A t \in Threads : WF_vars(~crashed /\ CallStep(t))

Spec == Init /\ [][Next]_vars /\ Fairness

-----------------------------------------------------------------------------

\* While the client is connecting exactly one attempt is on its way, queued or
\* waiting for its timer, and none otherwise: a retry neither gets lost nor
\* survives the client that asked for it.
ConnectingHasAttempt == raises + retries = IF state = "connecting" THEN 1 ELSE 0

Rank(s) ==
  CASE s = "offline" -> 0 [] s = "connecting" -> 1 [] s = "connected" -> 2
    [] s = "disconnecting" -> 3 [] s = "disconnected" -> 4

\* A client goes through its states once: whatever the calls, the connection's
\* end and a late attempt race to store, no state is left for an earlier one,
\* except that an attempt may fail for good.
NeverBack ==
  [][Rank(state) > Rank(state') => state = "connecting" /\ state' = "offline"]_vars

\* A call that has moved the client to kDisconnecting misses the connection
\* only while it is not assigned yet, or after it has ended.
MissedOnlyWhileAssigning == [][missed' /\ ~missed => Assigning \/ tcp = "closed"]_vars

\* The client lets go of a connection that has ended, unless it ended inside
\* its own OnConnect, before the client took hold of it.
LetsGo == tcp = "closed" /\ stack = <<>> => ~conn \/ early

\* ForceClose disconnects the client, if it has found the connection and reached
\* it, and no Close of the connection itself, with output waiting, was there
\* before: TcpConnection::ForceClose returns then, and the client stays
\* kDisconnecting.
ForceCloseEnds ==
  state = "disconnecting" /\ op = "ForceClose" ~>
    state = "disconnected" \/ missed \/ crashed \/ tcp = "silent"
=============================================================================

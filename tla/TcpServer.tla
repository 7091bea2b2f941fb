------------------------------ MODULE TcpServer ------------------------------
(***************************************************************************)
(* A TcpServer (src/tcp_server.cc) with its Acceptor (src/acceptor.cc): the *)
(* boss loop that accepts, the worker loops that own the connections, the   *)
(* set conns_ under mu_, and the threads that start, close and destroy the  *)
(* server, the handlers among them.                                        *)
(*                                                                         *)
(* A loop appears by its promise (EventLoop): closures are run in order,    *)
(* between the events of registered channels; Add and Remove execute at     *)
(* once on their own thread.  A TcpConnection appears by the steps that     *)
(* touch the server or the lifetime of the object.  conns_ is the only      *)
(* lasting owner of a connection: the callbacks of its channel and the      *)
(* closures of Close hold a plain this (src/tcp_connection.cc:12-16,90,150).*)
(***************************************************************************)
EXTENDS Naturals, Sequences, FiniteSets

CONSTANTS
  Users,      \* user threads
  Boss,       \* the loop of boss_group_ that Bind has picked
  Workers,    \* the loops of worker_group_; Boss may be one of them
  None,       \* no thread, no connection
  Conns,      \* connections that arrive
  MaxFiles,   \* bound: largest limit on the descriptors of the process
  MaxCloses   \* bound: calls of TcpServer::Close

Loops == Workers \cup {Boss}
Threads == Users \cup Loops

ASSUME ThreadsAssumption ==
  /\ Users \cap Loops = {}
  /\ None \notin Threads /\ None \notin Conns
ASSUME BoundsAssumption == MaxFiles \in Nat /\ MaxCloses \in Nat

VARIABLES
  started,    \* Start has been called
  listening,  \* "no", then "yes" while the acceptor's channel is in the selector
              \* of Boss, and "removed" after that, when the socket still listens
  backlog,    \* connections the kernel has ready for accept
  loop,       \* loop[c]: the worker that owns c
  state,      \* state_ of the connection; "none" before accept
  channels,   \* connections whose channel is in a selector
  context,    \* connections whose ChannelContext still points to them
  conns,      \* conns_
  mu,         \* the thread that holds mu_
  todo,       \* under mu_: connections that TcpServer::Close has not come to
  counted,    \* threads whose latch in Acceptor::Close was counted down
  queue,      \* queue[l]: closures scheduled on loop l, in one order, which
              \* every event queue keeps for the calls of one thread
  stack,      \* stack[t]: what t still has to do, next first
  files,      \* how many connections RLIMIT_NOFILE leaves descriptors for
  closers,    \* history: threads that have called TcpServer::Close
  calls,      \* number of these calls
  closed,     \* history: one of them has returned
  destroying, \* ~TcpServer has been called
  crashed     \* "null": through a null context; "closure", "event": on a
              \* connection that is gone, by a closure or a callback

serverVars == <<started, listening, backlog, counted>>
connVars == <<loop, state, channels, context>>
lockVars == <<conns, mu, todo>>
histVars == <<files, closers, calls, closed, destroying>>
vars == <<serverVars, connVars, lockVars, queue, stack, histVars, crashed>>

-----------------------------------------------------------------------------

\* What is left to do: a step, for a connection, holding a shared_ptr to it.
Frame(step, c, own) == [step |-> step, conn |-> c, own |-> own]
Step(step) == Frame(step, None, FALSE)

Idle(t) == stack[t] = <<>>
At(t, step) == ~Idle(t) /\ Head(stack[t]).step = step
Current(t) == Head(stack[t]).conn
InHandler(t) == \E h \in {"OnConnect", "OnRead", "OnClose"} : At(t, h)

\* The first thing to do is replaced by these.
Then(t, frames) == stack' = [stack EXCEPT ![t] = frames \o Tail(@)]
\* These are done before anything else.
First(t, frames) == stack' = [stack EXCEPT ![t] = frames \o @]
Push(l, closure) == queue' = [queue EXCEPT ![l] = Append(@, closure)]

Owned(t, c) == \E i \in 1 .. Len(stack[t]) : stack[t][i].conn = c /\ stack[t][i].own
Connecting(l, c) == \E i \in 1 .. Len(queue[l]) : queue[l][i] = <<"connect", c>>

\* Some shared_ptr points to the connection.
Alive(c) ==
  \/ c \in conns
  \/ \E t \in Threads : Owned(t, c)
  \/ \E l \in Loops : Connecting(l, c)

\* Bind has been called: the acceptor has its socket and its loop.
Init ==
  /\ started = FALSE /\ listening = "no" /\ backlog = {} /\ counted = {}
  /\ loop = [c \in Conns |-> None]
  /\ state = [c \in Conns |-> "none"]
  /\ channels = {} /\ context = {}
  /\ conns = {} /\ mu = None /\ todo = {}
  /\ queue = [l \in Loops |-> <<>>]
  /\ stack = [t \in Threads |-> <<>>]
  /\ files \in 1 .. MaxFiles
  /\ closers = {} /\ calls = 0 /\ closed = FALSE /\ destroying = FALSE
  /\ crashed = "no"

\* A user thread calls when it has nothing else to do, a loop thread from
\* inside a handler; nobody calls a server that is being destroyed.
MayCall(t) ==
  /\ ~destroying
  /\ IF t \in Users THEN Idle(t) ELSE InHandler(t)

-----------------------------------------------------------------------------
(* The acceptor.                                                            *)

\* Start, after Bind: Listen adds the acceptor's channel.
Start(t) ==
  /\ t \in Users /\ MayCall(t)
  /\ ~started
  /\ started' = TRUE
  /\ Push(Boss, <<"listen", None>>)
  /\ UNCHANGED <<listening, backlog, counted, connVars, lockVars, stack, histVars, crashed>>

\* The closure of Listen on the boss loop.
Listen ==
  /\ listening' = "yes"
  /\ UNCHANGED <<started, backlog, counted, connVars, stack>>

Arrive(c) ==
  /\ listening # "no"
  /\ state[c] = "none" /\ c \notin backlog
  /\ backlog' = backlog \cup {c}
  /\ UNCHANGED <<started, listening, counted, connVars, lockVars, queue, stack, histVars, crashed>>

\* Descriptors: a channel that is registered, or held by its connection.
OpenFiles == {c \in Conns : state[c] # "none" /\ (c \in channels \/ Alive(c))}
CanAccept == Cardinality(OpenFiles) < files

\* The channel of the acceptor is readable: the loop of OnRead begins.
HandleAccept ==
  /\ Idle(Boss)
  /\ listening = "yes" /\ backlog # {}
  /\ First(Boss, <<Step("accept")>>)
  /\ UNCHANGED <<serverVars, connVars, lockVars, queue, histVars, crashed>>

\* Mutant of ConnectFrames: the closure holds a plain this.
ConnectFramesUnowned(c) ==
  <<Frame("OnConnect", c, FALSE), Frame("emplace", c, FALSE), Frame("readable", c, FALSE)>>

\* What the connection does once its channel is added: OnConnect of the user,
\* then the insertion, then SetReadable; the closure holds a shared_ptr.
ConnectFrames(c) ==
  <<Frame("OnConnect", c, FALSE), Frame("emplace", c, FALSE), Frame("readable", c, TRUE)>>

Connected(c) ==
  /\ state' = [state EXCEPT ![c] = "connected"]
  /\ channels' = channels \cup {c}

\* One turn of it: accept(2), a connection for the next worker loop, its Start.
\* An error other than EAGAIN, as for want of a descriptor, is tried again.
Accept(c, w) ==
  /\ At(Boss, "accept")
  /\ c \in backlog /\ CanAccept
  /\ backlog' = backlog \ {c}
  /\ loop' = [loop EXCEPT ![c] = w]
  /\ context' = context \cup {c}
  /\ IF w = Boss
     THEN /\ Connected(c)
          /\ First(Boss, ConnectFrames(c))
          /\ UNCHANGED queue
     ELSE /\ state' = [state EXCEPT ![c] = "connecting"]
          /\ Push(w, <<"connect", c>>)
          /\ UNCHANGED <<channels, stack>>
  /\ UNCHANGED <<started, listening, counted, lockVars, histVars, crashed>>

\* accept(2) answers EAGAIN.
EndAccept ==
  /\ At(Boss, "accept")
  /\ backlog = {}
  /\ Then(Boss, <<>>)
  /\ UNCHANGED <<serverVars, connVars, lockVars, queue, histVars, crashed>>

\* Mutant of RemoveNow: the callback is dropped.
RemoveNowSilent(t) ==
  /\ listening' = IF listening = "yes" THEN "removed" ELSE listening
  /\ UNCHANGED counted

\* EventLoop::Remove on the boss loop, with the callback for the latch of t.
RemoveNow(t) ==
  IF listening = "yes"
  THEN listening' = "removed" /\ counted' = counted \cup {t}
  ELSE UNCHANGED <<listening, counted>>

\* Acceptor::Close asks for the callback that counts the latch down; Remove
\* calls it only if the channel is registered.
CloseAcceptor(t) ==
  IF t = Boss
  THEN RemoveNow(t) /\ UNCHANGED queue
  ELSE /\ Push(Boss, <<"remove", t>>)
       /\ UNCHANGED <<listening, counted>>

\* The closure of Remove on the boss loop, for the latch of thread t.
RemoveAcceptor(t) ==
  /\ RemoveNow(t)
  /\ UNCHANGED <<started, backlog, connVars, stack>>

Await(t) ==
  /\ At(t, "await")
  /\ t \in counted
  /\ counted' = counted \ {t}
  /\ Then(t, <<>>)
  /\ UNCHANGED <<started, listening, backlog, connVars, lockVars, queue, histVars, crashed>>

-----------------------------------------------------------------------------
(* The end of a connection.                                                 *)

\* OnClose of the user, the removal from conns_, the rest of handleRemove.
EndFrames(c, own) ==
  <<Frame("OnClose", c, FALSE), Frame("erase", c, FALSE), Frame("unlink", c, own)>>

\* Neither the peer nor a Close or ForceClose has ended it.
Open(c) == state[c] \in {"connected", "disconnecting"}

\* Close or ForceClose of the connection by thread t; once it is being shut down
\* only the latter.  On its own loop thread it ends at once, held by self, unless
\* output keeps Close from it; elsewhere a closure with a plain this is scheduled.
EndConn(t, c) ==
  /\ state' = [state EXCEPT ![c] = "disconnected"]
  /\ IF t # loop[c]
     THEN /\ Push(loop[c], <<"end", c>>)
          /\ UNCHANGED <<channels, stack>>
     ELSE /\ UNCHANGED queue
          /\ \/ /\ channels' = channels \ {c}
                /\ First(t, EndFrames(c, TRUE))
             \/ state[c] = "connected" /\ UNCHANGED <<channels, stack>>

\* Shutdown or ForceShutdown: the channel stays registered until the peer ends
\* the connection or ForceClose does.  The closure stops the writing, which is no
\* part of this state.
ShutConn(c) ==
  /\ state[c] = "connected"
  /\ state' = [state EXCEPT ![c] = "disconnecting"]
  /\ UNCHANGED <<channels, queue, stack>>

\* The handler ends its own connection, or shuts it down.
HandlerEnds(t) ==
  /\ InHandler(t)
  /\ LET c == Current(t)
     IN  /\ c \in context /\ Open(c)
         /\ EndConn(t, c) \/ ShutConn(c)
  /\ UNCHANGED <<serverVars, loop, context, lockVars, histVars, crashed>>

\* A user thread that has a shared_ptr for a while does.
UserEnds(t, c) ==
  /\ t \in Users /\ MayCall(t)
  /\ c \in conns /\ Open(c)
  /\ EndConn(t, c) \/ ShutConn(c)
  /\ UNCHANGED <<serverVars, loop, context, lockVars, histVars, crashed>>

\* The closure of Start, on the worker loop.
RunConnect(l, c) ==
  /\ Connected(c)
  /\ First(l, ConnectFrames(c))
  /\ UNCHANGED <<serverVars, loop, context, crashed>>

\* The closure of Close or ForceClose: with output waiting it does nothing.
RunEnd(l, c) ==
  /\ \/ /\ ~Alive(c)
        /\ crashed' = "closure"
        /\ UNCHANGED <<channels, stack>>
     \/ /\ Alive(c)
        /\ channels' = channels \ {c}
        /\ IF c \in channels THEN First(l, EndFrames(c, FALSE)) ELSE UNCHANGED stack
        /\ UNCHANGED crashed
     \/ /\ Alive(c)
        /\ UNCHANGED <<channels, stack, crashed>>
  /\ UNCHANGED <<serverVars, loop, state, context>>

\* The loop thread runs the next closure.
RunClosure(l) ==
  /\ Idle(l)
  /\ queue[l] # <<>>
  /\ queue' = [queue EXCEPT ![l] = Tail(@)]
  /\ LET kind == Head(queue[l])[1]
         arg == Head(queue[l])[2]
     IN  \/ kind = "listen" /\ Listen /\ UNCHANGED crashed
         \/ kind = "remove" /\ RemoveAcceptor(arg) /\ UNCHANGED crashed
         \/ kind = "connect" /\ RunConnect(l, arg)
         \/ kind = "end" /\ RunEnd(l, arg)
  /\ UNCHANGED <<lockVars, histVars>>

\* HandleEvents of a connection's channel: something to read, or the end of the
\* stream, and perhaps the write callback after it.
HandleEvents(c) ==
  /\ c \in channels /\ Idle(loop[c])
  /\ \/ /\ ~Alive(c)
        /\ crashed' = "event"
        /\ UNCHANGED <<state, channels, stack>>
     \/ /\ Alive(c)
        /\ \E more \in {<<>>, <<Frame("write", c, FALSE)>>} :
             \/ /\ First(loop[c], <<Frame("OnRead", c, FALSE)>> \o more)
                /\ UNCHANGED <<state, channels>>
             \/ /\ Open(c)
                /\ state' = [state EXCEPT ![c] = "disconnected"]
                /\ channels' = channels \ {c}
                /\ First(loop[c], EndFrames(c, TRUE) \o more)
        /\ UNCHANGED crashed
  /\ UNCHANGED <<serverVars, loop, context, lockVars, queue, histVars>>

HandlerReturns(t) ==
  /\ InHandler(t)
  /\ Then(t, <<>>)
  /\ UNCHANGED <<serverVars, connVars, lockVars, queue, histVars, crashed>>

\* TcpServerChannelHandler::OnConnect after the handler of the user.
Emplace(t) ==
  /\ At(t, "emplace")
  /\ mu = None
  /\ IF Current(t) \in context
     THEN conns' = conns \cup {Current(t)} /\ UNCHANGED crashed
     ELSE crashed' = "null" /\ UNCHANGED conns
  /\ Then(t, <<>>)
  /\ UNCHANGED <<serverVars, connVars, mu, todo, queue, histVars>>

\* Mutant of Erase: the set is left alone.
EraseNot(t) ==
  /\ At(t, "erase")
  /\ mu = None
  /\ Then(t, <<>>)
  /\ UNCHANGED <<serverVars, connVars, lockVars, queue, histVars, crashed>>

\* TcpServerChannelHandler::OnClose after the handler of the user.
Erase(t) ==
  /\ At(t, "erase")
  /\ mu = None
  /\ conns' = conns \ {Current(t)}
  /\ Then(t, <<>>)
  /\ UNCHANGED <<serverVars, connVars, mu, todo, queue, histVars, crashed>>

\* SetReadable and handleWrite leave this part of the state alone; handleRemove
\* ends by cutting the context off.  All three use the connection.
Touch(t) ==
  /\ \E step \in {"readable", "write", "unlink"} : At(t, step)
  /\ LET c == Current(t)
     IN  IF Alive(c)
         THEN /\ context' = IF At(t, "unlink") THEN context \ {c} ELSE context
              /\ UNCHANGED crashed
         ELSE /\ crashed' = IF At(t, "write") THEN "event" ELSE "closure"
              /\ UNCHANGED context
  /\ Then(t, <<>>)
  /\ UNCHANGED <<serverVars, loop, state, channels, lockVars, queue, histVars>>

-----------------------------------------------------------------------------
(* TcpServer::Close and ~TcpServer.                                         *)

\* Mutant of CloseFrames: the latch is not awaited.
CloseFramesNoAwait == <<Step("lock")>>

CloseFrames == <<Step("await"), Step("lock")>>

\* Close begins with Acceptor::Close.
BeginClose(t) ==
  /\ MayCall(t) /\ started
  /\ calls < MaxCloses
  /\ calls' = calls + 1
  /\ closers' = closers \cup {t}
  /\ CloseAcceptor(t)
  /\ First(t, CloseFrames)
  /\ UNCHANGED <<started, backlog, connVars, lockVars, files, closed, destroying, crashed>>

Lock(t) ==
  /\ At(t, "lock")
  /\ mu = None
  /\ mu' = t
  /\ todo' = conns
  /\ Then(t, <<Step("close")>>)
  /\ UNCHANGED <<serverVars, connVars, conns, queue, histVars, crashed>>

\* conn->Close() under mu_; a connection that is not connected is left alone, one
\* that is being shut down included.
CloseOne(t, c) ==
  /\ At(t, "close")
  /\ c \in todo
  /\ todo' = todo \ {c}
  /\ IF state[c] = "connected"
     THEN EndConn(t, c)
     ELSE UNCHANGED <<state, channels, queue, stack>>
  /\ UNCHANGED <<serverVars, loop, context, conns, mu, histVars, crashed>>

Unlock(t) ==
  /\ At(t, "close")
  /\ todo = {}
  /\ conns' = {}
  /\ mu' = None
  /\ closed' = TRUE
  /\ Then(t, <<>>)
  /\ UNCHANGED <<serverVars, connVars, todo, queue, files, closers, calls, destroying, crashed>>

\* ~TcpServer: Close, and then the members, the last owner of the acceptor
\* among them.
Destroy(t) ==
  /\ t \in Users /\ MayCall(t) /\ started
  /\ destroying' = TRUE
  /\ CloseAcceptor(t)
  /\ First(t, CloseFrames \o <<Step("members")>>)
  /\ UNCHANGED <<started, backlog, connVars, lockVars, files, closers, calls, closed, crashed>>

\* ~Acceptor: Acceptor::Close again.
DestroyAcceptor(t) ==
  /\ At(t, "members")
  /\ CloseAcceptor(t)
  /\ Then(t, <<Step("await")>>)
  /\ UNCHANGED <<started, backlog, connVars, lockVars, histVars, crashed>>

-----------------------------------------------------------------------------

AcceptStep ==
  HandleAccept \/ EndAccept \/ \E c \in Conns, w \in Workers : Accept(c, w)

ThreadStep(t) ==
  \/ HandlerReturns(t) \/ Emplace(t) \/ Erase(t) \/ Touch(t)
  \/ Await(t) \/ Lock(t) \/ Unlock(t) \/ DestroyAcceptor(t)
  \/ \E c \in Conns : CloseOne(t, c)

Next ==
  /\ crashed = "no"
  /\ \/ AcceptStep
     \/ \E l \in Loops : RunClosure(l)
     \/ \E c \in Conns : Arrive(c) \/ HandleEvents(c)
     \/ \E t \in Threads : ThreadStep(t) \/ Start(t) \/ BeginClose(t) \/ Destroy(t) \/ HandlerEnds(t)
     \/ \E t \in Threads, c \in Conns : UserEnds(t, c)

\* A thread goes on with what it has begun, handlers return, and a loop comes
\* to every closure and to the acceptor.  Nothing makes a connection arrive,
\* and nothing makes one end.
Fairness ==
  /\ \A t \in Threads : WF_vars(crashed = "no" /\ ThreadStep(t))
  /\ \A l \in Loops : SF_vars(crashed = "no" /\ RunClosure(l))
  /\ SF_vars(crashed = "no" /\ AcceptStep)

Spec == Init /\ [][Next]_vars /\ Fairness

-----------------------------------------------------------------------------

TypeOK ==
  /\ {started, closed, destroying} \subseteq BOOLEAN
  /\ listening \in {"no", "yes", "removed"}
  /\ loop \in [Conns -> Workers \cup {None}]
  /\ state \in [Conns -> {"none", "connecting", "connected", "disconnecting", "disconnected"}]
  /\ UNION {backlog, channels, context, conns, todo} \subseteq Conns
  /\ mu \in Threads \cup {None}
  /\ counted \subseteq Threads /\ closers \subseteq Threads
  /\ calls \in 0 .. MaxCloses /\ files \in 1 .. MaxFiles
  /\ crashed \in {"no", "null", "closure", "event"}

Pending(c, step) ==
  \E t \in Threads : \E i \in 1 .. Len(stack[t]) : stack[t][i] = Frame(step, c, FALSE)

\* Until somebody or the peer ends a connection, conns_ or the closure that
\* connects it holds the object that the callbacks of its channel point to, through
\* TcpServer::Close and all.  That of a connection which is being shut down is held
\* until TcpServer::Close lets go of it: its channel then outlives it, because
\* conn->Close() has left it alone and conns_ was the last owner.
OpenIsAlive ==
  \A c \in channels :
    state[c] = "connected" \/ (state[c] = "disconnecting" /\ ~closed) => Alive(c)

\* conns_ does not collect connections that have ended: whatever the order of
\* handlers, ends and closes, one that is tracked is registered with its loop
\* or about to be erased.
TrackedIsOpen ==
  /\ TypeOK
  /\ crashed = "no" => \A c \in conns : c \in channels \/ Pending(c, "erase")

\* The accept loop goes round without a descriptor to accept with.
Starved == At(Boss, "accept") /\ backlog # {} /\ ~CanAccept

\* The first Close of a server that has been started returns on a user thread,
\* whatever the loops are doing, unless a handler closes the server as well,
\* the process ends or the boss loop starves.
CloseReturns ==
  \/ <>[]Starved
  \/ \A t \in Users :
       closers = {t} /\ calls = 1 ~>
         Idle(t) \/ calls > 1 \/ destroying \/ crashed # "no"

\* Close waits until the boss loop has removed the acceptor, so that nothing is
\* accepted once it has returned; a Close on the boss loop itself may be inside
\* the accept loop, which then goes on.
NoAcceptAfterClose ==
  [][closed /\ Boss \notin closers =>
       \A c \in Conns : state[c] = "none" => state'[c] = "none"]_vars
=============================================================================

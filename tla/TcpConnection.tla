---------------------------- MODULE TcpConnection ----------------------------
(***************************************************************************)
(* One TcpConnection (src/tcp_connection.cc) with its SocketChannel         *)
(* (src/channel/socket_channel.cc), from Start to OnClose: the loop thread, *)
(* user threads, the user's handler that calls back into the connection,    *)
(* the socket and the peer.                                                 *)
(*                                                                         *)
(* Every thread has a stack of what it still has to do, the next thing on   *)
(* top.  The entry "handler" is a call of the user's handler: the handler   *)
(* may call the connection, any number of times, before it returns.         *)
(* EventLoop::Run executes at once on the loop thread and queues otherwise; *)
(* the queue keeps the order of each thread only (TaskQueue).               *)
(***************************************************************************)
EXTENDS Integers, Sequences

CONSTANTS
  Users,      \* user threads
  Loop,       \* the thread of the event loop
  Boss,       \* the thread that called Start
  Calls,      \* the calls users make, out of AllCalls
  Cap,        \* bytes the socket buffers for the peer
  SendSizes,  \* bytes of one Send
  MaxCalls,   \* bound: calls users make
  MaxInbox    \* bound: times the peer sends data

AllCalls == {"Send", "SendOutput", "Close", "Shutdown", "ForceClose", "ForceShutdown"}

ASSUME ThreadsAssumption == Loop \notin Users /\ Boss \notin Users \cup {Loop}
ASSUME CallsAssumption == Calls \subseteq AllCalls
ASSUME CapAssumption == Cap \in Nat \ {0} /\ SendSizes \subseteq Nat \ {0}
ASSUME BoundsAssumption == MaxCalls \in Nat /\ MaxInbox \in Nat

Threads == Users \cup {Loop}
Posters == Users \cup {Boss}

VARIABLES
  \* TcpConnection
  state,      \* state_
  output,     \* output_: bytes accepted and not written, as their numbers
  accepted,   \* number of bytes handleSend or output_ has accepted
  \* SocketChannel and Selector
  events,     \* events_ of the channel
  interest,   \* what the selector waits for
  registered, \* the selector contains the channel
  \* the socket and the peer
  wire,       \* bytes written to the socket
  drained,    \* number of bytes of wire the peer has taken
  inbox,      \* data waiting to be read
  arrived,    \* times the peer has sent data
  peer,       \* "open", "closed" (FIN received) or "reset"
  soerr,      \* the socket has a pending error (SO_ERROR)
  wrClosed,   \* shutdown(SHUT_WR) was called
  crashed,    \* PEDRONET_FATAL ended the process
  \* execution
  stack,      \* stack[t]: what t still has to do, next first
  tasks,      \* tasks[p]: closures p has queued on the event loop
  \* history
  calls,      \* number of calls made by users
  asked,      \* the kinds of calls users have made
  connects,   \* calls of OnConnect
  closes      \* calls of OnClose

connVars == <<state, output, accepted>>
chanVars == <<events, interest, registered>>
sockVars == <<wire, drained, inbox, arrived, peer, soerr, wrClosed, crashed>>
execVars == <<stack, tasks>>
histVars == <<calls, asked, connects, closes>>
vars == <<connVars, chanVars, sockVars, execVars, histVars>>

States == {"connecting", "connected", "disconnecting", "disconnected"}

Ops ==
  {<<op>> : op \in {"handler", "start", "setReadable", "handleClose", "handleError",
                    "handleRead", "handleWrite", "writeEnd", "handleRemove",
                    "ForceClose", "storeDisconnected", "storeDisconnecting",
                    "closeTask", "forceCloseTask", "shutdownTask", "forceShutdownTask"}}
  \cup {<<op, n>> : op \in {"handleSend", "append"}, n \in SendSizes}

TypeOK ==
  /\ state \in States
  /\ output \in Seq(Nat) /\ wire \in Seq(Nat) /\ accepted \in Nat
  /\ events \subseteq {"R", "W"} /\ interest \subseteq {"R", "W"}
  /\ registered \in BOOLEAN
  /\ drained \in 0 .. Len(wire) /\ Len(wire) - drained <= Cap
  /\ inbox \in {0, 1} /\ arrived \in 0 .. MaxInbox
  /\ peer \in {"open", "closed", "reset"}
  /\ {soerr, wrClosed, crashed} \subseteq BOOLEAN
  /\ stack \in [Threads -> Seq(Ops)]
  /\ tasks \in [Posters -> Seq(Ops)]
  /\ calls \in 0 .. MaxCalls /\ asked \subseteq Calls
  /\ connects \in Nat /\ closes \in Nat

Init ==
  /\ state = "connecting" /\ output = <<>> /\ accepted = 0
  /\ events = {} /\ interest = {} /\ registered = FALSE
  /\ wire = <<>> /\ drained = 0 /\ inbox = 0 /\ arrived = 0
  /\ peer = "open" /\ soerr = FALSE /\ wrClosed = FALSE /\ crashed = FALSE
  /\ stack = [t \in Threads |-> <<>>]
  /\ tasks = [p \in Posters |-> IF p = Boss THEN <<<<"start">>>> ELSE <<>>]
  /\ calls = 0 /\ asked = {} /\ connects = 0 /\ closes = 0

-----------------------------------------------------------------------------
(* Stacks.                                                                  *)

Handler == <<"handler">>

\* The process lives and t does the entry op, the top of its stack; then it
\* goes on with ops.
Top(t, op) == ~crashed /\ stack[t] # <<>> /\ Head(stack[t])[1] = op
Then(t, ops) ==
  /\ stack' = [stack EXCEPT ![t] = ops \o Tail(@)]
  /\ UNCHANGED tasks

\* EventLoop::Run(op) as the last thing of the entry on top of t's stack.
ThenRun(t, op) ==
  IF t = Loop THEN Then(t, <<op>>)
  ELSE /\ stack' = [stack EXCEPT ![t] = Tail(@)]
       /\ tasks' = [tasks EXCEPT ![t] = Append(@, op)]

-----------------------------------------------------------------------------
(* The socket and its channel.                                              *)

Room == Cap - (Len(wire) - drained)
CanWrite == ~wrClosed /\ peer # "reset" /\ Room > 0
Least(m, n) == IF m <= n THEN m ELSE n
Bytes(n) == [i \in 1 .. n |-> accepted + i]

\* Mutant of Rest: a partial write is resumed one byte too early.
RestTooLong(bytes) == SubSeq(bytes, IF bytes = <<>> THEN 1 ELSE Least(Room, Len(bytes)), Len(bytes))

\* write(fd, bytes): as much as there is room for.
Written(bytes) == Least(Room, Len(bytes))
Rest(bytes) == SubSeq(bytes, Written(bytes) + 1, Len(bytes))
Write(bytes) == wire' = wire \o SubSeq(bytes, 1, Written(bytes))

\* SetReadable, SetWritable: Update reaches the selector if it has the channel.
SetEvents(new) ==
  /\ events' = new
  /\ interest' = IF registered /\ new # events THEN new ELSE interest
  /\ UNCHANGED registered

\* shutdown(SHUT_WR) fails when the connection is gone, which is FATAL.
CloseWrite ==
  /\ IF peer = "reset" \/ (wrClosed /\ peer = "closed")
     THEN crashed' = TRUE /\ UNCHANGED wrClosed
     ELSE wrClosed' = TRUE /\ UNCHANGED crashed
  /\ UNCHANGED <<wire, drained, inbox, arrived, peer, soerr>>

-----------------------------------------------------------------------------
(* Calls of the user, from a user thread or from the handler.  User threads *)
(* get hold of the connection from OnConnect at the earliest.               *)

Invoke(t, call) ==
  /\ ~crashed
  /\ call \in Calls
  /\ calls < MaxCalls
  /\ IF t = Loop THEN Top(t, "handler")
     ELSE stack[t] = <<>> /\ connects > 0
  /\ calls' = calls + 1
  /\ asked' = asked \cup {call}
  /\ UNCHANGED <<connects, closes>>

\* EventLoop::Run(op) from a call that t has just made.
Run(t, op) ==
  IF t = Loop
  THEN stack' = [stack EXCEPT ![t] = <<op>> \o @] /\ UNCHANGED tasks
  ELSE tasks' = [tasks EXCEPT ![t] = Append(@, op)] /\ UNCHANGED stack

Send(t) ==
  /\ Invoke(t, "Send")
  /\ \E n \in SendSizes : Run(t, <<"handleSend", n>>)
  /\ UNCHANGED <<connVars, chanVars, sockVars>>

\* Send of the output buffer itself, on the loop thread, which the handler has
\* put bytes into: state_ is not looked at.
SendOutput(t) ==
  /\ t = Loop /\ Invoke(t, "SendOutput")
  /\ \E n \in SendSizes : output' = output \o Bytes(n) /\ accepted' = accepted + n
  /\ SetEvents(events \cup {"W"})
  /\ Run(t, <<"handleWrite">>)
  /\ UNCHANGED <<state, sockVars>>

\* Close and Shutdown start with a compare-and-swap from kConnected.
Swap(t, call, new, op) ==
  /\ Invoke(t, call)
  /\ IF state = "connected"
     THEN state' = new /\ Run(t, op)
     ELSE UNCHANGED <<state, execVars>>
  /\ UNCHANGED <<output, accepted, chanVars, sockVars>>

\* Mutant of Shutdown: state_ is stored without looking at it.
ShutdownStores(t) ==
  /\ Invoke(t, "Shutdown")
  /\ state' = "disconnecting"
  /\ Run(t, <<"shutdownTask">>)
  /\ UNCHANGED <<output, accepted, chanVars, sockVars>>

Close(t) == Swap(t, "Close", "disconnected", <<"closeTask">>)
Shutdown(t) == Swap(t, "Shutdown", "disconnecting", <<"shutdownTask">>)

\* ForceClose and ForceShutdown load state_ and store it in a second step.
CallForceClose(t) ==
  /\ Invoke(t, "ForceClose")
  /\ stack' = [stack EXCEPT ![t] = <<<<"ForceClose">>>> \o @]
  /\ UNCHANGED <<tasks, connVars, chanVars, sockVars>>

ForceClose(t) ==
  /\ Top(t, "ForceClose")
  /\ Then(t, IF state = "disconnected" THEN <<>> ELSE <<<<"storeDisconnected">>>>)
  /\ UNCHANGED <<connVars, chanVars, sockVars, histVars>>

ForceShutdown(t) ==
  /\ Invoke(t, "ForceShutdown")
  /\ stack' = IF state = "disconnected" THEN stack
              ELSE [stack EXCEPT ![t] = <<<<"storeDisconnecting">>>> \o @]
  /\ UNCHANGED <<tasks, connVars, chanVars, sockVars>>

Store(t) ==
  /\ \/ /\ Top(t, "storeDisconnected")
        /\ state' = "disconnected"
        /\ ThenRun(t, <<"forceCloseTask">>)
     \/ /\ Top(t, "storeDisconnecting")
        /\ state' = "disconnecting"
        /\ ThenRun(t, <<"forceShutdownTask">>)
  /\ UNCHANGED <<output, accepted, chanVars, sockVars, histVars>>

-----------------------------------------------------------------------------
(* The loop thread.                                                         *)

\* A closure from the event queue.
RunTask(p) ==
  /\ ~crashed
  /\ stack[Loop] = <<>>
  /\ tasks[p] # <<>>
  /\ stack' = [stack EXCEPT ![Loop] = <<Head(tasks[p])>>]
  /\ tasks' = [tasks EXCEPT ![p] = Tail(@)]
  /\ UNCHANGED <<connVars, chanVars, sockVars, histVars>>

\* What Wait reports of the channel.
Readable == "R" \in interest /\ (inbox > 0 \/ peer # "open")
Writable == "W" \in interest /\ (Room > 0 \/ wrClosed \/ peer = "reset")
HangUp == peer = "reset" \/ (wrClosed /\ peer = "closed")

\* SocketChannel::HandleEvents: close, error, read and write, in this order.
HandleEvents ==
  /\ ~crashed
  /\ stack[Loop] = <<>>
  /\ registered
  /\ Readable \/ Writable \/ HangUp \/ soerr
  /\ LET If(cond, op) == IF cond THEN <<<<op>>>> ELSE <<>>
     IN  stack' = [stack EXCEPT ![Loop] =
           If(HangUp /\ ~Readable, "handleClose") \o If(soerr, "handleError")
             \o If(Readable, "handleRead") \o If(Writable, "handleWrite")]
  /\ UNCHANGED <<tasks, connVars, chanVars, sockVars, histVars>>

\* The handler returns.
HandlerReturns ==
  /\ Top(Loop, "handler")
  /\ Then(Loop, <<>>)
  /\ UNCHANGED <<connVars, chanVars, sockVars, histVars>>

\* EventLoop::Add of Start's closure, with the callback that follows.
Start ==
  /\ Top(Loop, "start")
  /\ registered' = TRUE
  /\ IF state = "connecting"
     THEN /\ state' = "connected"
          /\ connects' = connects + 1
          /\ Then(Loop, <<Handler, <<"setReadable">>>>)
     ELSE /\ Then(Loop, <<>>)
          /\ UNCHANGED <<state, connects>>
  /\ UNCHANGED <<output, accepted, events, interest, sockVars,
                 calls, asked, closes>>

\* Mutant of SetReadable: the event is left out.
SetReadableNot ==
  /\ Top(Loop, "setReadable")
  /\ SetEvents(events)
  /\ Then(Loop, <<>>)
  /\ UNCHANGED <<connVars, sockVars, histVars>>

SetReadable ==
  /\ Top(Loop, "setReadable")
  /\ SetEvents(events \cup {"R"})
  /\ Then(Loop, <<>>)
  /\ UNCHANGED <<connVars, sockVars, histVars>>

\* Append reads all there is, 0 bytes at the end of the stream, or fails.
HandleRead ==
  /\ Top(Loop, "handleRead")
  /\ \/ /\ inbox > 0
        /\ inbox' = 0
        /\ Then(Loop, <<Handler>>)
        /\ UNCHANGED soerr
     \/ /\ inbox = 0 /\ soerr
        /\ soerr' = FALSE
        /\ Then(Loop, <<Handler>>)
        /\ UNCHANGED inbox
     \/ /\ inbox = 0 /\ ~soerr
        /\ Then(Loop, IF peer = "open" THEN <<>> ELSE <<<<"handleClose">>>>)
        /\ UNCHANGED <<inbox, soerr>>
  /\ UNCHANGED <<connVars, chanVars, wire, drained, arrived, peer, wrClosed, crashed, histVars>>

\* The error callback: GetError clears SO_ERROR; no error is ForceClose.
HandleError ==
  /\ Top(Loop, "handleError")
  /\ soerr' = FALSE
  /\ Then(Loop, IF soerr THEN <<Handler>> ELSE <<<<"ForceClose">>>>)
  /\ UNCHANGED <<connVars, chanVars, wire, drained, inbox, arrived, peer, wrClosed, crashed, histVars>>

\* A write that fails leaves errno; handleSend and handleWrite ask SO_ERROR,
\* which is then 0, and handleError(kOk) is ForceClose.
WriteFails == soerr' = FALSE

HandleWrite ==
  /\ Top(Loop, "handleWrite")
  /\ \/ /\ "W" \notin events
        /\ Then(Loop, <<>>)
        /\ UNCHANGED <<output, chanVars, wire, soerr>>
     \/ /\ "W" \in events /\ output # <<>> /\ ~CanWrite
        /\ WriteFails
        /\ Then(Loop, <<<<"ForceClose">>>>)
        /\ UNCHANGED <<output, chanVars, wire>>
     \/ /\ "W" \in events /\ (output = <<>> \/ CanWrite)
        /\ Write(output)
        /\ output' = Rest(output)
        /\ IF output' = <<>>
           THEN /\ SetEvents(events \ {"W"})
                /\ Then(Loop, <<Handler, <<"writeEnd">>>>)
           ELSE Then(Loop, <<>>) /\ UNCHANGED chanVars
        /\ UNCHANGED soerr
  /\ UNCHANGED <<state, accepted, drained, inbox, arrived, peer, wrClosed, crashed, histVars>>

\* Mutant of WriteEnd: the write side stays open.
WriteEndOpen ==
  /\ Top(Loop, "writeEnd")
  /\ Then(Loop, <<>>)
  /\ UNCHANGED <<connVars, chanVars, sockVars, histVars>>

\* The end of handleWrite, after OnWriteComplete.
WriteEnd ==
  /\ Top(Loop, "writeEnd")
  /\ IF state = "disconnecting" THEN CloseWrite ELSE UNCHANGED sockVars
  /\ Then(Loop, <<>>)
  /\ UNCHANGED <<connVars, chanVars, histVars>>

HandleSend ==
  /\ Top(Loop, "handleSend")
  /\ LET n == Head(stack[Loop])[2]
         bytes == Bytes(n)
     IN  \/ /\ state # "connected"
            /\ Then(Loop, <<>>)
            /\ UNCHANGED <<output, accepted, chanVars, wire, soerr>>
         \/ /\ state = "connected" /\ output = <<>> /\ ~CanWrite
            /\ WriteFails
            /\ Then(Loop, <<<<"ForceClose">>, <<"append", n>>>>)
            /\ UNCHANGED <<output, accepted, chanVars, wire>>
         \/ /\ state = "connected" /\ output = <<>> /\ CanWrite
            /\ Write(bytes)
            /\ output' = Rest(bytes)
            /\ accepted' = accepted + n
            /\ IF output' = <<>> THEN UNCHANGED chanVars ELSE SetEvents(events \cup {"W"})
            /\ Then(Loop, <<>>)
            /\ UNCHANGED soerr
         \/ /\ state = "connected" /\ output # <<>>
            /\ output' = output \o bytes
            /\ accepted' = accepted + n
            /\ SetEvents(events \cup {"W"})
            /\ Then(Loop, <<>>)
            /\ UNCHANGED <<wire, soerr>>
  /\ UNCHANGED <<state, drained, inbox, arrived, peer, wrClosed, crashed, histVars>>

\* The end of handleSend after a failed write: the buffer is kept all the same.
AppendUnsent ==
  /\ Top(Loop, "append")
  /\ LET n == Head(stack[Loop])[2]
     IN  /\ output' = output \o Bytes(n)
         /\ accepted' = accepted + n
  /\ SetEvents(events \cup {"W"})
  /\ Then(Loop, <<>>)
  /\ UNCHANGED <<state, sockVars, histVars>>

\* Mutant of Remove: the callback runs whether or not the channel was there.
RemoveBlindly ==
  /\ registered' = FALSE
  /\ interest' = {}
  /\ Then(Loop, <<<<"handleRemove">>>>)
  /\ UNCHANGED events

\* EventLoop::Remove on the loop thread: no callback if there is no channel.
Remove ==
  /\ registered' = FALSE
  /\ interest' = {}
  /\ Then(Loop, IF registered THEN <<<<"handleRemove">>>> ELSE <<>>)
  /\ UNCHANGED events

HandleClose ==
  /\ Top(Loop, "handleClose")
  /\ state' = "disconnected"
  /\ IF state = "disconnected" THEN Then(Loop, <<>>) /\ UNCHANGED chanVars ELSE Remove
  /\ UNCHANGED <<output, accepted, sockVars, histVars>>

\* What Close and ForceClose queue.
CloseTask ==
  /\ \/ Top(Loop, "forceCloseTask") /\ Remove
     \/ Top(Loop, "closeTask") /\ output = <<>> /\ Remove
     \/ Top(Loop, "closeTask") /\ output # <<>> /\ Then(Loop, <<>>) /\ UNCHANGED chanVars
  /\ UNCHANGED <<connVars, sockVars, histVars>>

\* Mutant of ShutdownTask: the write interest goes whatever is waiting.
ShutdownTaskMutes ==
  /\ SetEvents(events \ {"W"})
  /\ \/ /\ Top(Loop, "forceShutdownTask") \/ (Top(Loop, "shutdownTask") /\ output = <<>>)
        /\ CloseWrite
     \/ /\ Top(Loop, "shutdownTask") /\ output # <<>>
        /\ UNCHANGED sockVars
  /\ Then(Loop, <<>>)
  /\ UNCHANGED <<connVars, histVars>>

\* What Shutdown and ForceShutdown queue.
ShutdownTask ==
  /\ \/ /\ Top(Loop, "forceShutdownTask") \/ (Top(Loop, "shutdownTask") /\ output = <<>>)
        /\ SetEvents(events \ {"W"})
        /\ CloseWrite
     \/ /\ Top(Loop, "shutdownTask") /\ output # <<>>
        /\ UNCHANGED <<chanVars, sockVars>>
  /\ Then(Loop, <<>>)
  /\ UNCHANGED <<connVars, histVars>>

\* Mutant of HandleRemove: no OnClose while output waits, as in Close.
HandleRemoveIfEmpty ==
  /\ Top(Loop, "handleRemove")
  /\ IF state = "disconnected" /\ output = <<>>
     THEN closes' = closes + 1 /\ Then(Loop, <<Handler>>)
     ELSE Then(Loop, <<>>) /\ UNCHANGED closes
  /\ UNCHANGED <<connVars, chanVars, sockVars, calls, asked, connects>>

\* The last step: OnClose, unless state_ is no longer kDisconnected.
HandleRemove ==
  /\ Top(Loop, "handleRemove")
  /\ IF state = "disconnected"
     THEN closes' = closes + 1 /\ Then(Loop, <<Handler>>)
     ELSE Then(Loop, <<>>) /\ UNCHANGED closes
  /\ UNCHANGED <<connVars, chanVars, sockVars, calls, asked, connects>>

-----------------------------------------------------------------------------
(* The peer.                                                                *)

PeerSends ==
  /\ peer = "open" /\ inbox = 0 /\ arrived < MaxInbox
  /\ inbox' = 1 /\ arrived' = arrived + 1
  /\ UNCHANGED <<wire, drained, peer, soerr, wrClosed, crashed>>

PeerDrains ==
  /\ peer # "reset" /\ drained < Len(wire)
  /\ drained' = drained + 1
  /\ UNCHANGED <<wire, inbox, arrived, peer, soerr, wrClosed, crashed>>

PeerCloses ==
  /\ peer = "open"
  /\ peer' = "closed"
  /\ UNCHANGED <<wire, drained, inbox, arrived, soerr, wrClosed, crashed>>

PeerResets ==
  /\ peer # "reset"
  /\ peer' = "reset" /\ soerr' = TRUE
  /\ UNCHANGED <<wire, drained, inbox, arrived, wrClosed, crashed>>

Peer ==
  /\ ~crashed
  /\ PeerSends \/ PeerDrains \/ PeerCloses \/ PeerResets
  /\ UNCHANGED <<connVars, chanVars, execVars, histVars>>

-----------------------------------------------------------------------------

Call(t) ==
  \/ Send(t) \/ SendOutput(t) \/ Close(t) \/ Shutdown(t)
  \/ CallForceClose(t) \/ ForceShutdown(t)

LoopStep ==
  \/ ForceClose(Loop) \/ Store(Loop)
  \/ \E p \in Posters : RunTask(p)
  \/ HandleEvents \/ HandlerReturns \/ Start \/ SetReadable
  \/ HandleRead \/ HandleError \/ HandleWrite \/ WriteEnd
  \/ HandleSend \/ AppendUnsent
  \/ HandleClose \/ CloseTask \/ ShutdownTask \/ HandleRemove

UserStep(t) == ForceClose(t) \/ Store(t)

Next ==
  \/ LoopStep
  \/ \E t \in Threads : Call(t)
  \/ \E t \in Users : UserStep(t)
  \/ Peer

\* The loop thread runs (and gets to every closure and to the channel), a
\* thread inside a call goes on, handlers return; the peer takes what is sent.
Fairness ==
  /\ WF_vars(LoopStep)
  /\ \A p \in Posters : SF_vars(RunTask(p))
  /\ SF_vars(HandleEvents)
  /\ \A t \in Users : WF_vars(UserStep(t))
  /\ WF_vars(Peer /\ drained' # drained)

Spec == Init /\ [][Next]_vars /\ Fairness

-----------------------------------------------------------------------------

Idle == stack[Loop] = <<>>

\* What was written and what is waiting are together exactly the bytes that
\* handleSend and output_ accepted, in order: no partial write, retry, failure or shutdown
\* loses, repeats or reorders a byte of the stream.
StreamInOrder == wire \o output = [i \in 1 .. accepted |-> i]

\* Between two turns of the loop, waiting output has the write interest that
\* will send it, and the write interest is never left on with nothing to send;
\* the selector waits for exactly what the channel believes it waits for.
InterestIsRight ==
  /\ TypeOK
  /\ registered => interest = events
  /\ Idle /\ registered /\ ~wrClosed /\ ~crashed => (output # <<>> <=> "W" \in interest)

\* OnConnect comes first and once, OnClose at most once, whoever closes.
ConnectThenClose == closes <= connects /\ connects <= 1

\* kDisconnected is final, unless ForceShutdown has been called, which stores
\* kDisconnecting over whatever another thread stored since its load.
DisconnectedIsFinal ==
  [][state = "disconnected" /\ "ForceShutdown" \notin asked => state' = "disconnected"]_vars

\* Shutdown takes effect: the write side is shut or the connection is gone.
ShutdownCompletes ==
  state = "disconnecting" ~> wrClosed \/ state = "disconnected" \/ crashed

\* Close may leave a connection with waiting output behind, and ForceShutdown
\* may overwrite kDisconnected: both are left out of the next two properties.
Spoiled == asked \cap {"Close", "ForceShutdown"} # {} \/ crashed

\* When the peer has closed or reset, OnClose is eventually called.
PeerCloseIsNoticed == peer # "open" /\ connects > 0 ~> closes > 0 \/ Spoiled

\* Once the connection is kDisconnected, OnClose is eventually called.
DisconnectedIsReported == state = "disconnected" /\ connects > 0 ~> closes > 0 \/ Spoiled

\* The connection ends only because a user or the peer ended it.
ClosedOnlyIfAsked ==
  state = "disconnected" => peer # "open" \/ asked \cap {"Close", "ForceClose"} # {}
=============================================================================

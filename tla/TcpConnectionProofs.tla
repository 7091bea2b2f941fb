------------------------- MODULE TcpConnectionProofs -------------------------
(***************************************************************************)
(* Proofs about TcpConnection for any number of user threads, any size of   *)
(* the socket buffer and of what is sent, and any number of calls.          *)
(***************************************************************************)
EXTENDS TcpConnection, SequenceTheorems, TLAPS

\* What may wait on a stack below its top, and in a queue or inside a call of
\* a user thread.
Later == Ops \ {<<"start">>, <<"handleRemove">>}
UserOps == {<<"ForceClose">>, <<"storeDisconnected">>, <<"storeDisconnecting">>}
TaskOps ==
  {<<"closeTask">>, <<"forceCloseTask">>, <<"shutdownTask">>, <<"forceShutdownTask">>}
    \cup {<<"handleSend", n>> : n \in SendSizes}

OnTop(op) == stack[Loop] # <<>> /\ Head(stack[Loop]) = <<op>>

\* The closure of Start runs once and first; the callback of Remove is only
\* ever the next thing to do.
StackInv ==
  /\ stack \in [Threads -> Seq(Ops)]
  /\ tasks \in [Posters -> Seq(Ops)]
  /\ \A u \in Users : stack[u] \in Seq(UserOps) /\ tasks[u] \in Seq(TaskOps)
  /\ stack[Loop] # <<>> => Tail(stack[Loop]) \in Seq(Later)
  /\ tasks[Boss] # <<>> => tasks[Boss] = <<<<"start">>>>

\* Before Start's closure nobody has the connection, afterwards Start does not
\* come back.
Fresh ==
  /\ state = "connecting" /\ connects = 0 /\ closes = 0
  /\ ~registered /\ events = {} /\ interest = {} /\ output = <<>>
  /\ \A u \in Users : stack[u] = <<>> /\ tasks[u] = <<>>
  /\ \/ tasks[Boss] # <<>> /\ stack[Loop] = <<>>
     \/ tasks[Boss] = <<>> /\ stack[Loop] = <<<<"start">>>>

Started ==
  /\ state # "connecting" /\ connects = 1
  /\ tasks[Boss] = <<>>
  /\ ~OnTop("start")

\* The channel is registered once, and whoever takes it out of the selector
\* leaves one callback behind.
RemoveInv ==
  /\ registered \in BOOLEAN /\ closes \in {0, 1}
  /\ registered \/ OnTop("handleRemove") => closes = 0
  /\ ~(registered /\ OnTop("handleRemove"))

LifeInv == StackInv /\ (Fresh \/ Started) /\ RemoveInv

-----------------------------------------------------------------------------
(* Stacks.                                                                  *)

LEMMA OpKinds ==
  ASSUME NEW op \in Ops
  PROVE  /\ op[1] = "start" => op = <<"start">>
         /\ op[1] = "handleRemove" => op = <<"handleRemove">>
         /\ op[1] = "storeDisconnecting" => op = <<"storeDisconnecting">>
         /\ op[1] \in {"handleSend", "append"} => op[2] \in SendSizes /\ op = <<op[1], op[2]>>
BY DEF Ops

LEMMA OpSets == /\ TaskOps \subseteq Later /\ UserOps \subseteq Later /\ Later \subseteq Ops
                /\ Handler \in Later
BY DEF TaskOps, UserOps, Later, Ops, Handler

\* Something done, something else put in its place.
LEMMA Replaced ==
  ASSUME NEW S, NEW T, S \subseteq T, NEW s \in Seq(T), s # <<>>, Tail(s) \in Seq(S),
         NEW ops \in Seq(S)
  PROVE  /\ ops \o Tail(s) \in Seq(S)
         /\ ops \o Tail(s) \in Seq(T)
         /\ ops \o Tail(s) # <<>> =>
              Head(ops \o Tail(s)) \in S /\ Tail(ops \o Tail(s)) \in Seq(S)
<1>1. ops \o Tail(s) \in Seq(S)
  BY ConcatProperties
<1>2. ops \o Tail(s) \in Seq(T)
  BY <1>1, SeqMonotonic
<1>3. ASSUME ops \o Tail(s) # <<>>
      PROVE  Head(ops \o Tail(s)) \in S /\ Tail(ops \o Tail(s)) \in Seq(S)
  BY <1>1, <1>3, HeadTailProperties
<1> QED BY <1>1, <1>2, <1>3

\* Something put on top.
LEMMA Pushed ==
  ASSUME NEW S, NEW s \in Seq(S), NEW e
  PROVE  /\ <<e>> \o s # <<>>
         /\ Head(<<e>> \o s) = e
         /\ Tail(<<e>> \o s) = s
         /\ e \in S => <<e>> \o s \in Seq(S)
<1>1. s \in Seq(S \cup {e}) /\ <<e>> \in Seq(S \cup {e}) /\ Len(<<e>>) = 1
  BY SeqMonotonic
<1>2. /\ <<e>> \o s \in Seq(S \cup {e})
      /\ Len(<<e>> \o s) = 1 + Len(s)
      /\ \A i \in 1 .. 1 + Len(s) : (<<e>> \o s)[i] = IF i <= 1 THEN <<e>>[i] ELSE s[i - 1]
  BY <1>1, ConcatProperties
<1>3. Len(s) \in Nat
  BY LenProperties
<1>4. <<e>> \o s # <<>>
  BY <1>2, <1>3, EmptySeq
<1>5. Head(<<e>> \o s) = e
  BY <1>2, <1>3, <1>4
<1>6. /\ Tail(<<e>> \o s) \in Seq(S \cup {e}) /\ Len(Tail(<<e>> \o s)) = Len(s)
      /\ \A i \in 1 .. Len(s) : Tail(<<e>> \o s)[i] = (<<e>> \o s)[i + 1]
  BY <1>2, <1>3, <1>4, HeadTailProperties
<1>7. \A i \in 1 .. Len(s) : Tail(<<e>> \o s)[i] = s[i]
  BY <1>2, <1>3, <1>6
<1>8. Tail(<<e>> \o s) = s
  BY <1>1, <1>6, <1>7, SeqEqual
<1>9. e \in S => <<e>> \o s \in Seq(S)
  <2> SUFFICES ASSUME e \in S PROVE <<e>> \o s \in Seq(S)
    OBVIOUS
  <2>1. S \cup {e} = S
    OBVIOUS
  <2> QED BY <1>2, <2>1
<1> QED BY <1>4, <1>5, <1>8, <1>9

LEMMA LaterOps ==
  \A op \in {"handler", "setReadable", "handleClose", "handleError", "handleRead",
              "handleWrite", "writeEnd", "ForceClose", "storeDisconnected",
              "storeDisconnecting", "closeTask", "forceCloseTask", "shutdownTask",
              "forceShutdownTask"} :
    <<op>> \in Later /\ <<<<op>>>> \in Seq(Later)
<1>1. \A op \in {"handler", "setReadable", "handleClose", "handleError", "handleRead",
              "handleWrite", "writeEnd", "ForceClose", "storeDisconnected",
              "storeDisconnecting", "closeTask", "forceCloseTask", "shutdownTask",
              "forceShutdownTask"} : <<op>> \in Later
  BY DEF Later, Ops
<1> QED BY <1>1

-----------------------------------------------------------------------------
(* LifeInv, step by step.                                                   *)

LEMMA InitLife == Init => LifeInv
<1> SUFFICES ASSUME Init PROVE LifeInv
  OBVIOUS
<1>1. <<"start">> \in Ops
  BY DEF Ops
<1>2. Loop \in Threads /\ Boss \in Posters /\ Boss \notin Users /\ Users \subseteq Threads \cap Posters
  BY ThreadsAssumption DEF Threads, Posters
<1>3. /\ stack \in [Threads -> Seq(Ops)] /\ tasks \in [Posters -> Seq(Ops)]
      /\ tasks[Boss] = <<<<"start">>>> /\ stack[Loop] = <<>>
      /\ \A u \in Users : stack[u] = <<>> /\ tasks[u] = <<>>
  BY <1>1, <1>2 DEF Init
<1>4. StackInv
  <2>1. <<>> \in Seq(UserOps) /\ <<>> \in Seq(TaskOps)
    OBVIOUS
  <2> QED BY <1>3, <2>1, Zenon DEF StackInv
<1>5. Fresh
  BY <1>3 DEF Init, Fresh
<1>6. RemoveInv
  BY <1>3 DEF Init, RemoveInv, OnTop
<1> QED BY <1>4, <1>5, <1>6 DEF LifeInv

LEMMA ThreadSets ==
  /\ Loop \in Threads /\ Boss \in Posters /\ Boss \notin Users
  /\ Users \subseteq Threads /\ Users \subseteq Posters /\ Loop \notin Users
BY ThreadsAssumption DEF Threads, Posters

\* The loop thread does what is on top of its stack.
LEMMA LoopThen ==
  ASSUME StackInv, stack[Loop] # <<>>, NEW ops \in Seq(Later), Then(Loop, ops)
  PROVE  StackInv' /\ ~OnTop("start")' /\ ~OnTop("handleRemove")'
<1>1. stack'[Loop] = ops \o Tail(stack[Loop])
  BY ThreadSets DEF Then, StackInv
<1>2. Tail(stack[Loop]) \in Seq(Later) /\ stack[Loop] \in Seq(Ops)
  BY ThreadSets DEF StackInv
<1>3. /\ stack'[Loop] \in Seq(Ops)
      /\ stack'[Loop] # <<>> => Head(stack'[Loop]) \in Later /\ Tail(stack'[Loop]) \in Seq(Later)
  <2> DEFINE s == stack[Loop]
             next == stack'[Loop]
  <2>1. next = ops \o Tail(s) /\ s \in Seq(Ops) /\ s # <<>> /\ Tail(s) \in Seq(Later)
    BY <1>1, <1>2
  <2>2. Later \subseteq Ops
    BY OpSets
  <2> HIDE DEF s, next
  <2>3. /\ next \in Seq(Ops)
        /\ next # <<>> => Head(next) \in Later /\ Tail(next) \in Seq(Later)
    BY <2>1, <2>2, Replaced
  <2> QED BY <2>3 DEF next
<1>4. <<"start">> \notin Later /\ <<"handleRemove">> \notin Later
  BY DEF Later
<1>5. stack' \in [Threads -> Seq(Ops)] /\ \A u \in Users : stack'[u] = stack[u]
  BY <1>1, <1>3, ThreadSets DEF Then, StackInv
<1>6. StackInv'
  BY <1>3, <1>5, ThreadSets DEF StackInv, Then
<1>7. ~OnTop("start")' /\ ~OnTop("handleRemove")'
  BY <1>3, <1>4 DEF OnTop
<1> QED BY <1>6, <1>7

\* Remove leaves its callback on top.
LEMMA LoopThenRemove ==
  ASSUME StackInv, stack[Loop] # <<>>, Then(Loop, <<<<"handleRemove">>>>)
  PROVE  StackInv' /\ ~OnTop("start")'
<1>1. stack'[Loop] = <<<<"handleRemove">>>> \o Tail(stack[Loop])
  BY ThreadSets DEF Then, StackInv
<1>2. Tail(stack[Loop]) \in Seq(Later) /\ stack[Loop] \in Seq(Ops)
  BY ThreadSets DEF StackInv
<1>3. Tail(stack[Loop]) \in Seq(Ops) /\ <<"handleRemove">> \in Ops
  BY <1>2, OpSets, SeqMonotonic DEF Ops
<1>4. /\ stack'[Loop] \in Seq(Ops) /\ stack'[Loop] # <<>>
      /\ Head(stack'[Loop]) = <<"handleRemove">>
      /\ Tail(stack'[Loop]) = Tail(stack[Loop])
  BY <1>1, <1>3, Pushed
<1>5. stack' \in [Threads -> Seq(Ops)] /\ \A u \in Users : stack'[u] = stack[u]
  BY <1>4, ThreadSets DEF Then, StackInv
<1>6. StackInv'
  BY <1>2, <1>4, <1>5, ThreadSets DEF StackInv, Then
<1>7. ~OnTop("start")'
  BY <1>4 DEF OnTop
<1> QED BY <1>6, <1>7

\* Nothing but Start is on the stack of a connection that has not started.
LEMMA OnlyStart ==
  ASSUME LifeInv, NEW op, op # "start", Top(Loop, op)
  PROVE  Started /\ StackInv /\ RemoveInv /\ stack[Loop] # <<>> /\ Head(stack[Loop]) \in Ops
<1>1. stack[Loop] # <<>> /\ Head(stack[Loop])[1] = op
  BY DEF Top
<1>2. ~Fresh
  BY <1>1 DEF Fresh
<1>3. Head(stack[Loop]) \in Ops
  <2>1. stack[Loop] \in Seq(Ops)
    BY ThreadSets DEF LifeInv, StackInv
  <2> QED BY <1>1, <2>1, HeadTailProperties
<1> QED BY <1>1, <1>2, <1>3 DEF LifeInv

\* A step that neither registers nor removes the channel.
LEMMA QuietLife ==
  ASSUME LifeInv, NEW op, op # "start", Top(Loop, op), NEW ops \in Seq(Later), Then(Loop, ops),
         state' # "connecting", UNCHANGED <<registered, connects, closes>>
  PROVE  LifeInv'
<1>1. Started /\ StackInv /\ RemoveInv /\ stack[Loop] # <<>>
  BY OnlyStart
<1>2. StackInv' /\ ~OnTop("start")' /\ ~OnTop("handleRemove")'
  BY <1>1, LoopThen
<1>3. Started'
  BY <1>1, <1>2 DEF Started, Then
<1>4. RemoveInv'
  BY <1>1, <1>2 DEF RemoveInv
<1> QED BY <1>2, <1>3, <1>4 DEF LifeInv

LEMMA RemoveLife ==
  ASSUME LifeInv, NEW op, op # "start", op # "handleRemove", Top(Loop, op), Remove,
         state' # "connecting", UNCHANGED <<connects, closes>>
  PROVE  LifeInv'
<1>1. Started /\ StackInv /\ RemoveInv /\ stack[Loop] # <<>>
  BY OnlyStart
<1>2. CASE registered
  <2>1. StackInv' /\ ~OnTop("start")'
    BY <1>1, <1>2, LoopThenRemove DEF Remove
  <2>2. Started'
    BY <1>1, <1>2, <2>1 DEF Started, Remove, Then
  <2>3. RemoveInv'
    BY <1>1, <1>2 DEF RemoveInv, Remove
  <2> QED BY <2>1, <2>2, <2>3 DEF LifeInv
<1>3. CASE ~registered
  <2>0. <<>> \in Seq(Later)
    OBVIOUS
  <2>1. Then(Loop, <<>>)
    BY <1>3, Zenon DEF Remove
  <2>3. registered' = registered
    BY <1>1, <1>3 DEF Remove, RemoveInv
  <2>2. state' # "connecting" /\ UNCHANGED <<registered, connects, closes>>
    BY <2>3
  <2> QED BY <2>0, <2>1, <2>2, QuietLife
<1> QED BY <1>2, <1>3

\* What HandleEvents finds to do.
LEMMA EventOps ==
  ASSUME NEW a \in Seq(Later), NEW b \in Seq(Later), NEW c \in Seq(Later), NEW d \in Seq(Later)
  PROVE  a \o b \o c \o d \in Seq(Later)
BY ConcatProperties

LEMMA LoopLife == ASSUME LifeInv, LoopStep PROVE LifeInv'
<1> USE DEF LifeInv
<1>0. <<>> \in Seq(Later) /\ Handler = <<"handler">>
  BY DEF Handler
<1>1. CASE ForceClose(Loop)
  <2>1. Top(Loop, "ForceClose") /\ UNCHANGED <<state, registered, connects, closes>>
    BY <1>1 DEF ForceClose, connVars, chanVars, histVars
  <2>2. PICK ops \in Seq(Later) : Then(Loop, ops)
    BY <1>0, <1>1, LaterOps DEF ForceClose
  <2>3. state' # "connecting"
    BY <2>1, OnlyStart DEF Started
  <2> QED BY <2>1, <2>2, <2>3, QuietLife
<1>2. CASE Store(Loop)
  <2>1. /\ Top(Loop, "storeDisconnected") \/ Top(Loop, "storeDisconnecting")
        /\ state' # "connecting" /\ UNCHANGED <<registered, connects, closes>>
    BY <1>2 DEF Store, chanVars, histVars
  <2>2. PICK ops \in Seq(Later) : Then(Loop, ops)
    BY <1>2, LaterOps DEF Store, ThenRun
  <2> QED BY <2>1, <2>2, QuietLife
<1>3. ASSUME NEW p \in Posters, RunTask(p) PROVE LifeInv'
  <2>1. /\ stack[Loop] = <<>> /\ tasks[p] # <<>>
        /\ stack' = [stack EXCEPT ![Loop] = <<Head(tasks[p])>>]
        /\ tasks' = [tasks EXCEPT ![p] = Tail(@)]
        /\ UNCHANGED <<state, output, events, interest, registered, connects, closes>>
    BY <1>3 DEF RunTask, connVars, chanVars, histVars
  <2>2. tasks[p] \in Seq(Ops) /\ Head(tasks[p]) \in Ops /\ Tail(tasks[p]) \in Seq(Ops)
    BY <2>1, HeadTailProperties DEF StackInv
  <2>3. /\ stack'[Loop] = <<Head(tasks[p])>> /\ stack'[Loop] # <<>>
        /\ Head(stack'[Loop]) = Head(tasks[p]) /\ Tail(stack'[Loop]) = <<>>
        /\ stack' \in [Threads -> Seq(Ops)] /\ tasks' \in [Posters -> Seq(Ops)]
        /\ \A u \in Users : stack'[u] = stack[u]
        /\ \A q \in Posters : tasks'[q] = IF q = p THEN Tail(tasks[p]) ELSE tasks[q]
    BY <2>1, <2>2, ThreadSets DEF StackInv
  <2>4. ASSUME p = Boss PROVE LifeInv'
    <3>1. tasks[Boss] = <<<<"start">>>> /\ Fresh
      BY <2>1, <2>4 DEF StackInv, Started
    <3>2. Head(tasks[p]) = <<"start">> /\ Tail(tasks[p]) = <<>>
      BY <2>4, <3>1
    <3>3. StackInv'
      BY <2>3, <2>4, <3>2, ThreadSets, Zenon, EmptySeq DEF StackInv
    <3>4. Fresh'
      BY <2>1, <2>3, <2>4, <3>1, <3>2, ThreadSets DEF Fresh
    <3>5. RemoveInv'
      BY <2>1, <2>3, <3>2 DEF RemoveInv, OnTop
    <3> QED BY <3>3, <3>4, <3>5
  <2>5. ASSUME p \in Users PROVE LifeInv'
    <3>1. tasks[p] \in Seq(TaskOps) /\ Head(tasks[p]) \in TaskOps /\ Tail(tasks[p]) \in Seq(TaskOps)
      BY <2>1, <2>5, HeadTailProperties DEF StackInv
    <3>2. Started
      BY <2>1, <2>5 DEF Fresh
    <3>3. Head(tasks[p]) \notin {<<"start">>, <<"handleRemove">>}
      BY <3>1, OpSets DEF Later
    <3>4. StackInv'
      BY <2>3, <2>5, <3>1, ThreadSets, Zenon, EmptySeq DEF StackInv
    <3>5. ~OnTop("start")' /\ ~OnTop("handleRemove")'
      BY <2>3, <3>3 DEF OnTop
    <3>6. Started'
      BY <2>1, <2>3, <2>5, <3>2, <3>5, ThreadSets DEF Started
    <3>7. RemoveInv'
      BY <2>1, <3>5 DEF RemoveInv
    <3> QED BY <3>4, <3>6, <3>7
  <2> QED BY <2>4, <2>5 DEF Posters
<1>4. CASE HandleEvents
  <2>1. /\ stack[Loop] = <<>> /\ registered
        /\ UNCHANGED <<tasks, state, registered, connects, closes>>
    BY <1>4 DEF HandleEvents, connVars, chanVars, histVars
  <2>2. PICK ops \in Seq(Later) : stack' = [stack EXCEPT ![Loop] = ops]
    <3> DEFINE If(cond, op) == IF cond THEN <<<<op>>>> ELSE <<>>
    <3>1. /\ If(HangUp /\ ~Readable, "handleClose") \in Seq(Later)
          /\ If(soerr, "handleError") \in Seq(Later)
          /\ If(Readable, "handleRead") \in Seq(Later)
          /\ If(Writable, "handleWrite") \in Seq(Later)
      BY <1>0, LaterOps
    <3>2. If(HangUp /\ ~Readable, "handleClose") \o If(soerr, "handleError")
            \o If(Readable, "handleRead") \o If(Writable, "handleWrite") \in Seq(Later)
      <4> HIDE DEF If
      <4> QED BY <3>1, EventOps
    <3> QED BY <1>4, <3>2 DEF HandleEvents
  <2>3. ops \in Seq(Ops)
    BY OpSets, SeqMonotonic
  <2>4. /\ stack'[Loop] = ops /\ stack' \in [Threads -> Seq(Ops)]
        /\ \A u \in Users : stack'[u] = stack[u]
    BY <2>2, <2>3, ThreadSets DEF StackInv
  <2>5. ops # <<>> => Head(ops) \in Later /\ Tail(ops) \in Seq(Later)
    BY HeadTailProperties
  <2>6. StackInv'
    BY <2>1, <2>4, <2>5 DEF StackInv
  <2>7. ~OnTop("start")' /\ ~OnTop("handleRemove")'
    BY <2>4, <2>5 DEF OnTop, Later
  <2>8. Started'
    BY <2>1, <2>7 DEF Fresh, Started
  <2>9. RemoveInv'
    BY <2>1, <2>7 DEF RemoveInv
  <2> QED BY <2>6, <2>8, <2>9
<1>5. CASE HandlerReturns
  <2>1. /\ Top(Loop, "handler") /\ Then(Loop, <<>>)
        /\ UNCHANGED <<state, registered, connects, closes>>
    BY <1>5 DEF HandlerReturns, connVars, chanVars, histVars
  <2>2. state' # "connecting"
    BY <2>1, OnlyStart DEF Started
  <2> QED BY <1>0, <2>1, <2>2, QuietLife
<1>6. CASE Start
  <2>1. /\ stack[Loop] # <<>> /\ Head(stack[Loop])[1] = "start"
        /\ stack[Loop] \in Seq(Ops)
        /\ registered' = TRUE /\ UNCHANGED <<tasks, events, interest, output, closes>>
    BY <1>6, ThreadSets DEF Start, Top, StackInv, Then
  <2>2. Head(stack[Loop]) = <<"start">>
    BY <2>1, OpKinds, HeadTailProperties
  <2>3. Fresh
    BY <2>1, <2>2 DEF Started, OnTop
  <2>4. /\ state' = "connected" /\ connects' = connects + 1
        /\ Then(Loop, <<Handler, <<"setReadable">>>>)
    BY <1>6, <2>3 DEF Start, Fresh
  <2>5. <<Handler, <<"setReadable">>>> \in Seq(Later)
    BY <1>0, LaterOps
  <2>6. StackInv' /\ ~OnTop("start")' /\ ~OnTop("handleRemove")'
    BY <2>1, <2>4, <2>5, LoopThen
  <2>7. Started'
    BY <2>1, <2>3, <2>4, <2>6 DEF Fresh, Started
  <2>8. RemoveInv'
    BY <2>1, <2>3, <2>6 DEF Fresh, RemoveInv
  <2> QED BY <2>6, <2>7, <2>8
<1>7. CASE SetReadable
  <2>1. /\ Top(Loop, "setReadable") /\ Then(Loop, <<>>)
        /\ UNCHANGED <<state, registered, connects, closes>>
    BY <1>7 DEF SetReadable, SetEvents, connVars, histVars
  <2>2. state' # "connecting"
    BY <2>1, OnlyStart DEF Started
  <2> QED BY <1>0, <2>1, <2>2, QuietLife
<1>8. CASE HandleRead
  <2>1. /\ Top(Loop, "handleRead")
        /\ UNCHANGED <<state, registered, connects, closes>>
    BY <1>8 DEF HandleRead, connVars, chanVars, histVars
  <2>2. PICK ops \in Seq(Later) : Then(Loop, ops)
    BY <1>0, <1>8, LaterOps DEF HandleRead
  <2>3. state' # "connecting"
    BY <2>1, OnlyStart DEF Started
  <2> QED BY <2>1, <2>2, <2>3, QuietLife
<1>9. CASE HandleError
  <2>1. /\ Top(Loop, "handleError")
        /\ UNCHANGED <<state, registered, connects, closes>>
    BY <1>9 DEF HandleError, connVars, chanVars, histVars
  <2>2. PICK ops \in Seq(Later) : Then(Loop, ops)
    BY <1>0, <1>9, LaterOps DEF HandleError
  <2>3. state' # "connecting"
    BY <2>1, OnlyStart DEF Started
  <2> QED BY <2>1, <2>2, <2>3, QuietLife
<1>10. CASE HandleWrite
  <2>1. /\ Top(Loop, "handleWrite")
        /\ UNCHANGED <<state, registered, connects, closes>>
    BY <1>10 DEF HandleWrite, SetEvents, chanVars, histVars
  <2>2. <<Handler, <<"writeEnd">>>> \in Seq(Later)
    BY <1>0, LaterOps
  <2>3. PICK ops \in Seq(Later) : Then(Loop, ops)
    BY <1>0, <1>10, <2>2, LaterOps DEF HandleWrite
  <2>4. state' # "connecting"
    BY <2>1, OnlyStart DEF Started
  <2> QED BY <2>1, <2>3, <2>4, QuietLife
<1>11. CASE WriteEnd
  <2>1. /\ Top(Loop, "writeEnd") /\ Then(Loop, <<>>)
        /\ UNCHANGED <<state, registered, connects, closes>>
    BY <1>11 DEF WriteEnd, connVars, chanVars, histVars
  <2>2. state' # "connecting"
    BY <2>1, OnlyStart DEF Started
  <2> QED BY <1>0, <2>1, <2>2, QuietLife
<1>12. CASE HandleSend
  <2>1. /\ Top(Loop, "handleSend")
        /\ UNCHANGED <<state, registered, connects, closes>>
    BY <1>12 DEF HandleSend, SetEvents, chanVars, histVars
  <2>2. Head(stack[Loop])[2] \in SendSizes
    BY <2>1, OnlyStart, OpKinds DEF Top
  <2>3. <<<<"ForceClose">>, <<"append", Head(stack[Loop])[2]>>>> \in Seq(Later)
    <3>1. <<"append", Head(stack[Loop])[2]>> \in Later
      BY <2>2 DEF Later, Ops
    <3> QED BY <3>1, LaterOps
  <2>4. PICK ops \in Seq(Later) : Then(Loop, ops)
    BY <1>0, <1>12, <2>3 DEF HandleSend
  <2>5. state' # "connecting"
    BY <2>1, OnlyStart DEF Started
  <2> QED BY <2>1, <2>4, <2>5, QuietLife
<1>13. CASE AppendUnsent
  <2>1. /\ Top(Loop, "append") /\ Then(Loop, <<>>)
        /\ UNCHANGED <<state, registered, connects, closes>>
    BY <1>13 DEF AppendUnsent, SetEvents, histVars
  <2>2. state' # "connecting"
    BY <2>1, OnlyStart DEF Started
  <2> QED BY <1>0, <2>1, <2>2, QuietLife
<1>14. CASE HandleClose
  <2>1. /\ Top(Loop, "handleClose") /\ state' # "connecting" /\ UNCHANGED <<connects, closes>>
        /\ (Then(Loop, <<>>) /\ UNCHANGED registered) \/ Remove
    BY <1>14 DEF HandleClose, chanVars, histVars
  <2> QED BY <1>0, <2>1, QuietLife, RemoveLife
<1>15. CASE CloseTask
  <2>1. /\ Top(Loop, "forceCloseTask") \/ Top(Loop, "closeTask")
        /\ UNCHANGED <<state, connects, closes>>
        /\ (Then(Loop, <<>>) /\ UNCHANGED registered) \/ Remove
    BY <1>15 DEF CloseTask, connVars, chanVars, histVars
  <2>2. state' # "connecting"
    BY <2>1, OnlyStart DEF Started
  <2> QED BY <1>0, <2>1, <2>2, QuietLife, RemoveLife
<1>16. CASE ShutdownTask
  <2>1. /\ Top(Loop, "forceShutdownTask") \/ Top(Loop, "shutdownTask")
        /\ Then(Loop, <<>>)
        /\ UNCHANGED <<state, registered, connects, closes>>
    BY <1>16 DEF ShutdownTask, SetEvents, connVars, chanVars, histVars
  <2>2. state' # "connecting"
    BY <2>1, OnlyStart DEF Started
  <2> QED BY <1>0, <2>1, <2>2, QuietLife
<1>17. CASE HandleRemove
  <2>1. /\ Top(Loop, "handleRemove")
        /\ UNCHANGED <<state, registered, connects>>
        /\ closes' \in {closes, closes + 1}
    BY <1>17 DEF HandleRemove, connVars, chanVars
  <2>2. PICK ops \in Seq(Later) : Then(Loop, ops)
    BY <1>0, <1>17, LaterOps DEF HandleRemove
  <2>3. Started /\ stack[Loop] # <<>> /\ Head(stack[Loop]) \in Ops
    BY <2>1, OnlyStart
  <2>4. OnTop("handleRemove")
    BY <2>1, <2>3, OpKinds DEF OnTop, Top
  <2>5. closes = 0 /\ ~registered
    BY <2>4 DEF RemoveInv
  <2>6. StackInv' /\ ~OnTop("start")' /\ ~OnTop("handleRemove")'
    BY <2>2, <2>3, LoopThen
  <2>7. Started'
    BY <2>1, <2>2, <2>3, <2>6 DEF Started, Then
  <2>8. RemoveInv'
    BY <2>1, <2>5, <2>6 DEF RemoveInv
  <2> QED BY <2>6, <2>7, <2>8
<1> QED BY <1>1, <1>2, <1>3, <1>4, <1>5, <1>6, <1>7, <1>8, <1>9, <1>10, <1>11, <1>12,
           <1>13, <1>14, <1>15, <1>16, <1>17 DEF LoopStep

\* A sequence is what its first element and its rest are.
LEMMA WholeSeq ==
  ASSUME NEW S, NEW T, NEW s \in Seq(T), s # <<>>, Head(s) \in S, Tail(s) \in Seq(S)
  PROVE  s \in Seq(S)
<1>1. /\ Len(s) \in Nat \ {0} /\ s \in [1 .. Len(s) -> T]
      /\ Len(Tail(s)) = Len(s) - 1 /\ \A i \in 1 .. Len(Tail(s)) : Tail(s)[i] = s[i + 1]
  BY EmptySeq, LenProperties, HeadTailProperties
<1>2. \A i \in 1 .. Len(s) : s[i] \in S
  <2>1. s[1] \in S
    BY <1>1
  <2>2. ASSUME NEW i \in 2 .. Len(s) PROVE s[i] \in S
    <3>1. i - 1 \in 1 .. Len(Tail(s)) /\ s[i] = Tail(s)[i - 1]
      BY <1>1
    <3>2. Tail(s)[i - 1] \in S
      BY <3>1, ElementOfSeq
    <3> QED BY <3>1, <3>2
  <2> QED BY <1>1, <2>1, <2>2
<1>3. s \in [1 .. Len(s) -> S]
  BY <1>1, <1>2
<1> QED BY <1>1, <1>3, SeqDef

\* The handler calls the connection.
LEMMA HandlerLife ==
  ASSUME LifeInv, Top(Loop, "handler"), NEW op \in Later,
         stack' = [stack EXCEPT ![Loop] = <<op>> \o @],
         state' # "connecting", UNCHANGED <<tasks, registered, connects, closes>>
  PROVE  LifeInv'
<1>1. Started /\ StackInv /\ RemoveInv /\ stack[Loop] # <<>> /\ Head(stack[Loop])[1] = "handler"
  BY OnlyStart DEF Top
<1>2. stack[Loop] \in Seq(Ops) /\ Tail(stack[Loop]) \in Seq(Later) /\ Head(stack[Loop]) \in Ops
  BY <1>1, ThreadSets, HeadTailProperties DEF StackInv
<1>3. Head(stack[Loop]) \in Later
  BY <1>1, <1>2 DEF Later
<1>4. stack[Loop] \in Seq(Later)
  BY <1>1, <1>2, <1>3, WholeSeq
<1>5. stack'[Loop] = <<op>> \o stack[Loop] /\ \A u \in Users : stack'[u] = stack[u]
  BY <1>1, ThreadSets DEF StackInv
<1>6. /\ stack'[Loop] # <<>> /\ Head(stack'[Loop]) = op /\ Tail(stack'[Loop]) = stack[Loop]
      /\ stack'[Loop] \in Seq(Later)
  <2> DEFINE old == stack[Loop]
  <2>1. old \in Seq(Later)
    BY <1>4
  <2> HIDE DEF old
  <2>2. /\ <<op>> \o old # <<>> /\ Head(<<op>> \o old) = op /\ Tail(<<op>> \o old) = old
        /\ <<op>> \o old \in Seq(Later)
    BY <2>1, Pushed
  <2> QED BY <1>5, <2>2 DEF old
<1>7. stack'[Loop] \in Seq(Ops)
  BY <1>6, OpSets, SeqMonotonic
<1>8. StackInv'
  BY <1>1, <1>4, <1>5, <1>6, <1>7, ThreadSets DEF StackInv
<1>9. ~OnTop("start")' /\ ~OnTop("handleRemove")'
  BY <1>6 DEF OnTop, Later
<1>10. Started' /\ RemoveInv'
  BY <1>1, <1>9 DEF Started, RemoveInv
<1> QED BY <1>8, <1>10 DEF LifeInv

\* A user thread calls the connection, or goes on inside a call.
LEMMA UserLife ==
  ASSUME LifeInv, Started, NEW u \in Users,
         NEW s \in Seq(UserOps), stack' = [stack EXCEPT ![u] = s],
         NEW q \in Seq(TaskOps), tasks' = [tasks EXCEPT ![u] = q],
         state' # "connecting", UNCHANGED <<registered, connects, closes>>
  PROVE  LifeInv'
<1>1. StackInv /\ RemoveInv
  BY DEF LifeInv
<1>2. s \in Seq(Ops) /\ q \in Seq(Ops)
  <2>1. UserOps \subseteq Ops /\ TaskOps \subseteq Ops
    BY OpSets
  <2> QED BY <2>1, SeqMonotonic
<1>3. /\ stack' \in [Threads -> Seq(Ops)] /\ tasks' \in [Posters -> Seq(Ops)]
      /\ \A v \in Users : /\ stack'[v] = IF v = u THEN s ELSE stack[v]
                          /\ tasks'[v] = IF v = u THEN q ELSE tasks[v]
      /\ stack'[Loop] = stack[Loop] /\ tasks'[Boss] = tasks[Boss]
  BY <1>1, <1>2, ThreadSets DEF StackInv
<1>4. StackInv'
  BY <1>1, <1>3 DEF StackInv
<1>5. Started' /\ RemoveInv'
  BY <1>1, <1>3 DEF Started, RemoveInv, OnTop
<1> QED BY <1>4, <1>5 DEF LifeInv

\* A closure is run at once by the handler and queued by a user thread.
LEMMA RunLife ==
  ASSUME LifeInv, NEW t \in Threads, NEW call, Invoke(t, call), NEW op \in TaskOps, Run(t, op),
         state' # "connecting", UNCHANGED registered
  PROVE  LifeInv'
<1>1. UNCHANGED <<connects, closes>>
  BY DEF Invoke
<1>2. CASE t = Loop
  <2>1. Top(Loop, "handler") /\ stack' = [stack EXCEPT ![Loop] = <<op>> \o @] /\ UNCHANGED tasks
    BY <1>2, Zenon DEF Invoke, Run
  <2>2. op \in Later
    BY OpSets
  <2> QED BY <1>1, <2>1, <2>2, HandlerLife
<1>3. CASE t # Loop
  <2>1. t \in Users /\ stack[t] = <<>> /\ Started /\ StackInv
    BY <1>3 DEF Invoke, LifeInv, Fresh, Threads
  <2>2. tasks' = [tasks EXCEPT ![t] = Append(tasks[t], op)] /\ stack' = [stack EXCEPT ![t] = <<>>]
    BY <1>3, <2>1 DEF Run, StackInv
  <2>3. Append(tasks[t], op) \in Seq(TaskOps) /\ <<>> \in Seq(UserOps)
    BY <2>1, AppendProperties DEF StackInv
  <2> QED BY <1>1, <2>1, <2>2, <2>3, UserLife
<1> QED BY <1>2, <1>3

\* A call that only changes its own thread, by something it still has to do.
LEMMA InsideLife ==
  ASSUME LifeInv, NEW t \in Threads, NEW call, Invoke(t, call), NEW op \in UserOps,
         stack' = [stack EXCEPT ![t] = <<op>> \o @], UNCHANGED <<tasks, state, registered>>
  PROVE  LifeInv'
<1>1. UNCHANGED <<connects, closes>>
  BY DEF Invoke
<1>2. CASE t = Loop
  <2>1. Top(Loop, "handler")
    BY <1>2 DEF Invoke
  <2>2. op \in Later /\ state' # "connecting"
    BY <2>1, OpSets, OnlyStart DEF Started
  <2> QED BY <1>1, <1>2, <2>1, <2>2, HandlerLife
<1>3. CASE t # Loop
  <2>1. t \in Users /\ stack[t] = <<>> /\ Started /\ StackInv
    BY <1>3 DEF Invoke, LifeInv, Fresh, Threads
  <2>2. stack' = [stack EXCEPT ![t] = <<op>> \o <<>>]
    BY <2>1
  <2>3. <<op>> \o <<>> \in Seq(UserOps) /\ tasks[t] \in Seq(TaskOps)
    <3>1. <<>> \in Seq(UserOps)
      OBVIOUS
    <3> QED BY <2>1, <3>1, Pushed DEF StackInv
  <2>4. tasks' = [tasks EXCEPT ![t] = tasks[t]]
    BY <2>1 DEF StackInv
  <2>5. state' # "connecting"
    BY <2>1 DEF Started
  <2> QED BY <1>1, <2>1, <2>2, <2>3, <2>4, <2>5, UserLife
<1> QED BY <1>2, <1>3

LEMMA CallLife == ASSUME LifeInv, NEW t \in Threads, Call(t) PROVE LifeInv'
<1>1. \A call : Invoke(t, call) => Started
  <2> SUFFICES ASSUME NEW call, Invoke(t, call) PROVE Started
    OBVIOUS
  <2>1. CASE t = Loop
    BY <2>1, OnlyStart DEF Invoke
  <2>2. CASE t # Loop
    BY <2>2 DEF Invoke, LifeInv, Fresh
  <2> QED BY <2>1, <2>2
<1>2. CASE Send(t)
  <2>1. PICK n \in SendSizes : Run(t, <<"handleSend", n>>)
    BY <1>2 DEF Send
  <2>2. Invoke(t, "Send") /\ UNCHANGED <<state, registered>> /\ <<"handleSend", n>> \in TaskOps
    BY <1>2 DEF Send, connVars, chanVars, TaskOps
  <2>3. state' # "connecting"
    BY <1>1, <2>2 DEF Started
  <2> QED BY <2>1, <2>2, <2>3, RunLife
<1>3. CASE SendOutput(t)
  <2>1. /\ t = Loop /\ Invoke(t, "SendOutput") /\ UNCHANGED <<state, registered>>
        /\ Run(t, <<"handleWrite">>)
    BY <1>3 DEF SendOutput, SetEvents
  <2>2. Top(Loop, "handler") /\ UNCHANGED <<connects, closes>>
    BY <2>1 DEF Invoke
  <2>3. stack' = [stack EXCEPT ![Loop] = <<<<"handleWrite">>>> \o @] /\ UNCHANGED tasks
    BY <2>1, Zenon DEF Run
  <2>4. state' # "connecting"
    BY <1>1, <2>1 DEF Started
  <2> QED BY <2>1, <2>2, <2>3, <2>4, LaterOps, HandlerLife
<1>4. ASSUME NEW call, NEW new, new # "connecting", NEW op \in TaskOps, Swap(t, call, new, op)
      PROVE  LifeInv'
  <2>1. Invoke(t, call) /\ UNCHANGED registered
    BY <1>4 DEF Swap, chanVars
  <2>2. CASE state = "connected"
    BY <1>4, <2>1, <2>2, RunLife DEF Swap
  <2>3. CASE state # "connected"
    <3>1. UNCHANGED <<state, stack, tasks, registered, connects, closes>>
      BY <1>4, <2>1, <2>3 DEF Swap, Invoke, execVars
    <3> QED BY <1>1, <2>1, <3>1 DEF LifeInv, StackInv, Started, RemoveInv, OnTop
  <2> QED BY <2>2, <2>3
<1>5. CASE Close(t)
  BY <1>4, <1>5 DEF Close, TaskOps
<1>6. CASE Shutdown(t)
  BY <1>4, <1>6 DEF Shutdown, TaskOps
<1>7. CASE CallForceClose(t)
  <2>1. /\ Invoke(t, "ForceClose") /\ UNCHANGED <<tasks, state, registered>>
        /\ stack' = [stack EXCEPT ![t] = <<<<"ForceClose">>>> \o @] /\ <<"ForceClose">> \in UserOps
    BY <1>7 DEF CallForceClose, connVars, chanVars, UserOps
  <2> QED BY <2>1, InsideLife
<1>8. CASE ForceShutdown(t)
  <2>1. Invoke(t, "ForceShutdown") /\ UNCHANGED <<tasks, state, registered, connects, closes>>
    BY <1>8 DEF ForceShutdown, Invoke, connVars, chanVars
  <2>2. CASE state = "disconnected"
    <3>1. UNCHANGED stack
      BY <1>8, <2>2 DEF ForceShutdown
    <3> QED BY <1>1, <2>1, <3>1 DEF LifeInv, StackInv, Started, RemoveInv, OnTop
  <2>3. CASE state # "disconnected"
    <3>1. stack' = [stack EXCEPT ![t] = <<<<"storeDisconnecting">>>> \o @]
          /\ <<"storeDisconnecting">> \in UserOps
      BY <1>8, <2>3 DEF ForceShutdown, UserOps
    <3> QED BY <2>1, <3>1, InsideLife
  <2> QED BY <2>2, <2>3
<1> QED BY <1>2, <1>3, <1>5, <1>6, <1>7, <1>8 DEF Call

LEMMA UserStepLife == ASSUME LifeInv, NEW u \in Users, UserStep(u) PROVE LifeInv'
<1>1. u # Loop /\ u \in Threads /\ u \in Posters
  BY ThreadSets
<1>2. stack[u] # <<>> /\ stack[u] \in Seq(UserOps) /\ tasks[u] \in Seq(TaskOps) /\ StackInv
  BY DEF UserStep, ForceClose, Store, Top, LifeInv, StackInv
<1>3. Started
  BY <1>2 DEF LifeInv, Fresh
<1>4. Tail(stack[u]) \in Seq(UserOps)
  BY <1>2, HeadTailProperties
<1>5. CASE ForceClose(u)
  <2>1. PICK ops \in Seq(UserOps) : Then(u, ops)
    <3>1. <<>> \in Seq(UserOps) /\ <<<<"storeDisconnected">>>> \in Seq(UserOps)
      <4>1. <<"storeDisconnected">> \in UserOps
        BY DEF UserOps
      <4> QED BY <4>1
    <3> QED BY <1>5, <3>1 DEF ForceClose
  <2>2. UNCHANGED <<tasks, state, registered, connects, closes>>
    BY <1>5, <2>1 DEF ForceClose, Then, connVars, chanVars, histVars
  <2>3. stack' = [stack EXCEPT ![u] = ops \o Tail(stack[u])] /\ ops \o Tail(stack[u]) \in Seq(UserOps)
    BY <1>4, <2>1, ConcatProperties DEF Then
  <2>4. tasks' = [tasks EXCEPT ![u] = tasks[u]] /\ state' # "connecting"
    BY <1>1, <1>2, <1>3, <2>2 DEF StackInv, Started
  <2> QED BY <1>2, <1>3, <2>2, <2>3, <2>4, UserLife
<1>6. CASE Store(u)
  <2>1. PICK op \in TaskOps : ThenRun(u, op)
    BY <1>6 DEF Store, TaskOps
  <2>2. state' # "connecting" /\ UNCHANGED <<registered, connects, closes>>
    BY <1>6 DEF Store, chanVars, histVars
  <2>3. stack' = [stack EXCEPT ![u] = Tail(stack[u])] /\ tasks' = [tasks EXCEPT ![u] = Append(tasks[u], op)]
    BY <1>1, <2>1, Zenon DEF ThenRun
  <2>4. Append(tasks[u], op) \in Seq(TaskOps)
    BY <1>2, AppendProperties
  <2> QED BY <1>3, <1>4, <2>2, <2>3, <2>4, UserLife
<1> QED BY <1>5, <1>6 DEF UserStep

\* Nothing else touches the life of the connection.
THEOREM LifeInvariant == Spec => []LifeInv
<1>1. LifeInv /\ [Next]_vars => LifeInv'
  <2> SUFFICES ASSUME LifeInv, [Next]_vars PROVE LifeInv'
    OBVIOUS
  <2>1. ASSUME UNCHANGED <<state, output, events, interest, registered, stack, tasks, connects, closes>>
        PROVE  LifeInv'
    BY <2>1 DEF LifeInv, StackInv, Fresh, Started, RemoveInv, OnTop
  <2>2. CASE Peer
    BY <2>1, <2>2 DEF Peer, connVars, chanVars, execVars, histVars
  <2>3. CASE UNCHANGED vars
    BY <2>1, <2>3 DEF vars, connVars, chanVars, execVars, histVars
  <2> QED BY <2>2, <2>3, LoopLife, CallLife, UserStepLife DEF Next
<1> QED BY <1>1, InitLife, PTL DEF Spec

\* OnConnect comes once and before OnClose, which comes at most once, however
\* many threads close, shut down and force at the same time.
THEOREM ConnectionEndsOnce == Spec => []ConnectThenClose
<1>1. LifeInv => ConnectThenClose
  BY DEF LifeInv, Fresh, Started, RemoveInv, ConnectThenClose
<1> QED BY <1>1, LifeInvariant, PTL

-----------------------------------------------------------------------------
(* The stream.                                                              *)

DataOK ==
  /\ output \in Seq(Nat) /\ wire \in Seq(Nat) /\ accepted \in Nat
  /\ drained \in 0 .. Len(wire) /\ Len(wire) - drained <= Cap

StreamInv == DataOK /\ StreamInOrder

LEMMA NatConcat ==
  ASSUME NEW s \in Seq(Nat), NEW t \in Seq(Nat), NEW u \in Seq(Nat)
  PROVE  (s \o t) \o u = s \o (t \o u)
BY ConcatAssociative

Numbers(a, n) == [i \in 1 .. n |-> a + i]

LEMMA NumbersType ==
  ASSUME NEW a \in Nat, NEW n \in Nat
  PROVE  /\ Numbers(a, n) \in Seq(Nat) /\ Len(Numbers(a, n)) = n
         /\ \A i \in 1 .. n : Numbers(a, n)[i] = a + i
<1>1. Numbers(a, n) \in Seq(Nat)
  BY IsASeq DEF Numbers
<1> QED BY <1>1, LenProperties DEF Numbers

\* The numbers up to a and the next n.
LEMMA Prolonged ==
  ASSUME NEW a \in Nat, NEW n \in Nat
  PROVE  Numbers(0, a) \o Numbers(a, n) = Numbers(0, a + n)
<1> DEFINE old == Numbers(0, a)
           new == Numbers(a, n)
           all == Numbers(0, a + n)
<1>1. /\ old \in Seq(Nat) /\ Len(old) = a /\ \A i \in 1 .. a : old[i] = i
      /\ new \in Seq(Nat) /\ Len(new) = n /\ \A i \in 1 .. n : new[i] = a + i
      /\ all \in Seq(Nat) /\ Len(all) = a + n /\ \A i \in 1 .. a + n : all[i] = i
  <2>1. 0 \in Nat /\ a + n \in Nat
    OBVIOUS
  <2>2. old \in Seq(Nat) /\ Len(old) = a /\ \A i \in 1 .. a : old[i] = 0 + i
    BY <2>1, NumbersType, Zenon
  <2>3. new \in Seq(Nat) /\ Len(new) = n /\ \A i \in 1 .. n : new[i] = a + i
    BY NumbersType, Zenon
  <2>4. all \in Seq(Nat) /\ Len(all) = a + n /\ \A i \in 1 .. a + n : all[i] = 0 + i
    BY <2>1, NumbersType, Zenon
  <2> HIDE DEF old, new, all
  <2> QED BY <2>2, <2>3, <2>4
<1> HIDE DEF old, new, all
<1>2. /\ old \o new \in Seq(Nat) /\ Len(old \o new) = a + n
      /\ \A i \in 1 .. a + n : (old \o new)[i] = IF i <= a THEN old[i] ELSE new[i - a]
  BY <1>1, ConcatProperties
<1>3. ASSUME NEW i \in 1 .. a + n PROVE (old \o new)[i] = i
  <2>1. CASE i <= a
    BY <1>1, <1>2, <2>1
  <2>2. CASE i > a
    <3>1. i - a \in 1 .. n /\ a + (i - a) = i
      BY <2>2
    <3>2. new[i - a] = i
      BY <1>1, <3>1
    <3> QED BY <1>2, <2>2, <3>2
  <2>3. i <= a \/ i > a
    OBVIOUS
  <2> QED BY <2>1, <2>2, <2>3
<1>4. old \o new = all
  BY <1>1, <1>2, <1>3, SeqEqual
<1> QED BY <1>4 DEF old, new, all

\* What is accepted goes behind what waits.
LEMMA Accepted ==
  ASSUME NEW w \in Seq(Nat), NEW o \in Seq(Nat), NEW a \in Nat, NEW n \in Nat,
         w \o o = Numbers(0, a)
  PROVE  w \o (o \o Numbers(a, n)) = Numbers(0, a + n)
<1>1. Numbers(a, n) \in Seq(Nat)
  BY NumbersType
<1>2. w \o (o \o Numbers(a, n)) = (w \o o) \o Numbers(a, n)
  BY <1>1, NatConcat, Zenon
<1>3. Numbers(0, a) \o Numbers(a, n) = Numbers(0, a + n)
  BY Prolonged
<1> QED BY <1>2, <1>3, Zenon

LEMMA AcceptedBytes ==
  ASSUME StreamInv, NEW n \in Nat
  PROVE  /\ Bytes(n) \in Seq(Nat)
         /\ wire \o (output \o Bytes(n)) = [i \in 1 .. accepted + n |-> i]
<1>1. accepted \in Nat /\ wire \in Seq(Nat) /\ output \in Seq(Nat) /\ accepted + n \in Nat
  BY DEF StreamInv, DataOK
<1>2. \A m \in Nat : Numbers(0, m) = [i \in 1 .. m |-> i]
  BY DEF Numbers
<1>3. Bytes(n) = Numbers(accepted, n)
  BY DEF Bytes, Numbers
<1>4. wire \o output = Numbers(0, accepted)
  BY <1>1, <1>2, Zenon DEF StreamInv, StreamInOrder
<1>5. wire \o (output \o Numbers(accepted, n)) = Numbers(0, accepted + n)
  BY <1>1, <1>4, Accepted
<1>6. Numbers(accepted, n) \in Seq(Nat)
  BY <1>1, NumbersType
<1> QED BY <1>1, <1>2, <1>3, <1>5, <1>6, Zenon

\* What is written in part and what is left of it are what there was.
LEMMA CutInTwo ==
  ASSUME NEW w \in Seq(Nat), NEW b \in Seq(Nat), NEW k \in 0 .. Len(b)
  PROVE  /\ SubSeq(b, 1, k) \in Seq(Nat) /\ Len(SubSeq(b, 1, k)) = k
         /\ SubSeq(b, k + 1, Len(b)) \in Seq(Nat)
         /\ Len(SubSeq(b, k + 1, Len(b))) = Len(b) - k
         /\ (w \o SubSeq(b, 1, k)) \o SubSeq(b, k + 1, Len(b)) = w \o b
<1>1. Len(b) \in Nat /\ \A i \in 1 .. Len(b) : b[i] \in Nat
  BY LenProperties, ElementOfSeq
<1>2. /\ SubSeq(b, 1, k) \in Seq(Nat) /\ Len(SubSeq(b, 1, k)) = k
      /\ SubSeq(b, k + 1, Len(b)) \in Seq(Nat)
      /\ Len(SubSeq(b, k + 1, Len(b))) = Len(b) - k
  <2>1. \A i \in 1 .. k : b[i] \in Nat
    BY <1>1
  <2>2. SubSeq(b, 1, k) \in Seq(Nat) /\ Len(SubSeq(b, 1, k)) = IF 1 <= k THEN k - 1 + 1 ELSE 0
    BY <2>1, SubSeqProperties
  <2>3. \A i \in k + 1 .. Len(b) : b[i] \in Nat
    BY <1>1
  <2>4. /\ SubSeq(b, k + 1, Len(b)) \in Seq(Nat)
        /\ Len(SubSeq(b, k + 1, Len(b))) = IF k + 1 <= Len(b) THEN Len(b) - (k + 1) + 1 ELSE 0
    BY <1>1, <2>3, SubSeqProperties
  <2> QED BY <1>1, <2>2, <2>4
<1>3. SubSeq(b, 1, k) \o SubSeq(b, k + 1, Len(b)) = b
  <2>1. 1 \in 1 .. Len(b) + 1 /\ k \in 1 - 1 .. Len(b) /\ Len(b) \in k .. Len(b)
    BY <1>1
  <2>2. SubSeq(b, 1, k) \o SubSeq(b, k + 1, Len(b)) = SubSeq(b, 1, Len(b))
    BY <2>1, ConcatAdjacentSubSeq
  <2> QED BY <2>2, SubSeqFull
<1>4. (w \o SubSeq(b, 1, k)) \o SubSeq(b, k + 1, Len(b))
        = w \o (SubSeq(b, 1, k) \o SubSeq(b, k + 1, Len(b)))
  BY <1>2, NatConcat, Zenon
<1> QED BY <1>2, <1>3, <1>4

LEMMA WriteSome ==
  ASSUME DataOK, NEW b \in Seq(Nat), b = <<>> \/ CanWrite, Write(b), drained' = drained
  PROVE  /\ wire' \in Seq(Nat) /\ Rest(b) \in Seq(Nat)
         /\ wire' \o Rest(b) = wire \o b
         /\ drained' \in 0 .. Len(wire') /\ Len(wire') - drained' <= Cap
<1> DEFINE k == Written(b)
<1>1. Len(wire) \in Nat /\ Len(b) \in Nat /\ Cap \in Nat /\ drained \in Nat
  BY LenProperties, CapAssumption DEF DataOK
<1>2. Room \in Nat /\ Room = Cap - (Len(wire) - drained)
  BY <1>1 DEF Room, DataOK
<1>3. k \in 0 .. Len(b) /\ k <= Room
  BY <1>1, <1>2 DEF Written, Least
<1>4. wire' = wire \o SubSeq(b, 1, k) /\ Rest(b) = SubSeq(b, k + 1, Len(b))
  BY DEF Write, Rest
<1> HIDE DEF k
<1>5. wire \in Seq(Nat)
  BY DEF DataOK
<1>6. /\ SubSeq(b, 1, k) \in Seq(Nat) /\ Len(SubSeq(b, 1, k)) = k
      /\ SubSeq(b, k + 1, Len(b)) \in Seq(Nat)
      /\ (wire \o SubSeq(b, 1, k)) \o SubSeq(b, k + 1, Len(b)) = wire \o b
  BY <1>3, <1>5, CutInTwo
<1>7. wire' \in Seq(Nat) /\ Len(wire') = Len(wire) + k
  BY <1>4, <1>5, <1>6, ConcatProperties
<1>8. drained' \in 0 .. Len(wire') /\ Len(wire') - drained' <= Cap
  BY <1>1, <1>2, <1>3, <1>7 DEF DataOK
<1> QED BY <1>4, <1>6, <1>7, <1>8

\* Bytes are put behind what waits.
LEMMA KeepBytes ==
  ASSUME StreamInv, NEW n \in SendSizes, output' = output \o Bytes(n), accepted' = accepted + n,
         UNCHANGED <<wire, drained>>
  PROVE  StreamInv'
<1>1. n \in Nat
  BY CapAssumption
<1>2. /\ Bytes(n) \in Seq(Nat)
      /\ wire \o (output \o Bytes(n)) = [i \in 1 .. accepted + n |-> i]
  BY <1>1, AcceptedBytes
<1>3. output' \in Seq(Nat)
  BY <1>2, ConcatProperties DEF StreamInv, DataOK
<1> QED BY <1>1, <1>2, <1>3 DEF StreamInv, DataOK, StreamInOrder

LEMMA StreamStep == ASSUME LifeInv, StreamInv, [Next]_vars PROVE StreamInv'
<1>1. ASSUME UNCHANGED <<wire, drained, output, accepted>> PROVE StreamInv'
  BY <1>1 DEF StreamInv, DataOK, StreamInOrder
<1>2. ASSUME NEW t \in Threads, Call(t) PROVE StreamInv'
  <2>1. CASE SendOutput(t)
    <3>1. PICK n \in SendSizes : output' = output \o Bytes(n) /\ accepted' = accepted + n
      BY <2>1 DEF SendOutput
    <3> QED BY <2>1, <3>1, KeepBytes DEF SendOutput, sockVars
  <2>2. CASE Send(t) \/ Close(t) \/ Shutdown(t) \/ CallForceClose(t) \/ ForceShutdown(t)
    BY <1>1, <2>2 DEF Send, Close, Shutdown, Swap, CallForceClose, ForceShutdown, connVars, sockVars
  <2> QED BY <1>2, <2>1, <2>2 DEF Call
<1>3. CASE HandleWrite
  <2>1. CASE UNCHANGED <<output, wire>>
    BY <1>1, <1>3, <2>1 DEF HandleWrite
  <2>2. CASE /\ output = <<>> \/ CanWrite
             /\ Write(output) /\ output' = Rest(output)
    <3>1. /\ wire' \in Seq(Nat) /\ Rest(output) \in Seq(Nat)
          /\ wire' \o Rest(output) = wire \o output
          /\ drained' \in 0 .. Len(wire') /\ Len(wire') - drained' <= Cap
      BY <1>3, <2>2, WriteSome DEF HandleWrite, StreamInv, DataOK
    <3> QED BY <1>3, <2>2, <3>1 DEF HandleWrite, StreamInv, DataOK, StreamInOrder
  <2> QED BY <1>3, <2>1, <2>2 DEF HandleWrite
<1>4. CASE HandleSend
  <2> DEFINE n == Head(stack[Loop])[2]
  <2>1. n \in SendSizes
    BY <1>4, OnlyStart, OpKinds DEF HandleSend, Top
  <2>2. CASE UNCHANGED <<output, accepted, wire>>
    BY <1>1, <1>4, <2>2 DEF HandleSend
  <2>3. CASE output' = output \o Bytes(n) /\ accepted' = accepted + n /\ UNCHANGED wire
    BY <1>4, <2>1, <2>3, KeepBytes DEF HandleSend
  <2>4. CASE /\ output = <<>> /\ CanWrite
             /\ Write(Bytes(n)) /\ output' = Rest(Bytes(n)) /\ accepted' = accepted + n
    <3>1. n \in Nat
      BY <2>1, CapAssumption
    <3>2. /\ Bytes(n) \in Seq(Nat)
          /\ wire \o (output \o Bytes(n)) = [i \in 1 .. accepted + n |-> i]
      BY <3>1, AcceptedBytes
    <3>3. output \o Bytes(n) = Bytes(n)
      BY <2>4, <3>2, ConcatEmptySeq
    <3>4. /\ wire' \in Seq(Nat) /\ Rest(Bytes(n)) \in Seq(Nat)
          /\ wire' \o Rest(Bytes(n)) = wire \o Bytes(n)
          /\ drained' \in 0 .. Len(wire') /\ Len(wire') - drained' <= Cap
      BY <1>4, <2>4, <3>2, WriteSome DEF HandleSend, StreamInv
    <3>5. wire' \o output' = [i \in 1 .. accepted' |-> i]
      BY <2>4, <3>2, <3>3, <3>4, Zenon
    <3>6. accepted' \in Nat
      BY <2>4, <3>1 DEF StreamInv, DataOK
    <3> QED BY <2>4, <3>4, <3>5, <3>6, Zenon DEF StreamInv, DataOK, StreamInOrder
  <2> QED BY <1>4, <2>2, <2>3, <2>4 DEF HandleSend
<1>5. CASE AppendUnsent
  <2>1. Head(stack[Loop])[2] \in SendSizes
    BY <1>5, OnlyStart, OpKinds DEF AppendUnsent, Top
  <2> QED BY <1>5, <2>1, KeepBytes DEF AppendUnsent, sockVars
<1>6. CASE ShutdownTask \/ WriteEnd
  BY <1>1, <1>6 DEF ShutdownTask, WriteEnd, CloseWrite, connVars, sockVars
<1>7. ASSUME NEW t \in Threads, ForceClose(t) \/ Store(t) PROVE StreamInv'
  BY <1>1, <1>7 DEF ForceClose, Store, connVars, sockVars
<1>8. CASE \E p \in Posters : RunTask(p)
  BY <1>1, <1>8 DEF RunTask, connVars, sockVars
<1>9. CASE HandleEvents \/ HandlerReturns \/ Start \/ SetReadable \/ HandleRead \/ HandleError
  BY <1>1, <1>9 DEF HandleEvents, HandlerReturns, Start, SetReadable, HandleRead, HandleError,
                    connVars, sockVars
<1>10. CASE HandleClose \/ CloseTask \/ HandleRemove
  BY <1>1, <1>10 DEF HandleClose, CloseTask, HandleRemove, connVars, sockVars
<1>11. CASE Peer
  <2>1. CASE PeerDrains
    <3>1. Len(wire) \in Nat /\ drained \in Nat /\ drained < Len(wire) /\ drained' = drained + 1
      BY <2>1, LenProperties DEF PeerDrains, StreamInv, DataOK
    <3>2. UNCHANGED <<wire, output, accepted>> /\ Cap \in Nat
      BY <1>11, <2>1, CapAssumption DEF Peer, PeerDrains, connVars
    <3> QED BY <3>1, <3>2 DEF StreamInv, DataOK, StreamInOrder
  <2>2. CASE PeerSends \/ PeerCloses \/ PeerResets
    BY <1>1, <1>11, <2>2 DEF Peer, PeerSends, PeerCloses, PeerResets, connVars
  <2> QED BY <1>11, <2>1, <2>2 DEF Peer
<1>12. CASE UNCHANGED vars
  BY <1>1, <1>12 DEF vars, connVars, sockVars
<1> QED BY <1>2, <1>3, <1>4, <1>5, <1>6, <1>7, <1>8, <1>9, <1>10, <1>11, <1>12, ThreadSets
        DEF Next, LoopStep, UserStep

LEMMA InitStream == Init => StreamInv
<1> SUFFICES ASSUME Init PROVE StreamInv
  OBVIOUS
<1>1. Len(<<>>) = 0 /\ <<>> \in Seq(Nat) /\ <<>> \o <<>> = <<>>
  BY EmptySeq, ConcatEmptySeq
<1>2. [i \in 1 .. 0 |-> i] = <<>>
  <2>1. [i \in 1 .. 0 |-> i] \in Seq(Nat) /\ Len([i \in 1 .. 0 |-> i]) = 0
    BY LenProperties, IsASeq
  <2> QED BY <2>1, EmptySeq
<1> QED BY <1>1, <1>2, CapAssumption DEF Init, StreamInv, DataOK, StreamInOrder

\* What was written and what waits are together the bytes accepted, in order,
\* through partial writes, failed ones, shutdowns and closes of any thread.
THEOREM StreamKeepsOrder == Spec => []StreamInOrder
<1>1. LifeInv /\ StreamInv /\ [Next]_vars => StreamInv'
  BY StreamStep
<1>2. StreamInv => StreamInOrder
  BY DEF StreamInv
<1> QED BY <1>1, <1>2, InitStream, LifeInvariant, PTL DEF Spec

-----------------------------------------------------------------------------
(* The channel and its selector.                                            *)

EventInv ==
  /\ state \in States
  /\ events \subseteq {"R", "W"} /\ interest \subseteq {"R", "W"}
  /\ inbox \in {0, 1} /\ arrived \in 0 .. MaxInbox
  /\ peer \in {"open", "closed", "reset"}
  /\ soerr \in BOOLEAN /\ wrClosed \in BOOLEAN /\ crashed \in BOOLEAN
  /\ calls \in 0 .. MaxCalls /\ asked \subseteq Calls
  /\ registered => interest = events
  /\ ~wrClosed /\ ~crashed => (output # <<>> <=> "W" \in events)

LEMMA SomethingWaits ==
  ASSUME StreamInv, NEW n \in SendSizes
  PROVE  output \o Bytes(n) # <<>>
<1>1. n \in Nat \ {0} /\ accepted \in Nat /\ output \in Seq(Nat)
  BY CapAssumption DEF StreamInv, DataOK
<1>2. Bytes(n) \in Seq(Nat) /\ Len(Bytes(n)) = n
  <2>1. Bytes(n) = Numbers(accepted, n)
    BY DEF Bytes, Numbers
  <2> QED BY <1>1, <2>1, NumbersType
<1>3. Len(output \o Bytes(n)) = Len(output) + n /\ Len(output) \in Nat
  BY <1>1, <1>2, ConcatProperties, LenProperties
<1> QED BY <1>1, <1>3, EmptySeq

\* The write interest is set together with something to write.
LEMMA WantWrite ==
  ASSUME EventInv, SetEvents(events \cup {"W"}), output' # <<>>,
         UNCHANGED <<state, inbox, arrived, peer, wrClosed, crashed>>,
         soerr' \in BOOLEAN, calls' \in 0 .. MaxCalls, asked' \subseteq Calls
  PROVE  EventInv'
BY DEF EventInv, SetEvents

LEMMA EventStep == ASSUME LifeInv, StreamInv, EventInv, [Next]_vars PROVE EventInv'
<1>1. ASSUME UNCHANGED <<chanVars, inbox, arrived, peer, wrClosed, crashed, output>>,
             state' \in States, soerr' \in BOOLEAN, calls' \in 0 .. MaxCalls, asked' \subseteq Calls
      PROVE  EventInv'
  BY <1>1 DEF EventInv, chanVars
<1>2. ASSUME NEW t \in Threads, Call(t) PROVE EventInv'
  <2>1. ASSUME NEW call, Invoke(t, call) PROVE calls' \in 0 .. MaxCalls /\ asked' \subseteq Calls
    BY <2>1, BoundsAssumption DEF Invoke, EventInv
  <2>2. CASE SendOutput(t)
    <3>1. output' # <<>>
      BY <2>2, SomethingWaits DEF SendOutput
    <3> QED BY <2>1, <2>2, <3>1, WantWrite DEF SendOutput, sockVars, EventInv
  <2>3. CASE Send(t) \/ CallForceClose(t) \/ ForceShutdown(t)
    BY <1>1, <2>1, <2>3 DEF Send, CallForceClose, ForceShutdown, connVars, sockVars, EventInv
  <2>4. CASE Close(t) \/ Shutdown(t)
    BY <1>1, <2>1, <2>4 DEF Close, Shutdown, Swap, sockVars, EventInv, States
  <2> QED BY <1>2, <2>2, <2>3, <2>4 DEF Call
<1>3. CASE HandleWrite
  <2>1. /\ UNCHANGED <<state, inbox, arrived, peer, wrClosed, crashed, calls, asked>>
        /\ soerr' \in BOOLEAN
    BY <1>3 DEF HandleWrite, WriteFails, histVars, EventInv
  <2>2. CASE UNCHANGED <<output, chanVars>>
    BY <1>1, <2>1, <2>2 DEF EventInv
  <2>3. CASE "W" \in events /\ output' # <<>> /\ UNCHANGED chanVars
    BY <2>1, <2>3 DEF EventInv, chanVars
  <2>4. CASE output' = <<>> /\ SetEvents(events \ {"W"})
    BY <2>1, <2>4 DEF EventInv, SetEvents
  <2> QED BY <1>3, <2>2, <2>3, <2>4 DEF HandleWrite
<1>4. CASE HandleSend
  <2> DEFINE n == Head(stack[Loop])[2]
  <2>1. n \in SendSizes
    BY <1>4, OnlyStart, OpKinds DEF HandleSend, Top
  <2>2. /\ UNCHANGED <<state, inbox, arrived, peer, wrClosed, crashed, calls, asked>>
        /\ soerr' \in BOOLEAN
    BY <1>4 DEF HandleSend, WriteFails, histVars, EventInv
  <2>3. CASE UNCHANGED <<output, chanVars>>
    BY <1>1, <2>2, <2>3 DEF EventInv
  <2>4. CASE output' = output \o Bytes(n) /\ SetEvents(events \cup {"W"})
    BY <2>1, <2>2, <2>4, SomethingWaits, WantWrite DEF EventInv
  <2>5. CASE output = <<>> /\ output' # <<>> /\ SetEvents(events \cup {"W"})
    BY <2>2, <2>5, WantWrite DEF EventInv
  <2>6. CASE output = <<>> /\ output' = <<>> /\ UNCHANGED chanVars
    BY <1>1, <2>2, <2>6 DEF EventInv
  <2> QED BY <1>4, <2>3, <2>4, <2>5, <2>6 DEF HandleSend
<1>5. CASE AppendUnsent
  <2>1. Head(stack[Loop])[2] \in SendSizes
    BY <1>5, OnlyStart, OpKinds DEF AppendUnsent, Top
  <2>2. output' # <<>>
    BY <1>5, <2>1, SomethingWaits DEF AppendUnsent
  <2> QED BY <1>5, <2>2, WantWrite DEF AppendUnsent, sockVars, histVars, EventInv
<1>6. CASE ShutdownTask
  <2>1. CASE SetEvents(events \ {"W"}) /\ CloseWrite
    BY <1>6, <2>1 DEF ShutdownTask, SetEvents, CloseWrite, connVars, histVars, EventInv
  <2>2. CASE UNCHANGED <<chanVars, sockVars>>
    BY <1>1, <1>6, <2>2 DEF ShutdownTask, connVars, sockVars, histVars, EventInv
  <2> QED BY <1>6, <2>1, <2>2 DEF ShutdownTask
<1>7. CASE WriteEnd
  BY <1>7 DEF WriteEnd, CloseWrite, connVars, chanVars, sockVars, histVars, EventInv
<1>8. ASSUME NEW t \in Threads, ForceClose(t) \/ Store(t) PROVE EventInv'
  BY <1>1, <1>8 DEF ForceClose, Store, connVars, sockVars, histVars, EventInv, States
<1>9. CASE (\E p \in Posters : RunTask(p)) \/ HandleEvents \/ HandlerReturns
  BY <1>1, <1>9 DEF RunTask, HandleEvents, HandlerReturns, connVars, sockVars, histVars, EventInv
<1>10. CASE Start
  <2>1. stack[Loop] # <<>> /\ stack[Loop] \in Seq(Ops) /\ Head(stack[Loop])[1] = "start"
    BY <1>10, ThreadSets DEF Start, Top, LifeInv, StackInv
  <2>2. Head(stack[Loop]) = <<"start">>
    BY <2>1, OpKinds, HeadTailProperties
  <2>3. Fresh
    BY <2>1, <2>2 DEF LifeInv, Started, OnTop
  <2> QED BY <1>10, <2>3 DEF Start, Fresh, sockVars, EventInv, States
<1>11. CASE SetReadable
  BY <1>11 DEF SetReadable, SetEvents, connVars, sockVars, histVars, EventInv
<1>12. CASE HandleRead
  BY <1>12 DEF HandleRead, connVars, chanVars, histVars, EventInv
<1>13. CASE HandleError
  BY <1>1, <1>13 DEF HandleError, connVars, histVars, EventInv
<1>14. ASSUME Remove, UNCHANGED <<output, sockVars, histVars>>, state' \in States PROVE EventInv'
  BY <1>14 DEF Remove, sockVars, histVars, EventInv
<1>15. CASE HandleClose
  BY <1>1, <1>14, <1>15 DEF HandleClose, sockVars, histVars, EventInv, States
<1>16. CASE CloseTask
  BY <1>1, <1>14, <1>16 DEF CloseTask, connVars, sockVars, histVars, EventInv
<1>17. CASE HandleRemove
  BY <1>1, <1>17 DEF HandleRemove, connVars, sockVars, EventInv
<1>18. CASE Peer
  <2>1. UNCHANGED <<connVars, chanVars, histVars, wrClosed, crashed>>
    BY <1>18 DEF Peer, PeerSends, PeerDrains, PeerCloses, PeerResets
  <2>2. /\ inbox' \in {0, 1} /\ arrived' \in 0 .. MaxInbox
        /\ peer' \in {"open", "closed", "reset"} /\ soerr' \in BOOLEAN
    <3>1. arrived' = arrived \/ (arrived < MaxInbox /\ arrived' = arrived + 1)
      BY <1>18 DEF Peer, PeerSends, PeerDrains, PeerCloses, PeerResets
    <3>2. arrived' \in 0 .. MaxInbox
      BY <3>1, BoundsAssumption DEF EventInv
    <3>3. inbox' \in {inbox, 1} /\ peer' \in {peer, "closed", "reset"} /\ soerr' \in {soerr, TRUE}
      BY <1>18 DEF Peer, PeerSends, PeerDrains, PeerCloses, PeerResets
    <3> QED BY <3>2, <3>3 DEF EventInv
  <2> QED BY <2>1, <2>2 DEF EventInv, connVars, chanVars, histVars
<1>19. CASE UNCHANGED vars
  BY <1>1, <1>19 DEF vars, connVars, sockVars, histVars, EventInv
<1> QED BY <1>2, <1>3, <1>4, <1>5, <1>6, <1>7, <1>8, <1>9, <1>10, <1>11, <1>12, <1>13, <1>15,
           <1>16, <1>17, <1>18, <1>19, ThreadSets DEF Next, LoopStep, UserStep

LEMMA InitEvents == Init => EventInv
<1> SUFFICES ASSUME Init PROVE EventInv
  OBVIOUS
<1>1. 0 \in 0 .. MaxInbox /\ 0 \in 0 .. MaxCalls
  BY BoundsAssumption
<1>2. /\ state \in States /\ peer \in {"open", "closed", "reset"}
      /\ soerr \in BOOLEAN /\ wrClosed \in BOOLEAN /\ crashed \in BOOLEAN
      /\ output = <<>> /\ events = {} /\ interest = {} /\ asked = {}
      /\ inbox = 0 /\ arrived = 0 /\ calls = 0
  BY DEF Init, States
<1> QED BY <1>1, <1>2 DEF EventInv

\* The three parts of the invariant together: the life of the connection, its
\* stream, and its channel.
THEOREM Invariant == Spec => [](LifeInv /\ StreamInv /\ EventInv)
<1>1. LifeInv /\ StreamInv /\ EventInv /\ [Next]_vars => StreamInv' /\ EventInv'
  BY StreamStep, EventStep
<1> QED BY <1>1, InitStream, InitEvents, LifeInvariant, PTL DEF Spec

\* Every variable keeps its type; the bytes underway fit into the buffer of the
\* socket.
LEMMA Types == LifeInv /\ StreamInv /\ EventInv => TypeOK
<1> SUFFICES ASSUME LifeInv, StreamInv, EventInv PROVE TypeOK
  OBVIOUS
<1>1. connects \in Nat /\ closes \in Nat /\ registered \in BOOLEAN
  BY DEF LifeInv, Fresh, Started, RemoveInv
<1>2. stack \in [Threads -> Seq(Ops)] /\ tasks \in [Posters -> Seq(Ops)]
  BY DEF LifeInv, StackInv
<1> QED BY <1>1, <1>2 DEF TypeOK, StreamInv, DataOK, EventInv

\* The selector waits for what the channel believes it waits for, and for
\* writing exactly while output waits and the write side is open.
THEOREM InterestStaysRight == Spec => []InterestIsRight
<1>1. LifeInv /\ StreamInv /\ EventInv => InterestIsRight
  <2> SUFFICES ASSUME LifeInv, StreamInv, EventInv PROVE InterestIsRight
    OBVIOUS
  <2>1. TypeOK
    BY Types
  <2> QED BY <2>1 DEF EventInv, InterestIsRight
<1> QED BY <1>1, Invariant, PTL

-----------------------------------------------------------------------------
(* The end is final.                                                        *)

\* Only ForceShutdown leaves a store of kDisconnecting to be made.
Calm == Ops \ {<<"storeDisconnecting">>}
StoreInv == "ForceShutdown" \notin asked => \A t \in Threads : stack[t] \in Seq(Calm)

LEMMA CalmOps ==
  /\ TaskOps \subseteq Calm /\ <<"start">> \in Calm /\ Calm \subseteq Ops
  /\ \A op \in {"handler", "setReadable", "handleClose", "handleError", "handleRead",
                "handleWrite", "writeEnd", "handleRemove", "ForceClose", "storeDisconnected",
                "forceCloseTask"} : <<op>> \in Calm
  /\ \A n \in SendSizes : <<"append", n>> \in Calm
BY DEF Calm, Ops, TaskOps

LEMMA CalmThen ==
  ASSUME LifeInv, StoreInv, NEW t \in Threads, stack[t] # <<>>, NEW ops \in Seq(Calm),
         Then(t, ops), UNCHANGED asked
  PROVE  StoreInv'
<1> SUFFICES ASSUME "ForceShutdown" \notin asked, NEW s \in Threads PROVE stack'[s] \in Seq(Calm)
  BY DEF StoreInv
<1>1. stack'[s] = IF s = t THEN ops \o Tail(stack[t]) ELSE stack[s]
  BY DEF Then, LifeInv, StackInv
<1>2. stack[s] \in Seq(Calm) /\ stack[t] \in Seq(Calm)
  BY DEF StoreInv
<1>3. Tail(stack[t]) \in Seq(Calm)
  BY <1>2, HeadTailProperties
<1>4. ops \o Tail(stack[t]) \in Seq(Calm)
  BY <1>3, ConcatProperties
<1> QED BY <1>1, <1>2, <1>4

LEMMA CalmPush ==
  ASSUME LifeInv, StoreInv, NEW t \in Threads, NEW op \in Calm,
         stack' = [stack EXCEPT ![t] = <<op>> \o @], asked \subseteq asked'
  PROVE  StoreInv'
<1> SUFFICES ASSUME "ForceShutdown" \notin asked', NEW s \in Threads PROVE stack'[s] \in Seq(Calm)
  BY DEF StoreInv
<1>1. stack'[s] = IF s = t THEN <<op>> \o stack[t] ELSE stack[s]
  BY DEF LifeInv, StackInv
<1>2. stack[s] \in Seq(Calm) /\ stack[t] \in Seq(Calm)
  BY DEF StoreInv
<1>3. <<op>> \o stack[t] \in Seq(Calm)
  BY <1>2, Pushed
<1> QED BY <1>1, <1>2, <1>3

LEMMA CalmStay ==
  ASSUME StoreInv, UNCHANGED stack, asked \subseteq asked'
  PROVE  StoreInv'
BY DEF StoreInv

\* What is on top of the loop's stack and follows it there.
LEMMA CalmLoop ==
  ASSUME LifeInv, StoreInv, NEW op, Top(Loop, op), NEW ops \in Seq(Calm), Then(Loop, ops),
         UNCHANGED asked
  PROVE  StoreInv'
<1>1. stack[Loop] # <<>>
  BY DEF Top
<1> QED BY <1>1, ThreadSets, CalmThen

LEMMA StoreStep == ASSUME LifeInv, StoreInv, [Next]_vars PROVE StoreInv'
<1>1. ASSUME NEW t \in Threads, Call(t) PROVE StoreInv'
  <2>1. \A call : Invoke(t, call) => asked' = asked \cup {call}
    BY DEF Invoke
  <2>2. ASSUME NEW op \in Calm, Run(t, op), asked \subseteq asked' PROVE StoreInv'
    <3>1. UNCHANGED stack \/ stack' = [stack EXCEPT ![t] = <<op>> \o @]
      BY <2>2, Zenon DEF Run
    <3> QED BY <2>2, <3>1, CalmStay, CalmPush
  <2>3. CASE Send(t)
    <3>1. PICK n \in SendSizes : Run(t, <<"handleSend", n>>)
      BY <2>3 DEF Send
    <3>2. <<"handleSend", n>> \in Calm
      BY CalmOps DEF TaskOps
    <3> QED BY <2>1, <2>2, <2>3, <3>1, <3>2 DEF Send
  <2>4. CASE SendOutput(t)
    BY <2>1, <2>2, <2>4, CalmOps DEF SendOutput
  <2>5. CASE Close(t) \/ Shutdown(t)
    <3>1. asked \subseteq asked'
      BY <2>1, <2>5 DEF Close, Shutdown, Swap
    <3>2. Run(t, <<"closeTask">>) \/ Run(t, <<"shutdownTask">>) \/ UNCHANGED stack
      BY <2>5, Zenon DEF Close, Shutdown, Swap, execVars
    <3>3. <<"closeTask">> \in Calm /\ <<"shutdownTask">> \in Calm
      BY CalmOps DEF TaskOps
    <3> QED BY <2>2, <3>1, <3>2, <3>3, CalmStay
  <2>6. CASE CallForceClose(t)
    BY <2>1, <2>6, CalmOps, CalmPush DEF CallForceClose
  <2>7. CASE ForceShutdown(t)
    BY <2>1, <2>7 DEF ForceShutdown, StoreInv
  <2> QED BY <1>1, <2>3, <2>4, <2>5, <2>6, <2>7 DEF Call
<1>2. ASSUME NEW t \in Threads, ForceClose(t) PROVE StoreInv'
  <2>1. PICK ops \in Seq(Calm) : Then(t, ops)
    <3>1. <<>> \in Seq(Calm) /\ <<<<"storeDisconnected">>>> \in Seq(Calm)
      <4>1. <<"storeDisconnected">> \in Calm
        BY CalmOps
      <4> QED BY <4>1
    <3> QED BY <1>2, <3>1 DEF ForceClose
  <2>2. stack[t] # <<>> /\ UNCHANGED asked
    BY <1>2 DEF ForceClose, Top, histVars
  <2> QED BY <2>1, <2>2, CalmThen
<1>3. ASSUME NEW t \in Threads, Store(t) PROVE StoreInv'
  <2>1. PICK op \in Calm : ThenRun(t, op)
    <3>1. <<"forceCloseTask">> \in Calm /\ <<"forceShutdownTask">> \in Calm
      BY CalmOps DEF TaskOps
    <3> QED BY <1>3, <3>1 DEF Store
  <2>2. stack[t] # <<>> /\ UNCHANGED asked
    BY <1>3 DEF Store, Top, histVars
  <2>3. CASE t = Loop
    <3>1. <<op>> \in Seq(Calm) /\ Then(t, <<op>>)
      BY <2>1, <2>3 DEF ThenRun
    <3> QED BY <2>2, <3>1, CalmThen
  <2>4. CASE t # Loop
    <3>1. stack' = [stack EXCEPT ![t] = Tail(@)]
      BY <2>1, <2>4, Zenon DEF ThenRun
    <3> SUFFICES ASSUME "ForceShutdown" \notin asked, NEW s \in Threads
                 PROVE  stack'[s] \in Seq(Calm)
      BY <2>2 DEF StoreInv
    <3>2. stack[s] \in Seq(Calm) /\ stack[t] \in Seq(Calm)
      BY DEF StoreInv
    <3>3. Tail(stack[t]) \in Seq(Calm)
      BY <2>2, <3>2, HeadTailProperties
    <3>4. stack'[s] = IF s = t THEN Tail(stack[t]) ELSE stack[s]
      BY <3>1 DEF LifeInv, StackInv
    <3> QED BY <3>2, <3>3, <3>4
  <2> QED BY <2>3, <2>4
<1>4. ASSUME NEW p \in Posters, RunTask(p) PROVE StoreInv'
  <2>1. Head(tasks[p]) \in Calm
    <3>1. CASE p = Boss
      <4>1. tasks[p] = <<<<"start">>>>
        BY <1>4, <3>1 DEF RunTask, LifeInv, StackInv
      <4> QED BY <4>1, CalmOps
    <3>2. CASE p \in Users
      BY <1>4, <3>2, CalmOps, HeadTailProperties DEF RunTask, LifeInv, StackInv
    <3> QED BY <3>1, <3>2 DEF Posters
  <2>2. stack' = [stack EXCEPT ![Loop] = <<Head(tasks[p])>>] /\ UNCHANGED asked
    BY <1>4 DEF RunTask, histVars
  <2>3. <<Head(tasks[p])>> \in Seq(Calm)
    BY <2>1
  <2> QED BY <2>2, <2>3 DEF StoreInv, LifeInv, StackInv
<1>5. CASE HandleEvents
  <2> DEFINE If(cond, op) == IF cond THEN <<<<op>>>> ELSE <<>>
             found == If(HangUp /\ ~Readable, "handleClose") \o If(soerr, "handleError")
                        \o If(Readable, "handleRead") \o If(Writable, "handleWrite")
  <2>1. /\ If(HangUp /\ ~Readable, "handleClose") \in Seq(Calm)
        /\ If(soerr, "handleError") \in Seq(Calm)
        /\ If(Readable, "handleRead") \in Seq(Calm)
        /\ If(Writable, "handleWrite") \in Seq(Calm)
    <3>1. /\ <<"handleClose">> \in Calm /\ <<"handleError">> \in Calm
          /\ <<"handleRead">> \in Calm /\ <<"handleWrite">> \in Calm
      BY CalmOps
    <3> QED BY <3>1
  <2>2. found \in Seq(Calm)
    <3> HIDE DEF If
    <3> QED BY <2>1, ConcatProperties
  <2>3. stack' = [stack EXCEPT ![Loop] = found] /\ UNCHANGED asked
    BY <1>5 DEF HandleEvents, histVars
  <2> HIDE DEF found
  <2> QED BY <2>2, <2>3 DEF StoreInv, LifeInv, StackInv
<1> DEFINE One(op) == <<<<op>>>>
<1>6. /\ <<>> \in Seq(Calm)
      /\ \A op \in {"handler", "handleClose", "handleRemove", "ForceClose"} : One(op) \in Seq(Calm)
      /\ <<Handler, <<"setReadable">>>> \in Seq(Calm) /\ <<Handler, <<"writeEnd">>>> \in Seq(Calm)
      /\ <<Handler>> = One("handler")
  BY CalmOps DEF Handler
<1>7. CASE HandlerReturns \/ SetReadable \/ WriteEnd \/ AppendUnsent \/ ShutdownTask
  <2>1. PICK op : Top(Loop, op)
    BY <1>7 DEF HandlerReturns, SetReadable, WriteEnd, AppendUnsent, ShutdownTask
  <2>2. Then(Loop, <<>>) /\ UNCHANGED asked
    BY <1>7 DEF HandlerReturns, SetReadable, WriteEnd, AppendUnsent, ShutdownTask, histVars
  <2> QED BY <1>6, <2>1, <2>2, CalmLoop
<1>8. CASE Start
  <2>1. PICK ops \in Seq(Calm) : Then(Loop, ops)
    BY <1>6, <1>8 DEF Start
  <2> QED BY <1>8, <2>1, CalmLoop DEF Start
<1>9. CASE HandleRead \/ HandleError
  <2>1. PICK ops \in Seq(Calm) : Then(Loop, ops)
    BY <1>6, <1>9 DEF HandleRead, HandleError
  <2>2. PICK op : Top(Loop, op)
    BY <1>9 DEF HandleRead, HandleError
  <2> QED BY <1>9, <2>1, <2>2, CalmLoop DEF HandleRead, HandleError, histVars
<1>10. CASE HandleWrite
  <2>1. PICK ops \in Seq(Calm) : Then(Loop, ops)
    BY <1>6, <1>10 DEF HandleWrite
  <2> QED BY <1>10, <2>1, CalmLoop DEF HandleWrite, histVars
<1>11. CASE HandleSend
  <2>1. Head(stack[Loop])[2] \in SendSizes
    BY <1>11, OnlyStart, OpKinds DEF HandleSend, Top
  <2>2. <<<<"ForceClose">>, <<"append", Head(stack[Loop])[2]>>>> \in Seq(Calm)
    <3>1. <<"ForceClose">> \in Calm /\ <<"append", Head(stack[Loop])[2]>> \in Calm
      BY <2>1, CalmOps
    <3> QED BY <3>1
  <2>3. PICK ops \in Seq(Calm) : Then(Loop, ops)
    BY <1>6, <1>11, <2>2 DEF HandleSend
  <2> QED BY <1>11, <2>3, CalmLoop DEF HandleSend, histVars
<1>12. CASE HandleClose \/ CloseTask \/ HandleRemove
  <2>1. PICK ops \in Seq(Calm) : Then(Loop, ops)
    BY <1>6, <1>12 DEF HandleClose, CloseTask, HandleRemove, Remove
  <2>2. PICK op : Top(Loop, op)
    BY <1>12 DEF HandleClose, CloseTask, HandleRemove
  <2>3. UNCHANGED asked
    BY <1>12 DEF HandleClose, CloseTask, HandleRemove, histVars
  <2> QED BY <2>1, <2>2, <2>3, CalmLoop
<1>13. CASE Peer \/ UNCHANGED vars
  BY <1>13, CalmStay DEF Peer, vars, execVars, histVars
<1> QED BY <1>1, <1>2, <1>3, <1>4, <1>5, <1>7, <1>8, <1>9, <1>10, <1>11, <1>12, <1>13, ThreadSets
        DEF Next, LoopStep, UserStep

\* kDisconnected is left by nothing but the store of a ForceShutdown, which is
\* on no stack while nobody has called it.
LEMMA EndStep ==
  ASSUME LifeInv, StoreInv, [Next]_vars, state = "disconnected", "ForceShutdown" \notin asked
  PROVE  state' = "disconnected"
<1>1. ASSUME NEW t \in Threads, Call(t) PROVE state' = "disconnected"
  BY <1>1 DEF Call, Send, SendOutput, Close, Shutdown, Swap, CallForceClose, ForceShutdown, connVars
<1>2. ASSUME NEW t \in Threads, Store(t) PROVE state' = "disconnected"
  <2>1. stack[t] \in Seq(Calm)
    BY DEF StoreInv
  <2>2. stack[t] # <<>> => Head(stack[t]) \in Calm
    BY <2>1, HeadTailProperties
  <2>3. ~Top(t, "storeDisconnecting")
    BY <2>2, OpKinds DEF Top, Calm
  <2> QED BY <1>2, <2>3 DEF Store
<1>3. ASSUME NEW t \in Threads, ForceClose(t) PROVE state' = "disconnected"
  BY <1>3 DEF ForceClose, connVars
<1>4. CASE \/ \E p \in Posters : RunTask(p)
           \/ HandleEvents \/ HandlerReturns \/ Start \/ SetReadable \/ HandleRead \/ HandleError
  BY <1>4 DEF RunTask, HandleEvents, HandlerReturns, Start, SetReadable, HandleRead, HandleError,
              connVars
<1>5. CASE HandleWrite \/ WriteEnd \/ HandleSend \/ AppendUnsent
  BY <1>5 DEF HandleWrite, WriteEnd, HandleSend, AppendUnsent, connVars
<1>6. CASE HandleClose \/ CloseTask \/ ShutdownTask \/ HandleRemove \/ Peer \/ UNCHANGED vars
  BY <1>6 DEF HandleClose, CloseTask, ShutdownTask, HandleRemove, Peer, vars, connVars
<1> QED BY <1>1, <1>2, <1>3, <1>4, <1>5, <1>6, ThreadSets DEF Next, LoopStep, UserStep

\* Once the connection is disconnected it stays so, whatever other threads had
\* begun to do, unless ForceShutdown was called.
THEOREM EndIsFinal == Spec => DisconnectedIsFinal
<1>1. Init => StoreInv
  <2>1. <<>> \in Seq(Calm)
    OBVIOUS
  <2> QED BY <2>1 DEF Init, StoreInv
<1>2. LifeInv /\ StoreInv /\ [Next]_vars => StoreInv'
  BY StoreStep
<1>3. LifeInv /\ StoreInv /\ [Next]_vars
        => [state = "disconnected" /\ "ForceShutdown" \notin asked => state' = "disconnected"]_vars
  BY EndStep
<1> QED BY <1>1, <1>2, <1>3, LifeInvariant, PTL DEF Spec, DisconnectedIsFinal

-----------------------------------------------------------------------------
(* What the liveness properties rest on: whatever has to happen is the work  *)
(* of something that waits for the loop thread.                             *)

\* The entries of s, and what waits on the loop's stack or in its queue.
On(s) == {s[i] : i \in 1 .. Len(s)}
Waiting == On(stack[Loop]) \cup UNION {On(tasks[p]) : p \in Posters}
Waits(op) == <<op>> \in Waiting

\* The write side is shut, or will be by ForceShutdown's closure.
WillShut == wrClosed \/ crashed \/ Waits("forceShutdownTask")

\* The connection goes, or is gone, only as kDisconnected, or as what a late
\* ForceShutdown has made of that.
OverInv ==
  connects > 0 /\ (~registered \/ Waits("forceCloseTask") \/ Waits("closeTask"))
    => state = "disconnected" \/ (state = "disconnecting" /\ "ForceShutdown" \in asked /\ WillShut)

\* A shutdown is done, or its closure waits, or the end of a handleWrite waits
\* that will do it, or output waits and the selector for room to write it.
ShutdownIsComing ==
  state = "disconnecting" =>
    \/ WillShut \/ Waits("shutdownTask") \/ Waits("writeEnd")
    \/ registered /\ output # <<>> /\ "W" \in interest

\* A connection whose end has not been reported is on its way to OnClose, or
\* still in the selector, which waits, or will wait, for the peer's end; and
\* once it is kDisconnected the closure that ends it waits.
CloseIsComing ==
  connects > 0 /\ closes = 0 /\ ~Spoiled =>
    \/ Waits("handleRemove")
    \/ /\ registered
       /\ "R" \in interest \/ Waits("setReadable")
       /\ state = "disconnected" => Waits("forceCloseTask")

ComingInv == OverInv /\ ShutdownIsComing /\ CloseIsComing

\* What did waited and need not any longer, new waits now; nothing else changes.
Moves(did, new) ==
  /\ Waiting \ did \subseteq Waiting' /\ new \subseteq Waiting'
  /\ Waiting' \subseteq Waiting \cup new

LEMMA OnNone == On(<<>>) = {} /\ \A e : On(<<e>>) = {e}
BY DEF On

LEMMA OnAppend ==
  ASSUME NEW S, NEW s \in Seq(S), NEW e \in S
  PROVE  On(Append(s, e)) = On(s) \cup {e}
<1>1. /\ Len(Append(s, e)) = Len(s) + 1 /\ Len(s) \in Nat
      /\ \A i \in 1 .. Len(s) : Append(s, e)[i] = s[i]
      /\ Append(s, e)[Len(s) + 1] = e
  BY AppendProperties, LenProperties
<1> QED BY <1>1 DEF On

LEMMA OnHead ==
  ASSUME NEW S, NEW s \in Seq(S), s # <<>>
  PROVE  On(s) = {Head(s)} \cup On(Tail(s)) /\ Head(s) \in On(s)
<1>1. /\ Len(s) \in Nat \ {0} /\ Head(s) = s[1] /\ Len(Tail(s)) = Len(s) - 1
      /\ \A i \in 1 .. Len(s) - 1 : Tail(s)[i] = s[i + 1]
  BY EmptySeq, LenProperties, HeadTailProperties
<1>2. \A i \in 1 .. Len(s) : i = 1 \/ (i - 1 \in 1 .. Len(s) - 1 /\ s[i] = Tail(s)[i - 1])
  BY <1>1
<1>3. On(s) \subseteq {Head(s)} \cup On(Tail(s))
  BY <1>1, <1>2 DEF On
<1>4. On(Tail(s)) \subseteq On(s)
  <2> SUFFICES ASSUME NEW i \in 1 .. Len(s) - 1 PROVE Tail(s)[i] \in On(s)
    BY <1>1 DEF On
  <2>1. i + 1 \in 1 .. Len(s) /\ Tail(s)[i] = s[i + 1]
    BY <1>1
  <2> QED BY <2>1 DEF On
<1>5. Head(s) \in On(s)
  BY <1>1 DEF On
<1> QED BY <1>3, <1>4, <1>5

LEMMA OnConcat ==
  ASSUME NEW S, NEW r \in Seq(S), NEW s \in Seq(S)
  PROVE  On(r \o s) = On(r) \cup On(s)
<1>1. /\ Len(r) \in Nat /\ Len(s) \in Nat /\ Len(r \o s) = Len(r) + Len(s)
      /\ \A i \in 1 .. Len(r) + Len(s) :
           (r \o s)[i] = IF i <= Len(r) THEN r[i] ELSE s[i - Len(r)]
  BY ConcatProperties, LenProperties
<1>2. On(r \o s) \subseteq On(r) \cup On(s)
  <2> SUFFICES ASSUME NEW i \in 1 .. Len(r) + Len(s) PROVE (r \o s)[i] \in On(r) \cup On(s)
    BY <1>1 DEF On
  <2>1. CASE i <= Len(r)
    <3>1. i \in 1 .. Len(r) /\ (r \o s)[i] = r[i]
      BY <1>1, <2>1
    <3> QED BY <3>1 DEF On
  <2>2. CASE ~(i <= Len(r))
    <3>1. i - Len(r) \in 1 .. Len(s) /\ (r \o s)[i] = s[i - Len(r)]
      BY <1>1, <2>2
    <3> QED BY <3>1 DEF On
  <2> QED BY <2>1, <2>2
<1>3. On(r) \subseteq On(r \o s)
  <2> SUFFICES ASSUME NEW i \in 1 .. Len(r) PROVE r[i] \in On(r \o s)
    BY DEF On
  <2>1. i \in 1 .. Len(r \o s) /\ (r \o s)[i] = r[i]
    BY <1>1
  <2> QED BY <2>1 DEF On
<1>4. On(s) \subseteq On(r \o s)
  <2> SUFFICES ASSUME NEW i \in 1 .. Len(s) PROVE s[i] \in On(r \o s)
    BY DEF On
  <2>1. Len(r) + i \in 1 .. Len(r \o s) /\ (r \o s)[Len(r) + i] = s[i]
    BY <1>1
  <2> QED BY <2>1 DEF On
<1> QED BY <1>2, <1>3, <1>4

\* The loop thread does what is on top of its stack, and ops come in its place.
LEMMA LoopMoves ==
  ASSUME StackInv, stack[Loop] # <<>>, NEW ops \in Seq(Ops), Then(Loop, ops)
  PROVE  Head(stack[Loop]) \in Waiting /\ Moves({Head(stack[Loop])}, On(ops))
<1> DEFINE s == stack[Loop]
           head == Head(s)
           rest == Tail(s)
           queued == UNION {On(tasks[p]) : p \in Posters}
<1>1. stack'[Loop] = ops \o rest /\ UNCHANGED tasks
  BY ThreadSets DEF Then, StackInv
<1>2. s \in Seq(Ops) /\ s # <<>> /\ head \in Ops /\ rest \in Seq(Ops)
  <2>1. s \in Seq(Ops) /\ s # <<>>
    BY ThreadSets DEF StackInv
  <2> HIDE DEF s
  <2> QED BY <2>1, HeadTailProperties
<1>3. Waiting = On(s) \cup queued
  BY DEF Waiting
<1>4. Waiting' = On(ops \o rest) \cup queued
  BY <1>1 DEF Waiting
<1> HIDE DEF s, queued
<1>5. On(s) = {head} \cup On(rest) /\ head \in On(s)
  BY <1>2, OnHead
<1> HIDE DEF head, rest
<1>6. On(ops \o rest) = On(ops) \cup On(rest)
  BY <1>2, OnConcat
<1>7. head \in Waiting /\ Moves({head}, On(ops))
  BY <1>3, <1>4, <1>5, <1>6 DEF Moves
<1> QED BY <1>7 DEF head, s

\* One closure more in the queue, or one thing more on top of the loop's stack.
LEMMA QueueMoves ==
  ASSUME StackInv, NEW p \in Posters, NEW op \in Ops, stack'[Loop] = stack[Loop],
         tasks' = [tasks EXCEPT ![p] = Append(@, op)]
  PROVE  Moves({}, {op})
<1>1. \A q \in Posters : tasks'[q] = IF q = p THEN Append(tasks[p], op) ELSE tasks[q]
  BY DEF StackInv
<1>2. On(Append(tasks[p], op)) = On(tasks[p]) \cup {op}
  <2>1. tasks[p] \in Seq(Ops)
    BY DEF StackInv
  <2> QED BY <2>1, OnAppend
<1> DEFINE others == UNION {On(tasks[q]) : q \in Posters \ {p}}
<1>3. Waiting = On(stack[Loop]) \cup On(tasks[p]) \cup others
  BY DEF Waiting
<1>4. Waiting' = On(stack[Loop]) \cup On(Append(tasks[p], op)) \cup others
  <2>1. UNION {On(tasks'[q]) : q \in Posters} = On(Append(tasks[p], op)) \cup others
    BY <1>1
  <2>2. Waiting' = On(stack'[Loop]) \cup UNION {On(tasks'[q]) : q \in Posters}
    BY DEF Waiting
  <2> QED BY <2>1, <2>2
<1> HIDE DEF others
<1>5. Waiting' = Waiting \cup {op}
  BY <1>2, <1>3, <1>4
<1> QED BY <1>5 DEF Moves

LEMMA PushMoves ==
  ASSUME StackInv, NEW op \in Ops, stack'[Loop] = <<op>> \o stack[Loop], UNCHANGED tasks
  PROVE  Moves({}, {op})
<1>1. stack[Loop] \in Seq(Ops) /\ <<op>> \in Seq(Ops)
  BY ThreadSets DEF StackInv
<1>2. On(<<op>> \o stack[Loop]) = {op} \cup On(stack[Loop])
  <2> DEFINE one == <<op>>
             s == stack[Loop]
  <2>0. one \in Seq(Ops) /\ s \in Seq(Ops)
    BY <1>1
  <2> HIDE DEF one, s
  <2>2. On(one \o s) = On(one) \cup On(s)
    BY <2>0, OnConcat
  <2>1. On(<<op>> \o stack[Loop]) = On(<<op>>) \cup On(stack[Loop])
    BY <2>2 DEF one, s
  <2> QED BY <2>1, OnNone
<1> QED BY <1>2 DEF Moves, Waiting

LEMMA SameMoves ==
  ASSUME stack'[Loop] = stack[Loop], UNCHANGED tasks
  PROVE  Moves({}, {})
BY DEF Moves, Waiting

\* EventLoop::Run, from a call and as the last thing of an entry.
LEMMA RunMoves ==
  ASSUME StackInv, NEW t \in Threads, NEW op \in Ops, Run(t, op)
  PROVE  Moves({}, {op})
<1>1. CASE t = Loop
  <2>1. stack'[Loop] = <<op>> \o stack[Loop] /\ UNCHANGED tasks
    BY <1>1, ThreadSets DEF Run, StackInv
  <2> QED BY <2>1, PushMoves
<1>2. CASE t # Loop
  <2>1. t \in Posters /\ stack'[Loop] = stack[Loop] /\ tasks' = [tasks EXCEPT ![t] = Append(@, op)]
    BY <1>2, Zenon DEF Run, Threads, Posters
  <2> QED BY <2>1, QueueMoves
<1> QED BY <1>1, <1>2

LEMMA ThenRunMoves ==
  ASSUME StackInv, NEW t \in Threads, stack[t] # <<>>, NEW op \in Ops, ThenRun(t, op)
  PROVE  Moves({Head(stack[t])}, {op})
<1>1. CASE t = Loop
  <2>1. Then(Loop, <<op>>) /\ <<op>> \in Seq(Ops) /\ On(<<op>>) = {op}
    BY <1>1 DEF ThenRun, On
  <2>2. Moves({Head(stack[Loop])}, On(<<op>>))
    BY <1>1, <2>1, LoopMoves
  <2> QED BY <1>1, <2>1, <2>2
<1>2. CASE t # Loop
  <2>1. t \in Posters
    BY <1>2 DEF Threads, Posters
  <2>2. stack' = [stack EXCEPT ![t] = Tail(@)] /\ tasks' = [tasks EXCEPT ![t] = Append(@, op)]
    BY <1>2, Zenon DEF ThenRun
  <2>3. stack'[Loop] = stack[Loop]
    BY <1>2, <2>2, ThreadSets DEF StackInv
  <2>4. Moves({}, {op})
    BY <2>1, <2>2, <2>3, QueueMoves
  <2> QED BY <2>4 DEF Moves
<1> QED BY <1>1, <1>2

\* A closure goes from the queue to the empty stack of the loop.
LEMMA TaskMoves ==
  ASSUME StackInv, NEW p \in Posters, RunTask(p)
  PROVE  Moves({}, {})
<1> DEFINE q == tasks[p]
           others == UNION {On(tasks[o]) : o \in Posters \ {p}}
<1>1. q \in Seq(Ops) /\ q # <<>> /\ stack[Loop] = <<>>
  BY DEF StackInv, RunTask
<1>2. /\ stack'[Loop] = <<Head(q)>>
      /\ \A o \in Posters : tasks'[o] = IF o = p THEN Tail(q) ELSE tasks[o]
  BY ThreadSets DEF StackInv, RunTask
<1>3. Waiting = On(<<>>) \cup On(q) \cup others
  BY <1>1 DEF Waiting
<1>4. Waiting' = On(<<Head(q)>>) \cup On(Tail(q)) \cup others
  <2>1. UNION {On(tasks'[o]) : o \in Posters} = On(Tail(q)) \cup others
    BY <1>2
  <2>2. Waiting' = On(stack'[Loop]) \cup UNION {On(tasks'[o]) : o \in Posters}
    BY DEF Waiting
  <2> QED BY <1>2, <2>1, <2>2
<1> HIDE DEF q, others
<1>5. On(<<>>) = {} /\ On(<<Head(q)>>) = {Head(q)} /\ On(q) = {Head(q)} \cup On(Tail(q))
  BY <1>1, OnNone, OnHead
<1> QED BY <1>3, <1>4, <1>5 DEF Moves

\* What waits matters to ComingInv only if it is one of these.
Telling ==
  {<<"handleRemove">>, <<"setReadable">>, <<"closeTask">>, <<"forceCloseTask">>,
   <<"shutdownTask">>, <<"forceShutdownTask">>, <<"writeEnd">>}

LEMMA Untold ==
  \A op \in {"handler", "ForceClose", "storeDisconnected", "storeDisconnecting", "handleSend",
             "append", "start", "handleClose", "handleError", "handleRead", "handleWrite"} :
    \A e : e[1] = op => e \notin Telling
BY DEF Telling

\* A step that tells nothing of the end: nothing of Telling comes or goes but
\* the end of a handleWrite, the connection stays where it is, and no interest
\* is lost that matters.
LEMMA StillComing ==
  ASSUME ComingInv, NEW did, NEW new, Moves(did, new),
         did \cap Telling = {}, new \cap Telling \subseteq {<<"writeEnd">>},
         UNCHANGED <<state, registered, connects, closes, wrClosed, crashed>>,
         asked \subseteq asked',
         registered /\ "R" \in interest => "R" \in interest',
         registered /\ output # <<>> /\ "W" \in interest
           => (output' # <<>> /\ "W" \in interest') \/ <<"writeEnd">> \in new
  PROVE  ComingInv'
<1>1. \A op \in Telling : /\ op \in Waiting => op \in Waiting'
                          /\ op # <<"writeEnd">> => (op \in Waiting' <=> op \in Waiting)
  BY DEF Moves
<1>2. /\ Waits("handleRemove")' <=> Waits("handleRemove")
      /\ Waits("setReadable")' <=> Waits("setReadable")
      /\ Waits("closeTask")' <=> Waits("closeTask")
      /\ Waits("forceCloseTask")' <=> Waits("forceCloseTask")
      /\ Waits("shutdownTask")' <=> Waits("shutdownTask")
      /\ Waits("forceShutdownTask")' <=> Waits("forceShutdownTask")
      /\ Waits("writeEnd") => Waits("writeEnd")'
  BY <1>1 DEF Telling, Waits
<1>3. WillShut' <=> WillShut
  BY <1>2 DEF WillShut
<1>4. Spoiled => Spoiled'
  BY DEF Spoiled
<1>5. OverInv'
  BY <1>2, <1>3 DEF ComingInv, OverInv
<1>6. <<"writeEnd">> \in new => Waits("writeEnd")'
  BY DEF Moves, Waits
<1>7. ShutdownIsComing'
  BY <1>2, <1>3, <1>6 DEF ComingInv, ShutdownIsComing
<1>8. CloseIsComing'
  BY <1>2, <1>4 DEF ComingInv, CloseIsComing
<1> QED BY <1>5, <1>7, <1>8 DEF ComingInv

\* The loop takes the channel out of the selector: the callback waits.
LEMMA RemoveComes ==
  ASSUME LifeInv, ComingInv, NEW op, Top(Loop, op), op \in {"handleClose", "forceCloseTask", "closeTask"},
         Remove, UNCHANGED <<connects, closes, wrClosed, crashed, asked>>,
         \/ state' = "disconnected"
         \/ op # "handleClose" /\ UNCHANGED state
  PROVE  ComingInv'
<1> DEFINE head == Head(stack[Loop])
<1>1. StackInv /\ Started /\ stack[Loop] # <<>> /\ head \in Ops /\ head[1] = op
  BY OnlyStart DEF Top
<1>2. head = <<op>>
  BY <1>1 DEF Ops
<1>3. /\ head \in Waiting
      /\ registered => Moves({head}, {<<"handleRemove">>})
      /\ ~registered => Moves({head}, {})
  <2>1. CASE registered
    <3> DEFINE ops == <<<<"handleRemove">>>>
    <3>1. Then(Loop, ops) /\ ops \in Seq(Ops) /\ On(ops) = {<<"handleRemove">>}
      <4>1. <<"handleRemove">> \in Ops
        BY DEF Ops
      <4> QED BY <2>1, <4>1, OnNone DEF Remove
    <3> HIDE DEF ops
    <3> QED BY <1>1, <2>1, <3>1, LoopMoves
  <2>2. CASE ~registered
    <3>1. Then(Loop, <<>>) /\ <<>> \in Seq(Ops) /\ On(<<>>) = {}
      BY <2>2, OnNone DEF Remove
    <3>2. head \in Waiting /\ Moves({head}, On(<<>>))
      BY <1>1, <3>1, LoopMoves
    <3> QED BY <2>2, <3>1, <3>2
  <2> QED BY <2>1, <2>2
<1> HIDE DEF head
<1>4. /\ WillShut => WillShut'
      /\ Waits("handleRemove") => Waits("handleRemove")'
      /\ Waits("shutdownTask") => Waits("shutdownTask")'
      /\ Waits("writeEnd") => Waits("writeEnd")'
      /\ registered => Waits("handleRemove")'
  BY <1>2, <1>3 DEF Moves, Waits, WillShut
<1>5. op # "handleClose" => Waits("forceCloseTask") \/ Waits("closeTask")
  BY <1>2, <1>3 DEF Waits
<1>6. connects > 0
  BY <1>1 DEF Started
<1>7. state' = "disconnected" \/ (state' = "disconnecting" /\ "ForceShutdown" \in asked /\ WillShut')
  BY <1>4, <1>5, <1>6 DEF ComingInv, OverInv
<1>8. CloseIsComing'
  BY <1>4 DEF ComingInv, CloseIsComing, Spoiled
<1> QED BY <1>7, <1>8 DEF ComingInv, OverInv, ShutdownIsComing

\* The write side is shut, or the process ends in the attempt.
LEMMA ShutComes ==
  ASSUME LifeInv, EventInv, ComingInv, NEW did, NEW new, Moves(did, new), CloseWrite,
         did \cap Telling \subseteq {<<"shutdownTask">>, <<"forceShutdownTask">>, <<"writeEnd">>},
         new = {}, UNCHANGED <<state, registered, connects, closes, asked>>,
         registered /\ "R" \in interest => "R" \in interest'
  PROVE  ComingInv'
<1>1. WillShut'
  BY DEF CloseWrite, WillShut
<1>2. Spoiled => Spoiled'
  BY DEF CloseWrite, Spoiled
<1>3. \A op \in {"handleRemove", "setReadable", "forceCloseTask", "closeTask"} :
        Waits(op)' <=> Waits(op)
  <2>1. \A op \in {"handleRemove", "setReadable", "forceCloseTask", "closeTask"} :
          <<op>> \in Telling
            /\ <<op>> \notin {<<"shutdownTask">>, <<"forceShutdownTask">>, <<"writeEnd">>}
    BY DEF Telling
  <2> QED BY <2>1 DEF Moves, Waits
<1>4. OverInv'
  BY <1>1, <1>3 DEF ComingInv, OverInv, WillShut
<1>5. CloseIsComing'
  BY <1>2, <1>3 DEF ComingInv, CloseIsComing
<1> QED BY <1>1, <1>4, <1>5 DEF ComingInv, ShutdownIsComing

LEMMA CallComing ==
  ASSUME LifeInv, StreamInv, EventInv, ComingInv, NEW t \in Threads, Call(t)
  PROVE  ComingInv'
<1>1. StackInv /\ asked \subseteq asked'
  BY DEF LifeInv, Call, Send, SendOutput, Close, Shutdown, Swap, CallForceClose, ForceShutdown, Invoke
<1>2. ASSUME NEW op \in Ops, Run(t, op), op \notin Telling,
             UNCHANGED <<connVars, chanVars, sockVars, connects, closes>>
      PROVE  ComingInv'
  <2>1. Moves({}, {op})
    BY <1>1, <1>2, RunMoves
  <2> QED BY <1>1, <1>2, <2>1, StillComing DEF connVars, chanVars, sockVars
<1>3. CASE Send(t)
  <2>1. PICK n \in SendSizes : Run(t, <<"handleSend", n>>)
    BY <1>3 DEF Send
  <2>2. <<"handleSend", n>> \in Ops /\ <<"handleSend", n>> \notin Telling
    BY DEF Ops, Telling
  <2> QED BY <1>2, <1>3, <2>1, <2>2 DEF Send, Invoke
<1>4. CASE SendOutput(t)
  <2>1. output' # <<>>
    BY <1>4, SomethingWaits DEF SendOutput
  <2>2. <<"handleWrite">> \in Ops /\ <<"handleWrite">> \notin Telling
    BY DEF Ops, Telling
  <2>3. Moves({}, {<<"handleWrite">>})
    BY <1>1, <1>4, <2>2, RunMoves DEF SendOutput
  <2>4. /\ UNCHANGED <<state, registered, connects, closes, wrClosed, crashed>>
        /\ registered => interest' = events \cup {"W"} /\ interest = events
    BY <1>4 DEF SendOutput, Invoke, SetEvents, sockVars, EventInv
  <2> QED BY <1>1, <2>1, <2>2, <2>3, <2>4, StillComing
<1>5. CASE (Close(t) \/ Shutdown(t)) /\ state # "connected"
  <2>1. UNCHANGED <<connVars, chanVars, sockVars, connects, closes, stack, tasks>>
    BY <1>5 DEF Close, Shutdown, Swap, Invoke, connVars, execVars
  <2>2. Moves({}, {})
    BY <2>1, SameMoves
  <2> QED BY <1>1, <2>1, <2>2, StillComing DEF connVars, chanVars, sockVars
<1>6. CASE Close(t) /\ state = "connected"
  <2>1. /\ state' = "disconnected" /\ "Close" \in asked' /\ Run(t, <<"closeTask">>)
    BY <1>6 DEF Close, Swap, Invoke
  <2> QED BY <2>1 DEF ComingInv, OverInv, ShutdownIsComing, CloseIsComing, Spoiled
<1>7. CASE Shutdown(t) /\ state = "connected"
  <2>1. /\ state' = "disconnecting" /\ Run(t, <<"shutdownTask">>)
        /\ UNCHANGED <<output, chanVars, sockVars, connects, closes>>
    BY <1>7 DEF Shutdown, Swap, Invoke
  <2>2. <<"shutdownTask">> \in Ops
    BY DEF Ops
  <2>3. Moves({}, {<<"shutdownTask">>})
    BY <1>1, <2>1, <2>2, RunMoves
  <2>4. /\ Waits("shutdownTask")'
        /\ Waits("handleRemove") => Waits("handleRemove")'
        /\ Waits("setReadable") => Waits("setReadable")'
        /\ Waits("forceCloseTask")' => Waits("forceCloseTask")
        /\ Waits("closeTask")' => Waits("closeTask")
    BY <2>3 DEF Moves, Waits
  <2>5. connects > 0 => registered /\ ~Waits("forceCloseTask") /\ ~Waits("closeTask")
    BY <1>7 DEF ComingInv, OverInv
  <2>6. OverInv'
    BY <2>1, <2>4, <2>5 DEF OverInv, chanVars
  <2>7. ShutdownIsComing'
    BY <2>4 DEF ShutdownIsComing
  <2>8. Spoiled => Spoiled'
    BY <1>1, <2>1 DEF Spoiled, sockVars
  <2>9. CloseIsComing'
    BY <2>1, <2>4, <2>8 DEF CloseIsComing, ComingInv, chanVars
  <2> QED BY <2>6, <2>7, <2>9 DEF ComingInv
<1>8. CASE CallForceClose(t) \/ ForceShutdown(t)
  <2>1. PICK op \in {"ForceClose", "storeDisconnecting"} :
          stack' = stack \/ stack' = [stack EXCEPT ![t] = <<<<op>>>> \o @]
    BY <1>8, Zenon DEF CallForceClose, ForceShutdown
  <2>2. UNCHANGED <<tasks, connVars, chanVars, sockVars, connects, closes>>
    BY <1>8 DEF CallForceClose, ForceShutdown, Invoke
  <2>3. <<op>> \in Ops /\ <<op>> \notin Telling
    BY DEF Ops, Telling
  <2>4. Moves({}, {<<op>>}) \/ Moves({}, {})
    <3>1. CASE t = Loop /\ stack' # stack
      <4>1. stack'[Loop] = <<<<op>>>> \o stack[Loop]
        BY <1>1, <2>1, <3>1, ThreadSets DEF StackInv
      <4> QED BY <1>1, <2>2, <2>3, <4>1, PushMoves
    <3>2. CASE ~(t = Loop /\ stack' # stack)
      <4>1. stack'[Loop] = stack[Loop]
        BY <1>1, <2>1, <3>2, ThreadSets DEF StackInv
      <4> QED BY <2>2, <4>1, SameMoves
    <3> QED BY <3>1, <3>2
  <2>5. UNCHANGED <<state, output, registered, interest, connects, closes, wrClosed, crashed>>
    BY <2>2 DEF connVars, chanVars, sockVars
  <2>6. CASE Moves({}, {<<op>>})
    BY <1>1, <2>3, <2>5, <2>6, StillComing
  <2>7. CASE Moves({}, {})
    BY <1>1, <2>5, <2>7, StillComing
  <2> QED BY <2>4, <2>6, <2>7
<1> QED BY <1>3, <1>4, <1>5, <1>6, <1>7, <1>8 DEF Call

\* A step of ForceClose or a store to state_, on any thread.
LEMMA UserComing ==
  ASSUME LifeInv, StoreInv, EventInv, ComingInv, NEW t \in Threads, ForceClose(t) \/ Store(t)
  PROVE  ComingInv'
<1>1. /\ stack[t] # <<>> /\ StackInv /\ stack[t] \in Seq(Ops) /\ Head(stack[t]) \in Ops
      /\ UNCHANGED <<output, accepted, chanVars, sockVars, histVars>>
  <2>1. stack[t] # <<>> /\ StackInv /\ stack[t] \in Seq(Ops)
    BY DEF ForceClose, Store, Top, LifeInv, StackInv
  <2> QED BY <2>1, HeadTailProperties DEF ForceClose, Store, connVars
<1>2. UNCHANGED <<output, registered, interest, wrClosed, crashed, asked, connects, closes>>
  BY <1>1 DEF chanVars, sockVars, histVars
<1>3. CASE ForceClose(t)
  <2>1. UNCHANGED state /\ Head(stack[t]) = <<"ForceClose">>
    BY <1>1, <1>3 DEF ForceClose, connVars, Top, Ops
  <2>2. PICK ops \in {<<>>, <<<<"storeDisconnected">>>>} : Then(t, ops)
    BY <1>3 DEF ForceClose
  <2>3. /\ ops \in Seq(Ops) /\ On(ops) \cap Telling = {}
    <3>1. <<"storeDisconnected">> \in Ops /\ <<"storeDisconnected">> \notin Telling
      BY DEF Ops, Telling
    <3>2. <<<<"storeDisconnected">>>> \in Seq(Ops) /\ <<>> \in Seq(Ops)
      BY <3>1
    <3>3. On(<<<<"storeDisconnected">>>>) = {<<"storeDisconnected">>} /\ On(<<>>) = {}
      BY OnNone, Zenon
    <3> QED BY <2>2, <3>1, <3>2, <3>3
  <2>4. CASE t = Loop
    <3>1. Moves({Head(stack[Loop])}, On(ops))
      BY <1>1, <2>2, <2>3, <2>4, LoopMoves
    <3>2. {Head(stack[Loop])} \cap Telling = {}
      BY <2>1, <2>4, Untold
    <3> QED BY <1>2, <2>1, <2>3, <3>1, <3>2, StillComing
  <2>5. CASE t # Loop
    <3>1. stack'[Loop] = stack[Loop] /\ UNCHANGED tasks
      BY <1>1, <2>2, <2>5, ThreadSets DEF Then, StackInv
    <3>2. Moves({}, {})
      BY <3>1, SameMoves
    <3> QED BY <1>2, <2>1, <3>2, StillComing
  <2> QED BY <2>4, <2>5
<1>4. CASE Store(t) /\ Top(t, "storeDisconnected")
  <2>1. state' = "disconnected" /\ ThenRun(t, <<"forceCloseTask">>)
    BY <1>4 DEF Store, Top
  <2>2. Head(stack[t]) = <<"storeDisconnected">> /\ <<"forceCloseTask">> \in Ops
    BY <1>1, <1>4 DEF Top, Ops
  <2>3. Moves({<<"storeDisconnected">>}, {<<"forceCloseTask">>})
    BY <1>1, <2>1, <2>2, ThenRunMoves
  <2>4. /\ Waits("forceCloseTask")'
        /\ Waits("handleRemove") => Waits("handleRemove")'
        /\ Waits("setReadable") => Waits("setReadable")'
    BY <2>3 DEF Moves, Waits
  <2>5. Spoiled => Spoiled'
    BY <1>2 DEF Spoiled
  <2> QED BY <1>2, <2>1, <2>4, <2>5 DEF ComingInv, OverInv, ShutdownIsComing, CloseIsComing
<1>5. CASE Store(t) /\ Top(t, "storeDisconnecting")
  <2>1. state' = "disconnecting" /\ ThenRun(t, <<"forceShutdownTask">>)
    BY <1>5 DEF Store, Top
  <2>2. Head(stack[t]) = <<"storeDisconnecting">> /\ <<"forceShutdownTask">> \in Ops
    BY <1>1, <1>5 DEF Top, Ops
  <2>3. "ForceShutdown" \in asked
    <3>1. SUFFICES ASSUME "ForceShutdown" \notin asked PROVE FALSE
      OBVIOUS
    <3>2. stack[t] \in Seq(Calm)
      BY <3>1 DEF StoreInv
    <3>3. Head(stack[t]) \in Calm
      BY <1>1, <3>2, HeadTailProperties
    <3> QED BY <2>2, <3>3 DEF Calm
  <2>4. Moves({<<"storeDisconnecting">>}, {<<"forceShutdownTask">>})
    BY <1>1, <2>1, <2>2, ThenRunMoves
  <2>5. WillShut'
    BY <2>4 DEF Moves, Waits, WillShut
  <2> QED BY <1>2, <2>1, <2>3, <2>5
          DEF ComingInv, OverInv, ShutdownIsComing, CloseIsComing, Spoiled
<1> QED BY <1>3, <1>4, <1>5 DEF Store

LEMMA LoopComing ==
  ASSUME LifeInv, StreamInv, StoreInv, EventInv, ComingInv, LoopStep
  PROVE  ComingInv'
<1> DEFINE head == Head(stack[Loop])
<1> USE DEF connVars, chanVars, sockVars, histVars
\* An entry of the loop that tells nothing, before or after.
<1>1. ASSUME NEW op, Top(Loop, op), op # "start",
             \A e : e[1] = op => e \notin Telling,
             NEW ops \in Seq(Ops), On(ops) \cap Telling \subseteq {<<"writeEnd">>}, Then(Loop, ops),
             UNCHANGED <<state, registered, connects, closes, wrClosed, crashed, asked>>,
             registered /\ "R" \in interest => "R" \in interest',
             registered /\ output # <<>> /\ "W" \in interest
               => (output' # <<>> /\ "W" \in interest') \/ <<"writeEnd">> \in On(ops)
      PROVE  ComingInv'
  <2>1. StackInv /\ stack[Loop] # <<>> /\ head[1] = op
    BY <1>1, OnlyStart DEF Top
  <2>2. Moves({head}, On(ops)) /\ {head} \cap Telling = {}
    BY <1>1, <2>1, LoopMoves
  <2> HIDE DEF head
  <2> QED BY <1>1, <2>2, StillComing
<1> DEFINE One(op) == <<<<op>>>>
<1>2. /\ <<>> \in Seq(Ops) /\ On(<<>>) \cap Telling = {}
      /\ \A op \in {"handler", "handleClose", "ForceClose"} :
           One(op) \in Seq(Ops) /\ On(One(op)) \cap Telling = {}
      /\ <<Handler>> = One("handler")
  <2>1. \A op \in {"handler", "handleClose", "ForceClose"} : <<op>> \in Ops /\ <<op>> \notin Telling
    BY DEF Ops, Telling
  <2>2. ASSUME NEW op \in {"handler", "handleClose", "ForceClose"}
        PROVE  One(op) \in Seq(Ops) /\ On(One(op)) \cap Telling = {}
    <3>1. On(<<<<op>>>>) = {<<op>>}
      BY OnNone, Zenon
    <3>2. <<op>> \in Ops /\ <<op>> \notin Telling
      BY <2>1
    <3> QED BY <3>1, <3>2
  <2> QED BY <2>2, OnNone DEF Handler
<1>3. CASE ForceClose(Loop) \/ Store(Loop)
  BY <1>3, ThreadSets, UserComing
<1>4. ASSUME NEW p \in Posters, RunTask(p) PROVE ComingInv'
  <2>1. Moves({}, {})
    BY <1>4, TaskMoves DEF LifeInv
  <2> QED BY <1>4, <2>1, StillComing DEF RunTask
<1>5. CASE HandleEvents
  <2> DEFINE If(cond, op) == IF cond THEN <<<<op>>>> ELSE <<>>
             found == If(HangUp /\ ~Readable, "handleClose") \o If(soerr, "handleError")
                        \o If(Readable, "handleRead") \o If(Writable, "handleWrite")
             Mute == Ops \ Telling
  <2>1. \A op \in {"handleClose", "handleError", "handleRead", "handleWrite"} : <<op>> \in Mute
    BY DEF Ops, Telling
  <2>2. /\ If(HangUp /\ ~Readable, "handleClose") \in Seq(Mute)
        /\ If(soerr, "handleError") \in Seq(Mute)
        /\ If(Readable, "handleRead") \in Seq(Mute)
        /\ If(Writable, "handleWrite") \in Seq(Mute)
    <3> HIDE DEF Mute
    <3>1. /\ <<"handleClose">> \in Mute /\ <<"handleError">> \in Mute
          /\ <<"handleRead">> \in Mute /\ <<"handleWrite">> \in Mute
      BY <2>1
    <3> QED BY <3>1
  <2>4. found \in Seq(Mute)
    <3> HIDE DEF If, Mute
    <3> QED BY <2>2, ConcatProperties
  <2>5. stack'[Loop] = found /\ UNCHANGED tasks /\ stack[Loop] = <<>>
    BY <1>5, ThreadSets DEF HandleEvents, LifeInv, StackInv
  <2> HIDE DEF found
  <2>6. Moves({}, On(found))
    BY <2>5, OnNone DEF Moves, Waiting
  <2>7. On(found) \cap Telling = {}
    <3>1. \A i \in 1 .. Len(found) : found[i] \in Mute
      BY <2>4, ElementOfSeq
    <3> QED BY <3>1 DEF On
  <2> QED BY <1>5, <2>6, <2>7, StillComing DEF HandleEvents
<1>6. CASE HandlerReturns
  BY <1>1, <1>2, <1>6, Untold DEF HandlerReturns
<1>7. CASE HandleRead
  <2>1. PICK ops \in {<<>>, <<Handler>>, One("handleClose")} : Then(Loop, ops)
    BY <1>7 DEF HandleRead
  <2>2. ops \in Seq(Ops) /\ On(ops) \cap Telling = {}
    <3> HIDE DEF One
    <3> QED BY <1>2, <2>1
  <2> QED BY <1>1, <1>7, <2>1, <2>2, Untold DEF HandleRead
<1>8. CASE HandleError
  <2>1. PICK ops \in {<<Handler>>, One("ForceClose")} : Then(Loop, ops)
    BY <1>8 DEF HandleError
  <2>2. ops \in Seq(Ops) /\ On(ops) \cap Telling = {}
    <3> HIDE DEF One
    <3> QED BY <1>2, <2>1
  <2> QED BY <1>1, <1>8, <2>1, <2>2, Untold DEF HandleError
<1>9. CASE HandleSend
  <2> DEFINE n == head[2]
  <2>1. n \in SendSizes
    BY <1>9, OnlyStart, OpKinds DEF HandleSend, Top
  <2>2. PICK ops \in {<<>>, <<<<"ForceClose">>, <<"append", n>>>>} : Then(Loop, ops)
    BY <1>9 DEF HandleSend
  <2> HIDE DEF n
  <2>3. ops \in Seq(Ops) /\ On(ops) \cap Telling = {}
    <3>1. <<"ForceClose">> \in Ops \ Telling /\ <<"append", n>> \in Ops \ Telling
      BY <2>1 DEF Ops, Telling
    <3>2. ops \in Seq(Ops \ Telling)
      <4> DEFINE Mute == Ops \ Telling
      <4>1. <<"ForceClose">> \in Mute /\ <<"append", n>> \in Mute
        BY <3>1
      <4> HIDE DEF Mute
      <4>2. <<>> \in Seq(Mute) /\ <<<<"ForceClose">>, <<"append", n>>>> \in Seq(Mute)
        BY <4>1
      <4>3. ops \in Seq(Mute)
        BY <2>2, <4>2, Zenon
      <4> QED BY <4>3 DEF Mute
    <3>3. \A i \in 1 .. Len(ops) : ops[i] \in Ops \ Telling
      BY <3>2, ElementOfSeq
    <3>4. ops \in Seq(Ops)
      BY <3>2, SeqMonotonic
    <3> QED BY <3>3, <3>4 DEF On
  <2>4. /\ Top(Loop, "handleSend")
        /\ UNCHANGED <<state, registered, connects, closes, wrClosed, crashed, asked>>
    BY <1>9 DEF HandleSend, SetEvents
  <2>5. registered /\ "R" \in interest => "R" \in interest'
    BY <1>9 DEF HandleSend, SetEvents, EventInv
  <2>6. CASE registered /\ output # <<>> /\ "W" \in interest => output' # <<>> /\ "W" \in interest'
    BY <1>1, <2>2, <2>3, <2>4, <2>5, <2>6, Untold
  <2>7. CASE output # <<>> /\ output' = output \o Bytes(head[2]) /\ SetEvents(events \cup {"W"})
    <3>1. output' # <<>>
      BY <2>1, <2>7, SomethingWaits DEF n
    <3>2. registered => "W" \in interest'
      BY <2>7 DEF SetEvents, EventInv
    <3> QED BY <2>6, <3>1, <3>2
  <2>8. CASE output = <<>> \/ UNCHANGED <<output, chanVars>>
    BY <2>6, <2>8
  <2> QED BY <1>9, <2>7, <2>8 DEF HandleSend
<1>10. CASE AppendUnsent
  <2>1. head[2] \in SendSizes
    BY <1>10, OnlyStart, OpKinds DEF AppendUnsent, Top
  <2>2. output' # <<>>
    BY <1>10, <2>1, SomethingWaits DEF AppendUnsent
  <2>3. /\ Top(Loop, "append") /\ Then(Loop, <<>>)
        /\ UNCHANGED <<state, registered, connects, closes, wrClosed, crashed, asked>>
    BY <1>10 DEF AppendUnsent, SetEvents
  <2>4. /\ registered /\ "R" \in interest => "R" \in interest'
        /\ registered => "W" \in interest'
    BY <1>10 DEF AppendUnsent, SetEvents, EventInv
  <2> QED BY <1>1, <1>2, <2>2, <2>3, <2>4, Untold
<1>11. CASE HandleWrite
  <2>1. /\ Top(Loop, "handleWrite")
        /\ UNCHANGED <<state, registered, connects, closes, wrClosed, crashed, asked>>
    BY <1>11 DEF HandleWrite, SetEvents
  <2>2. registered /\ "R" \in interest => "R" \in interest'
    BY <1>11 DEF HandleWrite, SetEvents, EventInv
  <2>3. CASE UNCHANGED <<output, chanVars>> /\ (Then(Loop, <<>>) \/ Then(Loop, One("ForceClose")))
    <3>1. PICK ops \in {<<>>, One("ForceClose")} : Then(Loop, ops)
      BY <2>3
    <3>2. ops \in Seq(Ops) /\ On(ops) \cap Telling = {}
      <4> HIDE DEF One
      <4> QED BY <1>2, <3>1
    <3> QED BY <1>1, <2>1, <2>2, <2>3, <3>1, <3>2, Untold
  <2>4. CASE output' # <<>> /\ UNCHANGED chanVars /\ Then(Loop, <<>>)
    BY <1>1, <1>2, <2>1, <2>2, <2>4, Untold
  <2>5. CASE Then(Loop, <<Handler, <<"writeEnd">>>>)
    <3> DEFINE ops == <<Handler, <<"writeEnd">>>>
    <3>1. Handler \in Ops \ Telling /\ <<"writeEnd">> \in Ops
      BY DEF Handler, Ops, Telling
    <3>2. ops \in Seq(Ops) /\ On(ops) = {Handler, <<"writeEnd">>}
      BY <3>1 DEF On
    <3>3. Then(Loop, ops)
      BY <2>5
    <3> HIDE DEF ops
    <3>4. On(ops) \cap Telling \subseteq {<<"writeEnd">>} /\ <<"writeEnd">> \in On(ops)
      BY <3>1, <3>2
    <3> QED BY <1>1, <2>1, <2>2, <3>2, <3>3, <3>4, Untold
  <2> QED BY <1>11, <2>3, <2>4, <2>5 DEF HandleWrite
<1>12. ASSUME NEW op, Top(Loop, op), op \in {"writeEnd", "shutdownTask", "forceShutdownTask"},
              Then(Loop, <<>>), CloseWrite,
              UNCHANGED <<state, registered, connects, closes, asked>>,
              registered /\ "R" \in interest => "R" \in interest'
       PROVE  ComingInv'
  <2>1. StackInv /\ stack[Loop] # <<>> /\ head \in Ops /\ head[1] = op
    BY <1>12, OnlyStart DEF Top
  <2>2. head = <<op>>
    BY <1>12, <2>1 DEF Ops
  <2>3. Moves({head}, On(<<>>)) /\ On(<<>>) = {}
    BY <1>2, <1>12, <2>1, LoopMoves, OnNone
  <2>4. {head} \cap Telling \subseteq {<<"shutdownTask">>, <<"forceShutdownTask">>, <<"writeEnd">>}
    BY <1>12, <2>2
  <2> HIDE DEF head
  <2> QED BY <1>12, <2>3, <2>4, ShutComes
\* An entry that has done what it waited for.
<1>13. ASSUME NEW op, Top(Loop, op), op \in {"writeEnd", "setReadable", "closeTask", "shutdownTask"},
              Then(Loop, <<>>)
       PROVE  /\ Moves({<<op>>}, {}) /\ Started
              /\ Waits(op)
              /\ WillShut /\ UNCHANGED <<wrClosed, crashed>> => WillShut'
  <2>1. StackInv /\ Started /\ stack[Loop] # <<>> /\ head \in Ops /\ head[1] = op
    BY <1>13, OnlyStart DEF Top
  <2>2. head = <<op>>
    BY <1>13, <2>1 DEF Ops
  <2>3. head \in Waiting /\ Moves({head}, On(<<>>)) /\ On(<<>>) = {}
    BY <1>2, <1>13, <2>1, LoopMoves, OnNone
  <2>4. Moves({<<op>>}, {})
    BY <2>2, <2>3
  <2> QED BY <1>13, <2>1, <2>2, <2>3, <2>4 DEF Waits, WillShut, Moves
<1>14. CASE WriteEnd
  <2>1. CASE state = "disconnecting"
    BY <1>12, <1>14, <2>1 DEF WriteEnd
  <2>2. CASE state # "disconnecting"
    <3>1. Moves({<<"writeEnd">>}, {})
      BY <1>13, <1>14 DEF WriteEnd
    <3>2. UNCHANGED <<state, registered, interest, connects, closes, wrClosed, crashed, asked>>
      BY <1>14, <2>2 DEF WriteEnd
    <3>3. /\ Waits("handleRemove")' <=> Waits("handleRemove")
          /\ Waits("setReadable")' <=> Waits("setReadable")
          /\ Waits("closeTask")' <=> Waits("closeTask")
          /\ Waits("forceCloseTask")' <=> Waits("forceCloseTask")
          /\ Waits("forceShutdownTask")' <=> Waits("forceShutdownTask")
      BY <3>1 DEF Moves, Waits
    <3> QED BY <2>2, <3>2, <3>3
            DEF ComingInv, OverInv, ShutdownIsComing, CloseIsComing, WillShut, Spoiled
  <2> QED BY <2>1, <2>2
<1>15. CASE SetReadable
  <2>1. Moves({<<"setReadable">>}, {})
    BY <1>13, <1>15 DEF SetReadable
  <2>2. /\ UNCHANGED <<state, output, registered, connects, closes, wrClosed, crashed, asked>>
        /\ registered => "R" \in interest'
        /\ registered /\ "W" \in interest => "W" \in interest'
    BY <1>15 DEF SetReadable, SetEvents, EventInv
  <2>3. /\ Waits("handleRemove")' <=> Waits("handleRemove")
        /\ Waits("closeTask")' <=> Waits("closeTask")
        /\ Waits("forceCloseTask")' <=> Waits("forceCloseTask")
        /\ Waits("shutdownTask")' <=> Waits("shutdownTask")
        /\ Waits("forceShutdownTask")' <=> Waits("forceShutdownTask")
        /\ Waits("writeEnd")' <=> Waits("writeEnd")
    BY <2>1 DEF Moves, Waits
  <2> QED BY <2>2, <2>3
          DEF ComingInv, OverInv, ShutdownIsComing, CloseIsComing, WillShut, Spoiled
<1>16. CASE HandleClose
  <2>1. CASE state = "disconnected"
    <3>1. /\ Top(Loop, "handleClose") /\ Then(Loop, <<>>)
          /\ UNCHANGED <<state, output, registered, interest, connects, closes, wrClosed, crashed, asked>>
      BY <1>16, <2>1 DEF HandleClose
    <3> QED BY <1>1, <1>2, <3>1, Untold
  <2>2. CASE state # "disconnected"
    BY <1>16, <2>2, RemoveComes DEF HandleClose
  <2> QED BY <2>1, <2>2
<1>17. CASE CloseTask
  <2>1. CASE Remove
    BY <1>17, <2>1, RemoveComes DEF CloseTask
  <2>2. CASE Top(Loop, "closeTask") /\ Then(Loop, <<>>) /\ UNCHANGED chanVars
    <3>1. Moves({<<"closeTask">>}, {})
      BY <1>13, <2>2
    <3>2. UNCHANGED <<state, output, registered, interest, connects, closes, wrClosed, crashed, asked>>
      BY <1>17, <2>2 DEF CloseTask
    <3>3. /\ Waits("handleRemove")' <=> Waits("handleRemove")
          /\ Waits("setReadable")' <=> Waits("setReadable")
          /\ Waits("closeTask")' => Waits("closeTask")
          /\ Waits("forceCloseTask")' <=> Waits("forceCloseTask")
          /\ Waits("shutdownTask")' <=> Waits("shutdownTask")
          /\ Waits("forceShutdownTask")' <=> Waits("forceShutdownTask")
          /\ Waits("writeEnd")' <=> Waits("writeEnd")
      BY <3>1 DEF Moves, Waits
    <3> QED BY <3>2, <3>3
            DEF ComingInv, OverInv, ShutdownIsComing, CloseIsComing, WillShut, Spoiled
  <2> QED BY <1>17, <2>1, <2>2 DEF CloseTask
<1>18. CASE ShutdownTask
  <2>1. CASE SetEvents(events \ {"W"}) /\ CloseWrite
    <3>1. registered /\ "R" \in interest => "R" \in interest'
      BY <2>1 DEF SetEvents, EventInv
    <3>2. PICK op \in {"shutdownTask", "forceShutdownTask"} : Top(Loop, op)
      BY <1>18 DEF ShutdownTask
    <3>3. Then(Loop, <<>>) /\ UNCHANGED <<state, registered, connects, closes, asked>>
      BY <1>18, <2>1 DEF ShutdownTask, SetEvents
    <3> QED BY <1>12, <2>1, <3>1, <3>2, <3>3
  <2>2. CASE Top(Loop, "shutdownTask") /\ output # <<>> /\ UNCHANGED <<chanVars, sockVars>>
    <3>1. Moves({<<"shutdownTask">>}, {}) /\ Started /\ (WillShut => WillShut')
      BY <1>13, <1>18, <2>2 DEF ShutdownTask
    <3>2. UNCHANGED <<state, output, registered, interest, connects, closes, wrClosed, crashed, asked>>
      BY <1>18, <2>2 DEF ShutdownTask
    <3>3. /\ Waits("handleRemove")' <=> Waits("handleRemove")
          /\ Waits("setReadable")' <=> Waits("setReadable")
          /\ Waits("closeTask")' <=> Waits("closeTask")
          /\ Waits("forceCloseTask")' <=> Waits("forceCloseTask")
      BY <3>1 DEF Moves, Waits
    <3>4. state = "disconnecting" => WillShut \/ (registered /\ output # <<>> /\ "W" \in interest)
      BY <2>2, <3>1 DEF ComingInv, OverInv, EventInv, WillShut, Started
    <3> QED BY <3>1, <3>2, <3>3, <3>4
            DEF ComingInv, OverInv, ShutdownIsComing, CloseIsComing, Spoiled
  <2> QED BY <1>18, <2>1, <2>2 DEF ShutdownTask
<1>19. CASE HandleRemove
  <2>1. /\ StackInv /\ Started /\ RemoveInv /\ stack[Loop] # <<>> /\ head \in Ops
        /\ head[1] = "handleRemove"
    BY <1>19, OnlyStart DEF HandleRemove, Top
  <2>2. head = <<"handleRemove">> /\ ~registered /\ connects > 0
    BY <2>1, OpKinds DEF RemoveInv, OnTop, Started
  <2>3. PICK ops \in {<<>>, <<Handler>>} : Then(Loop, ops)
    BY <1>19 DEF HandleRemove
  <2>4. ops \in Seq(Ops) /\ On(ops) \cap Telling = {}
    <3> HIDE DEF One
    <3> QED BY <1>2, <2>3
  <2>5. Moves({<<"handleRemove">>}, On(ops))
    BY <2>1, <2>2, <2>3, <2>4, LoopMoves
  <2>6. UNCHANGED <<state, output, registered, interest, connects, wrClosed, crashed, asked>>
    BY <1>19 DEF HandleRemove
  <2>7. \A op \in {"setReadable", "closeTask", "forceCloseTask", "shutdownTask",
                   "forceShutdownTask", "writeEnd"} : Waits(op)' <=> Waits(op)
    <3>1. \A op \in {"setReadable", "closeTask", "forceCloseTask", "shutdownTask",
                     "forceShutdownTask", "writeEnd"} :
            <<op>> \in Telling /\ <<op>> # <<"handleRemove">>
      BY DEF Telling
    <3> QED BY <2>4, <2>5, <3>1 DEF Moves, Waits
  <2>8. OverInv' /\ ShutdownIsComing'
    BY <2>6, <2>7 DEF ComingInv, OverInv, ShutdownIsComing, WillShut
  <2>9. ~Spoiled' => closes' = closes + 1
    BY <1>19, <2>2, <2>6 DEF ComingInv, OverInv, HandleRemove, Spoiled
  <2>10. CloseIsComing'
    BY <2>1, <2>9 DEF CloseIsComing, RemoveInv
  <2> QED BY <2>8, <2>10 DEF ComingInv
<1>20. CASE Start
  <2>1. stack[Loop] # <<>> /\ StackInv /\ stack[Loop] \in Seq(Ops) /\ head[1] = "start"
    BY <1>20, ThreadSets DEF Start, Top, LifeInv, StackInv
  <2>2. head = <<"start">>
    BY <2>1, OpKinds, HeadTailProperties
  <2>3. Fresh
    BY <2>1, <2>2 DEF LifeInv, Started, OnTop
  <2>4. Waiting = {<<"start">>}
    <3>1. stack[Loop] = <<<<"start">>>> /\ \A p \in Posters : tasks[p] = <<>>
      BY <2>1, <2>3 DEF Fresh, Posters
    <3>2. On(stack[Loop]) = {<<"start">>} /\ \A p \in Posters : On(tasks[p]) = {}
      BY <3>1, OnNone
    <3> QED BY <3>2 DEF Waiting
  <2> DEFINE ops == <<Handler, <<"setReadable">>>>
  <2>5. ops \in Seq(Ops) /\ On(ops) = {Handler, <<"setReadable">>}
    <3>1. Handler \in Ops /\ <<"setReadable">> \in Ops
      BY DEF Handler, Ops
    <3> QED BY <3>1 DEF On
  <2>6. Then(Loop, ops) /\ state' = "connected" /\ registered'
    BY <1>20, <2>3 DEF Start, Fresh
  <2> HIDE DEF ops
  <2>7. Moves({head}, On(ops))
    BY <2>1, <2>5, <2>6, LoopMoves
  <2>8. Waits("setReadable")' /\ ~Waits("forceCloseTask")' /\ ~Waits("closeTask")'
    BY <2>4, <2>5, <2>7 DEF Moves, Waits, Handler
  <2> QED BY <2>6, <2>8 DEF ComingInv, OverInv, ShutdownIsComing, CloseIsComing
<1> QED BY <1>3, <1>4, <1>5, <1>6, <1>7, <1>8, <1>9, <1>10, <1>11, <1>14, <1>15, <1>16, <1>17,
           <1>18, <1>19, <1>20 DEF LoopStep

LEMMA ComingStep ==
  ASSUME LifeInv, StreamInv, StoreInv, EventInv, ComingInv, [Next]_vars
  PROVE  ComingInv'
<1>1. CASE Peer \/ UNCHANGED vars
  <2>1. UNCHANGED <<state, output, registered, interest, connects, closes, wrClosed, crashed, asked,
                    stack, tasks>>
    BY <1>1 DEF Peer, PeerSends, PeerDrains, PeerCloses, PeerResets,
                vars, connVars, chanVars, sockVars, execVars, histVars
  <2>2. Moves({}, {})
    BY <2>1, SameMoves
  <2> QED BY <2>1, <2>2, StillComing
<1> QED BY <1>1, ThreadSets, CallComing, UserComing, LoopComing DEF Next, UserStep

LEMMA InitComing == Init => ComingInv
BY DEF Init, ComingInv, OverInv, ShutdownIsComing, CloseIsComing

\* What ShutdownCompletes, DisconnectedIsReported and PeerCloseIsNoticed rest
\* on: as long as the write side is open, or OnClose to be called, the closure,
\* the callback or the interest of the selector that brings it is there.
THEOREM EndIsComing == Spec => [](OverInv /\ ShutdownIsComing /\ CloseIsComing)
<1>1. Init => StoreInv
  <2>1. <<>> \in Seq(Calm)
    OBVIOUS
  <2> QED BY <2>1 DEF Init, StoreInv
<1>2. LifeInv /\ StoreInv /\ [Next]_vars => StoreInv'
  BY StoreStep
<1>3. LifeInv /\ StreamInv /\ EventInv /\ StoreInv /\ ComingInv /\ [Next]_vars => ComingInv'
  BY ComingStep
<1>4. ComingInv => OverInv /\ ShutdownIsComing /\ CloseIsComing
  BY DEF ComingInv
<1> QED BY <1>1, <1>2, <1>3, <1>4, InitComing, Invariant, PTL DEF Spec
=============================================================================

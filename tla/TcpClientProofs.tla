---------------------------- MODULE TcpClientProofs ----------------------------
(***************************************************************************)
(* Proofs about TcpClient for every set of user threads.                    *)
(***************************************************************************)
EXTENDS TcpClient, TLAPS

CountInv == state \in State /\ raises \in Nat /\ retries \in Nat

\* There is something for the loop thread to finish only once a connection was
\* made, and a client that has made one never connects again.
ConnectionInv ==
  /\ stack # <<>> => tcp # "none"
  /\ tcp # "none" => state \notin {"offline", "connecting"}

IInv == CountInv /\ ConnectionInv /\ ConnectingHasAttempt

-----------------------------------------------------------------------------

LEMMA InitIInv == Init => IInv
  BY DEF Init, IInv, CountInv, ConnectionInv, ConnectingHasAttempt, State

\* What the attempts to connect do to the state, the counters and the stack.
LEMMA StartStep == ASSUME IInv, Start PROVE IInv' /\ state' = "connecting"
<1> USE DEF IInv, CountInv, ConnectionInv, ConnectingHasAttempt, Start
<1>1. state = "offline" /\ state' = "connecting" /\ UNCHANGED <<stack, tcp, retries>> /\ raises' = raises + 1
  OBVIOUS
<1>2. raises + retries = 0
  BY <1>1
<1>3. raises' \in Nat /\ raises' + retries' = 1
  BY <1>1, <1>2
<1>4. ConnectionInv'
  BY <1>1
<1> QED BY <1>1, <1>3, <1>4 DEF State

LEMMA RaiseStep ==
  ASSUME IInv, RaiseConnection
  PROVE  IInv' /\ state = "connecting" /\ state' \in {"connecting", "connected", "offline"}
<1> USE DEF IInv, CountInv, ConnectionInv
<1>1. raises > 0 /\ raises' = raises - 1 /\ stack = <<>>
  BY DEF RaiseConnection
<1>2. state = "connecting" /\ raises + retries = 1
  BY <1>1 DEF ConnectingHasAttempt
<1>3. tcp = "none" /\ raises' = 0 /\ retries = 0
  BY <1>1, <1>2
<1>4. CASE HandleConnection
  <2>1. state' = "connected" /\ tcp' = "open" /\ UNCHANGED retries
    BY <1>2, <1>4 DEF HandleConnection
  <2> QED BY <1>2, <1>3, <2>1 DEF ConnectingHasAttempt, State
<1>5. CASE Retry
  <2>1. retries' = 1 /\ UNCHANGED <<state, tcp, stack>>
    BY <1>3, <1>5 DEF Retry
  <2> QED BY <1>1, <1>2, <1>3, <2>1 DEF ConnectingHasAttempt
<1>6. CASE GiveUp
  <2>1. state' = "offline" /\ UNCHANGED <<retries, tcp, stack>>
    BY <1>6 DEF GiveUp
  <2> QED BY <1>1, <1>2, <1>3, <2>1 DEF ConnectingHasAttempt, State
<1> QED BY <1>2, <1>4, <1>5, <1>6 DEF RaiseConnection

LEMMA RetryStep == ASSUME IInv, RetryRings PROVE IInv' /\ state' = state
<1> USE DEF IInv, CountInv, ConnectionInv, ConnectingHasAttempt, RetryRings
<1>1. retries' = retries - 1 /\ raises' = raises + 1 /\ retries > 0 /\ UNCHANGED <<state, tcp, stack>>
  OBVIOUS
<1> QED BY <1>1

\* Every other step leaves the attempts alone and happens to a client that is
\* connected or was: it keeps the state or moves it on.
Later ==
  /\ UNCHANGED <<raises, retries>>
  /\ \/ UNCHANGED state
     \/ state = "connected" /\ state' = "disconnecting"
     \/ stack # <<>> /\ state' = "disconnected"
  /\ stack' # <<>> => stack # <<>> \/ tcp # "none"
  /\ tcp' # "none" <=> tcp # "none"

LEMMA LaterStep == ASSUME IInv, Later PROVE IInv'
<1> USE DEF IInv, CountInv, ConnectionInv, Later
<1>1. ConnectionInv'
  OBVIOUS
<1>2. state' \in State
  BY DEF State
<1>3. state' = "connecting" <=> state = "connecting"
  OBVIOUS
<1> QED BY <1>1, <1>2, <1>3 DEF ConnectingHasAttempt

\* The steps of Next that are of that kind.
Other ==
  \/ Assign \/ HandleRead \/ HandleRemove \/ HandlerReturns \/ OnClose \/ HandlerEnds \/ HolderEnds
  \/ \E t \in Threads :
       CallStep(t) \/ Close(t) \/ ForceClose(t) \/ Shutdown(t) \/ ForceShutdown(t)

LEMMA OtherIsLater == ASSUME IInv, Other PROVE Later
<1> USE DEF Later
<1>1. CASE Assign \/ HandlerReturns
  BY <1>1 DEF Assign, HandlerReturns, InHandler, callVars
<1>2. CASE HandleRead \/ HandleRemove
  BY <1>2 DEF HandleRead, HandleRemove
<1>3. CASE OnClose
  BY <1>3 DEF OnClose
<1>4. CASE HandlerEnds
  BY <1>4 DEF HandlerEnds, End, CloseSilently
<1>5. CASE HolderEnds
  BY <1>5 DEF HolderEnds, End, CloseSilently
<1>6. ASSUME NEW t \in Threads, CallStep(t) PROVE Later
  BY <1>6 DEF CallStep, Check, ReadConnection, CallConnection, End, CloseSilently
<1>7. ASSUME NEW t \in Threads, Close(t) \/ ForceClose(t) \/ Shutdown(t) \/ ForceShutdown(t)
      PROVE  Later
  BY <1>7 DEF Close, ForceClose, Shutdown, ForceShutdown, Begin
<1> QED BY <1>1, <1>2, <1>3, <1>4, <1>5, <1>6, <1>7 DEF Other

LEMMA NextCases ==
  Next => Start \/ RaiseConnection \/ RetryRings \/ Other
  BY DEF Next, LoopStep, Other

-----------------------------------------------------------------------------

\* IInv is an inductive invariant of the client.
THEOREM Inductive == Spec => []IInv
<1>1. IInv /\ [Next]_vars => IInv'
  <2> SUFFICES ASSUME IInv, [Next]_vars PROVE IInv'
    OBVIOUS
  <2>1. CASE UNCHANGED vars
    BY <2>1 DEF vars, IInv, CountInv, ConnectionInv, ConnectingHasAttempt
  <2>2. CASE Other
    BY <2>2, OtherIsLater, LaterStep
  <2> QED BY <2>1, <2>2, NextCases, StartStep, RaiseStep, RetryStep
<1> QED BY InitIInv, <1>1, PTL DEF Spec

\* raiseConnection and retry neither pile attempts up nor lose one: there is
\* exactly one on its way while the client is connecting.
THEOREM OneAttempt == Spec => []ConnectingHasAttempt
<1>1. IInv => ConnectingHasAttempt
  BY DEF IInv
<1> QED BY Inductive, <1>1, PTL

\* No store to state_ takes the client back to an earlier state, except that
\* raiseConnection gives up.
THEOREM StatesAdvance == Spec => NeverBack
<1>1. IInv /\ [Next]_vars =>
        [Rank(state) > Rank(state') => state = "connecting" /\ state' = "offline"]_vars
  <2> SUFFICES ASSUME IInv, [Next]_vars, Rank(state) > Rank(state')
               PROVE  state = "connecting" /\ state' = "offline"
    OBVIOUS
  <2>1. state \in State
    BY DEF IInv, CountInv
  <2>2. CASE state' = state
    BY <2>1, <2>2 DEF Rank, State
  <2>3. CASE Start
    BY <2>1, <2>3 DEF Start, Rank, State
  <2>4. CASE RaiseConnection
    BY <2>4, RaiseStep DEF Rank
  <2>5. CASE Other
    <3>1. \/ UNCHANGED state
          \/ state = "connected" /\ state' = "disconnecting"
          \/ state' = "disconnected"
      BY <2>5, OtherIsLater DEF Later
    <3> QED BY <2>1, <2>2, <3>1 DEF Rank, State
  <2>6. CASE RetryRings
    BY <2>2, <2>6, RetryStep
  <2>7. CASE UNCHANGED vars
    BY <2>2, <2>7 DEF vars
  <2> QED BY <2>3, <2>4, <2>5, <2>6, <2>7, NextCases
<1> QED BY Inductive, <1>1, PTL DEF Spec, NeverBack

-----------------------------------------------------------------------------
(* conn_ is given up.                                                       *)

Steps == Handlers \cup {"assign", "reset"}
Resetting == \E i \in 1 .. Len(stack) : stack[i] = "reset"

\* The assignment of conn_ is the last thing the loop thread does for a new
\* connection; once the connection has ended, conn_ is still to be reset, or was
\* reset for good, or too early.
HoldInv ==
  /\ stack \in Seq(Steps)
  /\ \A i \in 1 .. Len(stack) : stack[i] = "assign" => i = Len(stack)
  /\ tcp = "closed" => Resetting \/ early \/ (~conn /\ ~Assigning)

\* What taking the first element off the stack leaves.
LEMMA PopFacts ==
  ASSUME HoldInv, stack # <<>>, stack' = Tail(stack)
  PROVE  /\ stack' \in Seq(Steps)
         /\ \A i \in 1 .. Len(stack') : stack'[i] = "assign" => i = Len(stack')
         /\ Assigning' => Assigning
         /\ Resetting /\ Head(stack) # "reset" => Resetting'
<1>1. stack' \in Seq(Steps) /\ Len(stack') = Len(stack) - 1 /\ Len(stack) \in Nat
  BY DEF HoldInv
<1>2. \A i \in 1 .. Len(stack') : i + 1 \in 1 .. Len(stack) /\ stack'[i] = stack[i + 1]
  <2>1. TAKE i \in 1 .. Len(stack')
  <2>2. i \in 1 .. Len(Tail(stack)) /\ stack \in Seq(Steps)
    BY DEF HoldInv
  <2>3. Tail(stack)[i] = stack[i + 1]
    BY <2>2
  <2> QED BY <1>1, <2>2, <2>3
<1>3. ASSUME NEW i \in 1 .. Len(stack'), stack'[i] = "assign" PROVE i = Len(stack')
  <2>1. i + 1 = Len(stack)
    BY <1>2, <1>3 DEF HoldInv
  <2>2. i \in Nat
    BY <1>1
  <2>3. \A k, n \in Nat : k + 1 = n => k = n - 1
    OBVIOUS
  <2>4. i = Len(stack) - 1
    BY <1>1, <2>1, <2>2, <2>3
  <2> QED BY <1>1, <2>4, Zenon
<1>4. Assigning' => Assigning
  BY <1>2 DEF Assigning
<1>5. ASSUME NEW i \in 1 .. Len(stack), stack[i] = "reset", Head(stack) # "reset" PROVE Resetting'
  <2>1. stack[1] # "reset"
    BY <1>5 DEF HoldInv
  <2>2. i - 1 \in 1 .. Len(stack') /\ stack'[i - 1] = stack[i]
    BY <1>1, <1>2, <1>5, <2>1
  <2> QED BY <1>5, <2>2 DEF Resetting
<1> QED BY <1>1, <1>3, <1>4, <1>5 DEF Resetting

\* The connection ends on the loop thread.
LEMMA EndFacts ==
  ASSUME HoldInv, stack' = <<"OnClose", "reset">> \o stack
  PROVE  HoldInv'
<1> DEFINE s == <<"OnClose", "reset">>
<1>1. s \in Seq(Steps) /\ Len(s) = 2 /\ stack \in Seq(Steps) /\ Len(stack) \in Nat
  BY DEF HoldInv, Steps, Handlers
<1>2. stack' \in Seq(Steps) /\ Len(stack') = Len(stack) + 2
  BY <1>1
<1>3. stack'[1] = "OnClose" /\ stack'[2] = "reset"
  BY <1>1
<1>4. \A i \in 3 .. Len(stack') : i - 2 \in 1 .. Len(stack) /\ stack'[i] = stack[i - 2]
  BY <1>1, <1>2
<1>5. ASSUME NEW i \in 1 .. Len(stack'), stack'[i] = "assign" PROVE i = Len(stack')
  <2>1. i \in 3 .. Len(stack')
    BY <1>2, <1>3, <1>5
  <2> QED BY <1>1, <1>2, <1>4, <1>5, <2>1 DEF HoldInv
<1>6. Resetting'
  BY <1>1, <1>2, <1>3 DEF Resetting
<1> QED BY <1>2, <1>5, <1>6 DEF HoldInv

LEMMA HoldStep == ASSUME IInv, HoldInv, [Next]_vars PROVE HoldInv'
<1>1. CASE RaiseConnection
  <2>1. tcp = "none" /\ state = "connecting"
    BY <1>1, RaiseStep DEF IInv, ConnectionInv
  <2>2. CASE UNCHANGED <<tcp, stack>>
    BY <2>1, <2>2 DEF HoldInv
  <2>3. CASE tcp' = "open" /\ stack' = <<"OnConnect", "assign">>
    BY <2>3 DEF HoldInv, Steps, Handlers
  <2> QED BY <1>1, <2>1, <2>2, <2>3 DEF RaiseConnection, HandleConnection, Retry, GiveUp
<1>2. CASE Assign
  <2>1. stack # <<>> /\ Head(stack) = "assign" /\ stack' = Tail(stack) /\ UNCHANGED <<tcp, early>>
    BY <1>2 DEF Assign
  <2>2. stack[1] = "assign" /\ Len(stack) \in Nat \ {0}
    BY <2>1 DEF HoldInv
  <2>3. Len(stack) = 1 /\ Assigning
    <3>1. 1 \in 1 .. Len(stack)
      BY <2>2
    <3> QED BY <2>2, <3>1 DEF HoldInv, Assigning
  <2>4. ~Resetting
    BY <2>2, <2>3 DEF Resetting
  <2> QED BY <2>1, <2>3, <2>4, PopFacts DEF HoldInv
<1>3. CASE HandlerReturns
  <2>1. stack # <<>> /\ Head(stack) # "reset" /\ stack' = Tail(stack) /\ UNCHANGED <<tcp, early, conn>>
    BY <1>3 DEF HandlerReturns, InHandler, Handlers
  <2> QED BY <2>1, PopFacts DEF HoldInv
<1>4. CASE OnClose
  <2>1. stack # <<>> /\ stack' = Tail(stack) /\ conn' = FALSE /\ early' = (early \/ Assigning)
    BY <1>4 DEF OnClose
  <2> QED BY <2>1, PopFacts DEF HoldInv
<1>5. CASE HandleRead
  <2>1. stack' = <<"OnRead">> /\ tcp # "closed" /\ UNCHANGED tcp
    BY <1>5 DEF HandleRead
  <2> QED BY <2>1 DEF HoldInv, Steps, Handlers
<1>13. CASE HandleRemove
  <2>1. stack = <<>> /\ stack' = <<"OnClose", "reset">>
    BY <1>13 DEF HandleRemove
  <2>2. stack' = <<"OnClose", "reset">> \o stack
    BY <2>1
  <2> QED BY <2>2, EndFacts
<1>14. ASSUME CloseSilently PROVE HoldInv'
  BY <1>14 DEF CloseSilently, HoldInv
<1>6. ASSUME NEW t \in Threads, End(t), UNCHANGED <<conn, early>> PROVE HoldInv'
  <2>1. CASE stack' = <<"OnClose", "reset">> \o stack
    BY <2>1, EndFacts
  <2>2. CASE tcp' = "ending" /\ UNCHANGED stack
    BY <2>2 DEF HoldInv
  <2> QED BY <1>6, <2>1, <2>2 DEF End
<1>7. CASE HandlerEnds \/ HolderEnds
  BY <1>6, <1>7, <1>14 DEF HandlerEnds, HolderEnds, Threads
<1>8. CASE UNCHANGED <<stack, tcp, conn, early>>
  BY <1>8 DEF HoldInv, Resetting, Assigning
<1>9. CASE Start \/ RetryRings \/ UNCHANGED vars
  BY <1>8, <1>9 DEF Start, RetryRings, vars
<1>11. ASSUME NEW t \in Threads, CallStep(t) PROVE HoldInv'
  BY <1>6, <1>8, <1>11, <1>14 DEF CallStep, Check, ReadConnection, CallConnection
<1>12. ASSUME NEW t \in Threads, Close(t) \/ ForceClose(t) \/ Shutdown(t) \/ ForceShutdown(t)
       PROVE  HoldInv'
  BY <1>8, <1>12 DEF Close, ForceClose, Shutdown, ForceShutdown, Begin
<1> QED BY <1>1, <1>2, <1>3, <1>4, <1>5, <1>7, <1>9, <1>11, <1>12, <1>13 DEF Next, LoopStep

\* A client does not keep a connection that has ended, whatever the handler and
\* the threads that close it do, unless it ended inside its own OnConnect.
THEOREM ConnectionIsLetGo == Spec => []LetsGo
<1>1. Init => HoldInv
  BY DEF Init, HoldInv, Steps
<1>2. HoldInv => LetsGo
  <2> SUFFICES ASSUME HoldInv, tcp = "closed", stack = <<>> PROVE ~conn \/ early
    BY DEF LetsGo
  <2>1. ~Resetting
    BY DEF Resetting
  <2> QED BY <2>1 DEF HoldInv
<1>3. Spec => []HoldInv
  BY <1>1, HoldStep, Inductive, PTL DEF Spec
<1> QED BY <1>2, <1>3, PTL

-----------------------------------------------------------------------------

\* The end of a connection adds two steps, once, to two at most.
DepthInv == Len(stack) <= IF tcp = "closed" THEN 4 ELSE 2

\* One that ends the connection, on the loop thread or elsewhere.
LEMMA StackEnds ==
  ASSUME DepthInv, HoldInv, HoldInv', NEW t \in Threads, End(t)
  PROVE  DepthInv' /\ Len(stack') <= 4 /\ tcp' \in {"ending", "closed"}
<1>1. stack \in Seq(Steps) /\ Len(stack) \in Nat
  BY DEF HoldInv
<1>2. Len(stack) <= 2
  BY DEF DepthInv, End
<1>3. CASE tcp' = "closed" /\ stack' = <<"OnClose", "reset">> \o stack
  <2>1. <<"OnClose", "reset">> \in Seq(Steps)
    BY DEF Steps, Handlers
  <2>2. Len(stack') = Len(stack) + 2
    BY <1>1, <1>3, <2>1
  <2> QED BY <1>1, <1>2, <1>3, <2>2 DEF DepthInv
<1>4. CASE tcp' = "ending" /\ UNCHANGED stack
  BY <1>1, <1>2, <1>4 DEF DepthInv
<1> QED BY <1>3, <1>4 DEF End

LEMMA DepthStep == ASSUME IInv, HoldInv, HoldInv', DepthInv, [Next]_vars PROVE DepthInv'
<1>1. Len(stack) \in Nat /\ Len(stack') \in Nat /\ stack \in Seq(Steps)
  BY DEF HoldInv
<1>2. CASE RaiseConnection
  <2>1. UNCHANGED <<tcp, stack>> \/ stack' = <<"OnConnect", "assign">>
    BY <1>2 DEF RaiseConnection, HandleConnection, Retry, GiveUp
  <2>2. CASE stack' = <<"OnConnect", "assign">>
    <3>1. Len(stack') = 2
      BY <2>2
    <3> QED BY <3>1 DEF DepthInv
  <2> QED BY <1>1, <2>1, <2>2 DEF DepthInv
<1>3. CASE Assign \/ HandlerReturns \/ OnClose
  <2>1. stack # <<>> /\ stack' = Tail(stack) /\ UNCHANGED tcp
    BY <1>3 DEF Assign, HandlerReturns, InHandler, OnClose
  <2>2. Len(stack') = Len(stack) - 1
    BY <1>1, <2>1
  <2> QED BY <1>1, <2>1, <2>2 DEF DepthInv
<1>4. CASE HandleRead \/ HandleRemove
  <2>1. stack' = <<"OnRead">> \/ stack' = <<"OnClose", "reset">>
    BY <1>4 DEF HandleRead, HandleRemove
  <2>2. Len(stack') <= 2
    BY <2>1
  <2> QED BY <1>1, <2>2 DEF DepthInv
<1>5. ASSUME NEW t \in Threads, End(t) PROVE DepthInv'
  BY <1>5, StackEnds
<1>6. CASE UNCHANGED <<stack, tcp>>
  BY <1>1, <1>6 DEF DepthInv
<1>9. ASSUME CloseSilently PROVE DepthInv'
  BY <1>1, <1>9 DEF CloseSilently, DepthInv
<1>7. CASE HandlerEnds \/ HolderEnds
  BY <1>5, <1>7, <1>9 DEF HandlerEnds, HolderEnds, Threads
<1>8. CASE Start \/ RetryRings \/ UNCHANGED vars
  BY <1>6, <1>8 DEF Start, RetryRings, vars
<1>10. ASSUME NEW t \in Threads, CallStep(t) PROVE DepthInv'
  BY <1>5, <1>6, <1>9, <1>10 DEF CallStep, Check, ReadConnection, CallConnection
<1>11. ASSUME NEW t \in Threads, Close(t) \/ ForceClose(t) \/ Shutdown(t) \/ ForceShutdown(t)
       PROVE  DepthInv'
  BY <1>6, <1>11 DEF Close, ForceClose, Shutdown, ForceShutdown, Begin
<1> QED BY <1>2, <1>3, <1>4, <1>7, <1>8, <1>10, <1>11 DEF Next, LoopStep

\* The variables whose types do not depend on the others.
FlagsInv ==
  /\ conn \in BOOLEAN
  /\ tcp \in {"none", "open", "ending", "silent", "closed"}
  /\ pc \in [Threads -> {"idle", "check", "read", "call"}]
  /\ op \in Ops \cup {"none"}
  /\ {missed, early, crashed} \subseteq BOOLEAN

LEMMA FlagsStep == ASSUME FlagsInv, [Next]_vars PROVE FlagsInv'
<1> USE DEF FlagsInv
<1>1. CASE RaiseConnection \/ Start \/ RetryRings \/ HolderEnds \/ HandleRead \/ HandleRemove
           \/ HandlerReturns \/ HandlerEnds
  BY <1>1 DEF RaiseConnection, HandleConnection, Retry, GiveUp, Start, RetryRings, HolderEnds,
              HandleRead, HandleRemove, HandlerReturns, HandlerEnds, End, CloseSilently, callVars
<1>2. CASE Assign
  BY <1>2 DEF Assign, callVars
<1>3. CASE OnClose
  <2>1. (early \/ Assigning) \in BOOLEAN
    BY DEF Assigning
  <2> QED BY <1>3, <2>1 DEF OnClose, callVars
<1>4. ASSUME NEW t \in Threads, Check(t) PROVE FlagsInv'
  <2>1. pc' = [pc EXCEPT ![t] = IF conn THEN "read" ELSE "idle"] /\ missed' = ~conn
    BY <1>4 DEF Check
  <2>2. pc' \in [Threads -> {"idle", "check", "read", "call"}]
    BY <2>1
  <2>3. missed' \in BOOLEAN
    BY <2>1
  <2> QED BY <1>4, <2>2, <2>3 DEF Check
<1>8. ASSUME NEW t \in Threads, ReadConnection(t) PROVE FlagsInv'
  <2>1. pc' = [pc EXCEPT ![t] = IF conn THEN "call" ELSE "idle"] /\ crashed' = ~conn
    BY <1>8 DEF ReadConnection
  <2>2. pc' \in [Threads -> {"idle", "check", "read", "call"}]
    BY <2>1
  <2>3. crashed' \in BOOLEAN
    BY <2>1
  <2> QED BY <1>8, <2>2, <2>3 DEF ReadConnection
<1>5. ASSUME NEW t \in Threads, CallConnection(t) PROVE FlagsInv'
  <2>1. pc' \in [Threads -> {"idle", "check", "read", "call"}]
    BY <1>5 DEF CallConnection
  <2>2. crashed' \in BOOLEAN
    <3>1. crashed' = crashed \/ crashed' = FALSE \/ crashed' = ~conn
      BY <1>5 DEF CallConnection
    <3>2. crashed \in BOOLEAN
      OBVIOUS
    <3>3. (~conn) \in BOOLEAN
      OBVIOUS
    <3> QED BY <3>1, <3>2, <3>3
  <2>3. tcp' \in {"none", "open", "ending", "silent", "closed"}
    BY <1>5 DEF CallConnection, End, CloseSilently
  <2> QED BY <1>5, <2>1, <2>2, <2>3 DEF CallConnection
<1>6. ASSUME NEW t \in Threads, Close(t) \/ ForceClose(t) \/ Shutdown(t) \/ ForceShutdown(t)
      PROVE  FlagsInv'
  BY <1>6 DEF Close, ForceClose, Shutdown, ForceShutdown, Begin, Ops
<1>7. CASE UNCHANGED vars
  BY <1>7 DEF vars
<1> QED BY <1>1, <1>2, <1>3, <1>4, <1>5, <1>6, <1>7, <1>8 DEF Next, LoopStep, CallStep

\* Every variable keeps its type, and what the loop thread still has to do is
\* never more than an end inside OnConnect.
THEOREM TypeCorrect == Spec => []TypeOK
<1>1. Init => HoldInv /\ DepthInv /\ FlagsInv
  <2> SUFFICES ASSUME Init PROVE HoldInv /\ DepthInv /\ FlagsInv
    OBVIOUS
  <2>1. stack = <<>> /\ Len(stack) = 0
    BY DEF Init
  <2>2. HoldInv /\ DepthInv
    BY <2>1 DEF Init, HoldInv, Steps, DepthInv
  <2>3. FlagsInv
    BY DEF Init, FlagsInv
  <2> QED BY <2>2, <2>3
<1>2. IInv /\ HoldInv /\ DepthInv /\ FlagsInv => TypeOK
  <2> SUFFICES ASSUME IInv, HoldInv, DepthInv, FlagsInv PROVE TypeOK
    OBVIOUS
  <2>1. Len(stack) \in Nat
    BY DEF HoldInv
  <2>2. Len(stack) <= 4
    BY <2>1 DEF DepthInv
  <2> QED BY <2>2 DEF IInv, CountInv, HoldInv, FlagsInv, TypeOK, Steps
<1>3. Spec => [](HoldInv /\ DepthInv /\ FlagsInv)
  BY <1>1, HoldStep, DepthStep, FlagsStep, Inductive, PTL DEF Spec
<1> QED BY <1>2, <1>3, Inductive, PTL

-----------------------------------------------------------------------------
(* A call that closes the client looks for the connection.                  *)

\* A connection that was made and has not ended is in conn_ or is about to be
\* assigned to it; whoever has moved the state on from kConnected came after it
\* was made.
FindInv ==
  /\ state = "connected" => tcp # "none"
  /\ \A t \in Threads : pc[t] # "idle" => tcp # "none"
  /\ tcp \in {"open", "ending", "silent"} => conn \/ Assigning
  /\ Resetting => tcp = "closed"

\* Taking a step off the stack puts no reset on it, and leaves the assignment
\* there unless it was the step.
LEMMA PopKeeps ==
  ASSUME HoldInv, stack # <<>>, stack' = Tail(stack)
  PROVE  /\ Resetting' => Resetting
         /\ Assigning /\ Head(stack) # "assign" => Assigning'
<1>1. stack \in Seq(Steps) /\ Len(stack) \in Nat \ {0} /\ Len(stack') = Len(stack) - 1
  BY DEF HoldInv
<1>2. \A i \in 1 .. Len(Tail(stack)) : i + 1 \in 1 .. Len(stack) /\ Tail(stack)[i] = stack[i + 1]
  BY <1>1
<1>3. Resetting' => Resetting
  BY <1>2 DEF Resetting
<1>4. ASSUME NEW i \in 1 .. Len(stack), stack[i] = "assign", Head(stack) # "assign" PROVE Assigning'
  <2>1. stack[1] # "assign"
    BY <1>1, <1>4
  <2>2. i - 1 \in 1 .. Len(Tail(stack)) /\ Tail(stack)[i - 1] = stack[i]
    BY <1>1, <1>2, <1>4, <2>1
  <2> QED BY <1>4, <2>2 DEF Assigning
<1> QED BY <1>3, <1>4 DEF Assigning

LEMMA FindStep == ASSUME IInv, HoldInv, FlagsInv, FindInv, [Next]_vars PROVE FindInv'
<1>1. CASE RaiseConnection
  <2>1. UNCHANGED <<pc, conn>> /\ tcp = "none" /\ stack = <<>>
    BY <1>1, RaiseStep DEF RaiseConnection, callVars, IInv, ConnectionInv
  <2>2. CASE HandleConnection /\ state = "connecting"
    <3>1. tcp' = "open" /\ stack' = <<"OnConnect", "assign">>
      BY <2>2 DEF HandleConnection
    <3>2. Len(stack') = 2 /\ stack'[1] = "OnConnect" /\ stack'[2] = "assign"
      BY <3>1
    <3>3. Assigning'
      BY <3>2 DEF Assigning
    <3>4. ~Resetting'
      BY <3>2 DEF Resetting
    <3> QED BY <3>1, <3>3, <3>4 DEF FindInv
  <2>3. CASE UNCHANGED <<tcp, stack>> /\ state' # "connected"
    BY <2>1, <2>3 DEF FindInv, Resetting
  <2> QED BY <1>1, <2>2, <2>3, RaiseStep DEF RaiseConnection, Retry, GiveUp
<1>2. CASE Assign
  BY <1>2, PopKeeps DEF Assign, callVars, FindInv
<1>3. CASE HandlerReturns
  <2>1. stack # <<>> /\ Head(stack) # "assign" /\ stack' = Tail(stack)
    BY <1>3 DEF HandlerReturns, InHandler, Handlers
  <2> QED BY <1>3, <2>1, PopKeeps DEF HandlerReturns, callVars, FindInv
<1>4. CASE OnClose
  <2>1. stack # <<>> /\ Head(stack) = "reset" /\ stack' = Tail(stack) /\ state' = "disconnected"
        /\ UNCHANGED <<tcp, pc>>
    BY <1>4 DEF OnClose, callVars
  <2>2. stack[1] = "reset" /\ 1 \in 1 .. Len(stack)
    BY <2>1 DEF HoldInv
  <2>3. tcp = "closed"
    BY <2>2 DEF FindInv, Resetting
  <2> QED BY <2>1, <2>3 DEF FindInv
<1>5. CASE HandleRead
  <2>1. stack = <<>> /\ stack' = <<"OnRead">> /\ UNCHANGED <<state, conn, tcp, pc>>
    BY <1>5 DEF HandleRead, callVars
  <2>2. ~Assigning
    BY <2>1 DEF Assigning
  <2>3. Len(stack') = 1 /\ stack'[1] = "OnRead"
    BY <2>1
  <2>4. ~Resetting'
    BY <2>3 DEF Resetting
  <2> QED BY <2>1, <2>2, <2>4 DEF FindInv
<1>14. CASE HandleRemove
  BY <1>14 DEF HandleRemove, callVars, FindInv
<1>15. ASSUME CloseSilently, UNCHANGED <<state, conn>>,
              \A u \in Threads : pc'[u] # "idle" => pc[u] # "idle"
       PROVE  FindInv'
  BY <1>15 DEF CloseSilently, FindInv, Resetting, Assigning
<1>6. ASSUME NEW t \in Threads, End(t), UNCHANGED <<state, conn>>,
             \A u \in Threads : pc'[u] # "idle" => pc[u] # "idle"
      PROVE  FindInv'
  BY <1>6 DEF End, FindInv, Resetting, Assigning
<1>7. ASSUME UNCHANGED <<conn, tcp, stack>>, state' = "connected" => state = "connected",
             \A u \in Threads : pc'[u] # "idle" => pc[u] # "idle" \/ state = "connected"
      PROVE  FindInv'
  BY <1>7 DEF FindInv, Resetting, Assigning
<1>8. CASE HandlerEnds \/ HolderEnds
  BY <1>6, <1>8, <1>15 DEF HandlerEnds, HolderEnds, callVars, Threads
<1>9. CASE Start \/ RetryRings \/ UNCHANGED vars
  BY <1>7, <1>9 DEF Start, RetryRings, vars, callVars
<1>10. ASSUME NEW t \in Threads, ReadConnection(t) PROVE FindInv'
  <2>1. \A u \in Threads : pc'[u] # "idle" => pc[u] # "idle"
    BY <1>10 DEF ReadConnection, FlagsInv
  <2> QED BY <1>7, <1>10, <2>1 DEF ReadConnection
<1>11. ASSUME NEW t \in Threads, Check(t) PROVE FindInv'
  <2>1. \A u \in Threads : pc'[u] # "idle" => pc[u] # "idle"
    BY <1>11 DEF Check, FlagsInv
  <2> QED BY <1>7, <1>11, <2>1 DEF Check
<1>12. ASSUME NEW t \in Threads, CallConnection(t) PROVE FindInv'
  <2>1. \A u \in Threads : pc'[u] # "idle" => pc[u] # "idle"
    BY <1>12 DEF CallConnection, FlagsInv
  <2> QED BY <1>6, <1>7, <1>12, <1>15, <2>1 DEF CallConnection
<1>13. ASSUME NEW t \in Threads, Close(t) \/ ForceClose(t) \/ Shutdown(t) \/ ForceShutdown(t)
       PROVE  FindInv'
  <2>1. state = "connected" /\ state' = "disconnecting" /\ UNCHANGED <<conn, tcp, stack>>
    BY <1>13 DEF Close, ForceClose, Shutdown, ForceShutdown, Begin
  <2> QED BY <1>7, <2>1
<1> QED BY <1>1, <1>2, <1>3, <1>4, <1>5, <1>8, <1>9, <1>10, <1>11, <1>12, <1>13, <1>14
        DEF Next, LoopStep, CallStep

\* Only Check says that a call has found no connection.
LEMMA OnlyCheckMisses ==
  ASSUME [Next]_vars, missed' # missed
  PROVE  \E t \in Threads : Check(t)
<1>1. ~(Start \/ RetryRings \/ HandlerEnds \/ HolderEnds \/ UNCHANGED vars)
  BY DEF Start, RetryRings, HandlerEnds, HolderEnds, vars, callVars
<1>2. ~LoopStep
  BY DEF LoopStep, RaiseConnection, Assign, HandleRead, HandleRemove, HandlerReturns, OnClose, callVars
<1>3. ASSUME NEW t \in Threads
      PROVE  ~(ReadConnection(t) \/ CallConnection(t) \/ Close(t) \/ ForceClose(t) \/ Shutdown(t) \/ ForceShutdown(t))
  BY DEF ReadConnection, CallConnection, Close, ForceClose, Shutdown, ForceShutdown, Begin
<1> QED BY <1>1, <1>2, <1>3 DEF Next, CallStep

\* "if (conn_)" after the compare-and-swap finds the connection, from any thread,
\* unless OnConnect is still running or the connection has ended.
THEOREM CallsFindTheConnection == Spec => MissedOnlyWhileAssigning
<1>1. Init => HoldInv /\ FlagsInv /\ FindInv
  <2> SUFFICES ASSUME Init PROVE HoldInv /\ FlagsInv /\ FindInv
    OBVIOUS
  <2>1. HoldInv
    BY DEF Init, HoldInv, Steps
  <2>2. FlagsInv
    BY DEF Init, FlagsInv
  <2>3. ~Resetting
    BY DEF Init, Resetting
  <2> QED BY <2>1, <2>2, <2>3 DEF Init, FindInv
<1>2. FlagsInv /\ FindInv /\ [Next]_vars =>
        [missed' /\ ~missed => Assigning \/ tcp = "closed"]_vars
  <2> SUFFICES ASSUME FlagsInv, FindInv, [Next]_vars, missed', ~missed
               PROVE  Assigning \/ tcp = "closed"
    OBVIOUS
  <2>1. PICK t \in Threads : Check(t)
    BY OnlyCheckMisses
  <2>2. pc[t] = "check" /\ missed' = ~conn
    BY <2>1 DEF Check
  <2>3. ~conn
    BY <2>2
  <2> QED BY <2>2, <2>3 DEF FlagsInv, FindInv
<1>3. Spec => [](IInv /\ HoldInv /\ FlagsInv /\ FindInv)
  BY <1>1, HoldStep, FlagsStep, FindStep, Inductive, PTL DEF Spec
<1> QED BY <1>2, <1>3, PTL DEF Spec, MissedOnlyWhileAssigning

-----------------------------------------------------------------------------
(* What ForceCloseEnds rests on.                                            *)

\* A ForceClose that has moved the client to kDisconnecting, and has not missed
\* the connection, is still inside its call, or the end of the connection is
\* due, or the handler that will store kDisconnected is running, or a Close of the
\* connection has made it silent, and then the client stays half closed.
EndIsComing ==
  state = "disconnecting" /\ op = "ForceClose" =>
    \/ missed \/ crashed \/ tcp = "silent"
    \/ (\E t \in Threads : pc[t] # "idle") \/ tcp = "ending" \/ Resetting

\* A connection that has ended has been reported, or its reset is still to come.
ReportInv == tcp = "closed" => Resetting \/ state = "disconnected"

\* The connection ends: it is reported at once, or at the next turn of the loop.
LEMMA EndComes ==
  ASSUME HoldInv, NEW t \in Threads, End(t)
  PROVE  \/ tcp' = "closed" /\ Resetting'
         \/ tcp' = "ending" /\ UNCHANGED stack
<1>1. CASE tcp' = "closed" /\ stack' = <<"OnClose", "reset">> \o stack
  <2>1. stack \in Seq(Steps) /\ Len(stack) \in Nat
    BY DEF HoldInv
  <2>2. Len(stack') = Len(stack) + 2 /\ stack'[2] = "reset"
    BY <1>1, <2>1 DEF Steps, Handlers
  <2> QED BY <1>1, <2>1, <2>2 DEF Resetting
<1>2. CASE tcp' = "ending" /\ UNCHANGED stack
  BY <1>2
<1> QED BY <1>1, <1>2 DEF End

LEMMA ComingStep ==
  ASSUME IInv, HoldInv, FlagsInv, FindInv, EndIsComing, ReportInv, [Next]_vars
  PROVE  EndIsComing' /\ ReportInv'
<1>1. CASE RaiseConnection
  <2>1. UNCHANGED callVars /\ tcp = "none" /\ stack = <<>> /\ state = "connecting"
        /\ state' \in {"connecting", "connected", "offline"}
    BY <1>1, RaiseStep DEF RaiseConnection, IInv, ConnectionInv
  <2>2. tcp' \in {"none", "open"}
    BY <1>1, <2>1 DEF RaiseConnection, HandleConnection, Retry, GiveUp
  <2> QED BY <2>1, <2>2 DEF EndIsComing, ReportInv
<1>2. CASE Assign \/ HandlerReturns
  <2>1. stack # <<>> /\ Head(stack) # "reset" /\ stack' = Tail(stack) /\ UNCHANGED <<callVars, state, tcp>>
    BY <1>2 DEF Assign, HandlerReturns, InHandler, Handlers
  <2>2. Resetting => Resetting'
    BY <2>1, PopFacts
  <2> QED BY <2>1, <2>2 DEF EndIsComing, ReportInv, callVars
<1>3. CASE OnClose
  BY <1>3 DEF OnClose, EndIsComing, ReportInv
<1>4. CASE HandleRead
  <2>1. stack = <<>> /\ UNCHANGED <<callVars, state, tcp>> /\ ~Resetting
    BY <1>4 DEF HandleRead, Resetting
  <2> QED BY <2>1 DEF EndIsComing, ReportInv, callVars
<1>5. CASE HandleRemove
  <2>1. stack' = <<"OnClose", "reset">>
    BY <1>5 DEF HandleRemove
  <2>2. Len(stack') = 2 /\ stack'[2] = "reset"
    BY <2>1
  <2>3. Resetting'
    BY <2>2 DEF Resetting
  <2> QED BY <2>3 DEF EndIsComing, ReportInv
<1>6. CASE HandlerEnds \/ HolderEnds
  <2>1. (\E t \in Threads : End(t)) \/ tcp' = "silent"
    BY <1>6 DEF HandlerEnds, HolderEnds, CloseSilently, Threads
  <2>2. UNCHANGED <<callVars, state>>
    BY <1>6 DEF HandlerEnds, HolderEnds
  <2> QED BY <2>1, <2>2, EndComes DEF EndIsComing, ReportInv, callVars
<1>7. CASE Start \/ RetryRings \/ UNCHANGED vars
  <2>1. UNCHANGED <<callVars, tcp, stack>> /\ (state' = state \/ (state = "offline" /\ state' = "connecting"))
    BY <1>7 DEF Start, RetryRings, vars, callVars
  <2> QED BY <2>1 DEF EndIsComing, ReportInv, Resetting, callVars
<1>8. ASSUME NEW t \in Threads, Check(t) PROVE EndIsComing' /\ ReportInv'
  <2>1. /\ pc[t] = "check" /\ pc' = [pc EXCEPT ![t] = IF conn THEN "read" ELSE "idle"]
        /\ missed' = ~conn /\ UNCHANGED <<state, tcp, stack, op>>
    BY <1>8 DEF Check
  <2>2. CASE conn
    <3>1. pc'[t] # "idle"
      BY <2>1, <2>2 DEF FlagsInv
    <3> QED BY <2>1, <3>1 DEF EndIsComing, ReportInv, Resetting
  <2>3. CASE ~conn
    <3>1. missed'
      BY <2>1, <2>3
    <3> QED BY <2>1, <3>1 DEF EndIsComing, ReportInv, Resetting
  <2> QED BY <2>2, <2>3
<1>11. ASSUME NEW t \in Threads, ReadConnection(t) PROVE EndIsComing' /\ ReportInv'
  <2>1. /\ pc[t] = "read" /\ pc' = [pc EXCEPT ![t] = IF conn THEN "call" ELSE "idle"]
        /\ crashed' = ~conn /\ UNCHANGED <<state, tcp, stack, op>>
    BY <1>11 DEF ReadConnection
  <2>2. CASE conn
    <3>1. pc'[t] # "idle"
      BY <2>1, <2>2 DEF FlagsInv
    <3> QED BY <2>1, <3>1 DEF EndIsComing, ReportInv, Resetting
  <2>3. CASE ~conn
    <3>1. crashed'
      BY <2>1, <2>3
    <3> QED BY <2>1, <3>1 DEF EndIsComing, ReportInv, Resetting
  <2> QED BY <2>2, <2>3
<1>9. ASSUME NEW t \in Threads, CallConnection(t) PROVE EndIsComing' /\ ReportInv'
  <2>1. pc[t] = "call" /\ UNCHANGED <<state, op>> /\ tcp \in {"open", "ending", "silent", "closed"}
    BY <1>9 DEF CallConnection, FlagsInv, FindInv
  <2>2. CASE op \in {"ForceClose", "Close"} /\ End(t)
    BY <2>1, <2>2, EndComes DEF EndIsComing, ReportInv, Resetting
  <2>3. CASE tcp' = "silent" /\ UNCHANGED stack
    BY <2>1, <2>3 DEF EndIsComing, ReportInv
  <2>4. CASE (op = "ForceClose" => tcp # "open") /\ UNCHANGED <<tcp, stack>>
    BY <2>1, <2>4 DEF EndIsComing, ReportInv, Resetting
  <2> QED BY <1>9, <2>2, <2>3, <2>4 DEF CallConnection, CloseSilently
<1>10. ASSUME NEW t \in Threads, Close(t) \/ ForceClose(t) \/ Shutdown(t) \/ ForceShutdown(t)
       PROVE  EndIsComing' /\ ReportInv'
  <2>1. /\ state = "connected" /\ pc' = [pc EXCEPT ![t] = "check"] /\ UNCHANGED <<tcp, stack>>
    BY <1>10 DEF Close, ForceClose, Shutdown, ForceShutdown, Begin
  <2>2. pc'[t] # "idle"
    BY <2>1 DEF FlagsInv
  <2> QED BY <2>1, <2>2 DEF EndIsComing, ReportInv, Resetting
<1> QED BY <1>1, <1>2, <1>3, <1>4, <1>5, <1>6, <1>7, <1>8, <1>9, <1>10, <1>11
        DEF Next, LoopStep, CallStep

\* ForceClose of a client that is connected leads to its end, unless the handler
\* or whoever holds the connection closed it before with output waiting: at every
\* moment the next thing on the way there is under way, from any thread and
\* against any number of others.
THEOREM ForceCloseIsTakenUp == Spec => []EndIsComing
<1>1. Init => HoldInv /\ FlagsInv /\ FindInv /\ EndIsComing /\ ReportInv
  <2> SUFFICES ASSUME Init PROVE HoldInv /\ FlagsInv /\ FindInv /\ EndIsComing /\ ReportInv
    OBVIOUS
  <2>1. HoldInv
    BY DEF Init, HoldInv, Steps
  <2>2. FlagsInv
    BY DEF Init, FlagsInv
  <2>3. ~Resetting
    BY DEF Init, Resetting
  <2> QED BY <2>1, <2>2, <2>3 DEF Init, FindInv, EndIsComing, ReportInv
<1>2. Spec => [](IInv /\ HoldInv /\ FlagsInv /\ FindInv /\ EndIsComing /\ ReportInv)
  BY <1>1, HoldStep, FlagsStep, FindStep, ComingStep, Inductive, PTL DEF Spec
<1> QED BY <1>2, PTL
=============================================================================

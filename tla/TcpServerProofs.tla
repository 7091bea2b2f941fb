--------------------------- MODULE TcpServerProofs ---------------------------
(***************************************************************************)
(* Proofs about TcpServer for any number of users, worker loops,            *)
(* connections, descriptors and calls of Close.                             *)
(***************************************************************************)
EXTENDS TcpServer, SequenceTheorems, TLAPS

Places(s) == 1 .. Len(s)

\* Some element of s is in A.
Holds(s, A) == \E i \in Places(s) : s[i] \in A

\* At most one is.
Once(s, A) == \A i, j \in Places(s) : s[i] \in A /\ s[j] \in A => i = j

\* Each one that is comes after an element of B.
Behind(s, A, B) == \A i \in Places(s) : s[i] \in A => \E j \in 1 .. i - 1 : s[j] \in B

-----------------------------------------------------------------------------
(* What the three say of sequences that grow and shrink.                    *)

LEMMA InFront ==
  ASSUME NEW S, NEW p \in Seq(S), NEW s \in Seq(S)
  PROVE  /\ p \o s \in Seq(S)
         /\ Len(p) \in Nat /\ Len(s) \in Nat
         /\ Len(p \o s) = Len(p) + Len(s)
         /\ \A i \in Places(p) : (p \o s)[i] = p[i]
         /\ \A i \in Places(s) : (p \o s)[Len(p) + i] = s[i]
         /\ \A i \in Places(p \o s) : i \in Places(p) \/ i - Len(p) \in Places(s)
  BY ConcatProperties DEF Places

LEMMA HoldsConcat ==
  ASSUME NEW S, NEW p \in Seq(S), NEW s \in Seq(S), NEW A
  PROVE  Holds(p \o s, A) <=> Holds(p, A) \/ Holds(s, A)
<1>0. /\ p \o s \in Seq(S)
      /\ Len(p) \in Nat /\ Len(s) \in Nat
      /\ Len(p \o s) = Len(p) + Len(s)
      /\ \A i \in Places(p) : (p \o s)[i] = p[i]
      /\ \A i \in Places(s) : (p \o s)[Len(p) + i] = s[i]
      /\ \A i \in Places(p \o s) : i \in Places(p) \/ i - Len(p) \in Places(s)
  BY InFront
<1>1. ASSUME NEW i \in Places(p), p[i] \in A
      PROVE  Holds(p \o s, A)
  BY <1>1, <1>0 DEF Holds, Places
<1>2. ASSUME NEW i \in Places(s), s[i] \in A
      PROVE  Holds(p \o s, A)
  <2>1. Len(p) + i \in Places(p \o s) /\ (p \o s)[Len(p) + i] = s[i]
    BY <1>0 DEF Places
  <2> QED BY <1>2, <2>1 DEF Holds
<1>3. ASSUME NEW i \in Places(p \o s), (p \o s)[i] \in A
      PROVE  Holds(p, A) \/ Holds(s, A)
  <2>1. CASE i \in Places(p)
    BY <1>3, <2>1, <1>0 DEF Holds
  <2>2. CASE i - Len(p) \in Places(s)
    <3>1. Len(p) + (i - Len(p)) = i
      BY <1>0, <1>3 DEF Places
    <3>2. (p \o s)[Len(p) + (i - Len(p))] = s[i - Len(p)]
      BY <1>0, <2>2
    <3> QED BY <1>3, <2>2, <3>1, <3>2 DEF Holds
  <2> QED BY <2>1, <2>2, <1>0
<1> QED BY <1>1, <1>2, <1>3 DEF Holds

LEMMA BehindConcat ==
  ASSUME NEW S, NEW p \in Seq(S), NEW s \in Seq(S), NEW A, NEW B,
         Behind(p, A, B), Behind(s, A, B) \/ Holds(p, B)
  PROVE  Behind(p \o s, A, B)
<1>0. /\ p \o s \in Seq(S)
      /\ Len(p) \in Nat /\ Len(s) \in Nat
      /\ Len(p \o s) = Len(p) + Len(s)
      /\ \A i \in Places(p) : (p \o s)[i] = p[i]
      /\ \A i \in Places(s) : (p \o s)[Len(p) + i] = s[i]
      /\ \A i \in Places(p \o s) : i \in Places(p) \/ i - Len(p) \in Places(s)
  BY InFront
<1> SUFFICES ASSUME NEW i \in Places(p \o s), (p \o s)[i] \in A
             PROVE  \E j \in 1 .. i - 1 : (p \o s)[j] \in B
  BY DEF Behind
<1>1. CASE i \in Places(p)
  <2>1. PICK j \in 1 .. i - 1 : p[j] \in B
    BY <1>1, <1>0 DEF Behind
  <2>2. j \in Places(p)
    BY <1>1, <1>0 DEF Places
  <2> QED BY <2>1, <2>2, <1>0
<1>2. CASE i - Len(p) \in Places(s)
  <2>1. i \in Nat /\ Len(p) \in Nat /\ Len(p) + (i - Len(p)) = i
    BY <1>0 DEF Places
  <2>2. s[i - Len(p)] \in A
    BY <1>0, <1>2, <2>1
  <2>3. CASE Holds(p, B)
    <3>1. PICK j \in Places(p) : p[j] \in B
      BY <2>3 DEF Holds
    <3>2. j \in 1 .. i - 1
      BY <1>2, <2>1 DEF Places
    <3> QED BY <3>1, <3>2, <1>0
  <2>4. CASE Behind(s, A, B)
    <3>1. PICK j \in 1 .. i - Len(p) - 1 : s[j] \in B
      BY <1>2, <2>2, <2>4 DEF Behind
    <3>2. j \in Places(s) /\ Len(p) + j \in 1 .. i - 1
      BY <1>2, <2>1, <1>0 DEF Places
    <3>3. (p \o s)[Len(p) + j] = s[j]
      BY <3>2, <1>0
    <3> QED BY <3>1, <3>2, <3>3
  <2> QED BY <2>3, <2>4
<1> QED BY <1>1, <1>2, <1>0

LEMMA OnceConcat ==
  ASSUME NEW S, NEW p \in Seq(S), NEW s \in Seq(S), NEW A,
         Once(p, A), Once(s, A), ~Holds(p, A) \/ ~Holds(s, A)
  PROVE  Once(p \o s, A)
<1>0. /\ p \o s \in Seq(S)
      /\ Len(p) \in Nat /\ Len(s) \in Nat
      /\ Len(p \o s) = Len(p) + Len(s)
      /\ \A i \in Places(p) : (p \o s)[i] = p[i]
      /\ \A i \in Places(s) : (p \o s)[Len(p) + i] = s[i]
      /\ \A i \in Places(p \o s) : i \in Places(p) \/ i - Len(p) \in Places(s)
  BY InFront
<1> SUFFICES ASSUME NEW i \in Places(p \o s), NEW j \in Places(p \o s),
                    (p \o s)[i] \in A, (p \o s)[j] \in A
             PROVE  i = j
  BY DEF Once
<1>1. /\ i \in Nat /\ j \in Nat /\ Len(p) \in Nat
      /\ Len(p) + (i - Len(p)) = i /\ Len(p) + (j - Len(p)) = j
  BY <1>0 DEF Places
<1>2. /\ i \in Places(p) => p[i] \in A
      /\ j \in Places(p) => p[j] \in A
      /\ i - Len(p) \in Places(s) => s[i - Len(p)] \in A
      /\ j - Len(p) \in Places(s) => s[j - Len(p)] \in A
  BY <1>1, <1>0
<1>3. i \in Places(p) \/ i - Len(p) \in Places(s)
  BY <1>0
<1>4. j \in Places(p) \/ j - Len(p) \in Places(s)
  BY <1>0
<1>5. CASE i \in Places(p) /\ j \in Places(p)
  BY <1>2, <1>5 DEF Once
<1>6. CASE i - Len(p) \in Places(s) /\ j - Len(p) \in Places(s)
  <2>1. i - Len(p) = j - Len(p)
    BY <1>2, <1>6 DEF Once
  <2> QED BY <1>1, <2>1
<1>7. CASE Holds(p, A) /\ Holds(s, A)
  BY <1>7
<1> QED BY <1>2, <1>3, <1>4, <1>5, <1>6, <1>7 DEF Holds

LEMMA BehindFirst ==
  ASSUME NEW S, NEW s \in Seq(S), s # <<>>
  PROVE  /\ Tail(s) \in Seq(S) /\ Head(s) \in S /\ Head(s) = s[1]
         /\ Len(s) \in Nat /\ Len(Tail(s)) = Len(s) - 1 /\ Len(s) # 0
         /\ \A i \in Places(Tail(s)) : i + 1 \in Places(s) /\ Tail(s)[i] = s[i + 1]
         /\ \A i \in Places(s) : i # 1 => i - 1 \in Places(Tail(s)) /\ Tail(s)[i - 1] = s[i]
  BY EmptySeq, HeadTailProperties DEF Places

LEMMA TailFacts ==
  ASSUME NEW S, NEW s \in Seq(S), s # <<>>, NEW A
  PROVE  /\ Holds(s, A) <=> Head(s) \in A \/ Holds(Tail(s), A)
         /\ Once(s, A) => Once(Tail(s), A) /\ (Head(s) \in A => ~Holds(Tail(s), A))
         /\ \A B : Behind(s, A, B) => Head(s) \notin A
         /\ \A B : Behind(s, A, B) /\ Head(s) \notin B => Behind(Tail(s), A, B)
<1>1. 1 \in Places(s)
  BY BehindFirst DEF Places
<1>2. Holds(s, A) <=> Head(s) \in A \/ Holds(Tail(s), A)
  BY BehindFirst, <1>1 DEF Holds
<1>3. ASSUME Once(s, A), NEW i \in Places(Tail(s)), NEW j \in Places(Tail(s)),
             Tail(s)[i] \in A, Tail(s)[j] \in A
      PROVE  i = j
  <2>1. i + 1 = j + 1
    BY <1>3, BehindFirst DEF Once
  <2> QED BY <2>1 DEF Places
<1>4. ASSUME Once(s, A), Head(s) \in A, NEW i \in Places(Tail(s)), Tail(s)[i] \in A
      PROVE  FALSE
  <2>1. i + 1 = 1
    BY <1>1, <1>4, BehindFirst DEF Once
  <2> QED BY <2>1 DEF Places
<1>5. ASSUME NEW B, Behind(s, A, B)
      PROVE  Head(s) \notin A
  BY <1>1, <1>5, BehindFirst DEF Behind
<1>6. ASSUME NEW B, Behind(s, A, B), Head(s) \notin B, NEW i \in Places(Tail(s)), Tail(s)[i] \in A
      PROVE  \E j \in 1 .. i - 1 : Tail(s)[j] \in B
  <2>1. PICK j \in 1 .. i : s[j] \in B
    <3>1. PICK k \in Places(s) : k = i + 1 /\ s[k] \in A
      BY <1>6, BehindFirst
    <3>2. \E j \in 1 .. k - 1 : s[j] \in B
      BY <1>6, <3>1 DEF Behind
    <3>3. 1 .. k - 1 = 1 .. i
      BY <3>1 DEF Places
    <3> QED BY <3>2, <3>3
  <2>2. j # 1
    BY <1>6, <2>1, BehindFirst
  <2>3. j - 1 \in 1 .. i - 1 /\ j - 1 \in Places(Tail(s)) /\ j \in Places(s)
    BY <2>2, BehindFirst DEF Places
  <2> QED BY <2>1, <2>2, <2>3, BehindFirst
<1> QED BY <1>2, <1>3, <1>4, <1>5, <1>6 DEF Once, Holds, Behind

LEMMA AppendFacts ==
  ASSUME NEW S, NEW s \in Seq(S), NEW x \in S, NEW A
  PROVE  /\ Append(s, x) \in Seq(S)
         /\ Holds(Append(s, x), A) <=> Holds(s, A) \/ x \in A
         /\ Once(s, A) /\ (x \notin A \/ ~Holds(s, A)) => Once(Append(s, x), A)
<1>1. Append(s, x) = s \o <<x>> /\ <<x>> \in Seq(S)
  BY AppendIsConcat
<1>2. Holds(<<x>>, A) <=> x \in A
  BY DEF Holds, Places
<1>3. Once(<<x>>, A)
  BY DEF Once, Places
<1>4. s \o <<x>> \in Seq(S)
  BY <1>1, InFront
<1>5. Holds(s \o <<x>>, A) <=> Holds(s, A) \/ Holds(<<x>>, A)
  BY <1>1, HoldsConcat
<1>6. Once(s, A) /\ (~Holds(s, A) \/ ~Holds(<<x>>, A)) => Once(s \o <<x>>, A)
  BY <1>1, <1>3, OnceConcat
<1> QED BY <1>1, <1>2, <1>4, <1>5, <1>6

LEMMA Short ==
  /\ \A A, B : ~Holds(<<>>, A) /\ Once(<<>>, A) /\ Behind(<<>>, A, B)
  /\ \A a, A : Holds(<<a>>, A) <=> a \in A
  /\ \A a, b, A : Holds(<<a, b>>, A) <=> a \in A \/ b \in A
  /\ \A a, b, c, A : Holds(<<a, b, c>>, A) <=> a \in A \/ b \in A \/ c \in A
  /\ \A a, A : Once(<<a>>, A)
  /\ \A a, b, A, B : Behind(<<a, b>>, A, B) <=> a \notin A /\ (b \in A => a \in B)
  /\ \A a, b, c, A, B : Behind(<<a, b, c>>, A, B) <=>
       a \notin A /\ (b \in A => a \in B) /\ (c \in A => a \in B \/ b \in B)
<1> SUFFICES ASSUME NEW a, NEW b, NEW c, NEW A, NEW B
             PROVE  /\ ~Holds(<<>>, A) /\ Once(<<>>, A) /\ Behind(<<>>, A, B)
                    /\ Holds(<<a>>, A) <=> a \in A
                    /\ Holds(<<a, b>>, A) <=> a \in A \/ b \in A
                    /\ Holds(<<a, b, c>>, A) <=> a \in A \/ b \in A \/ c \in A
                    /\ Once(<<a>>, A)
                    /\ Behind(<<a, b>>, A, B) <=> a \notin A /\ (b \in A => a \in B)
                    /\ Behind(<<a, b, c>>, A, B) <=>
                         a \notin A /\ (b \in A => a \in B) /\ (c \in A => a \in B \/ b \in B)
  BY Zenon
<1>1. /\ Places(<<>>) = {} /\ Places(<<a>>) = {1} /\ Places(<<a, b>>) = {1, 2}
      /\ Places(<<a, b, c>>) = {1, 2, 3}
  BY DEF Places
<1>2. 1 .. 1 - 1 = {} /\ 1 .. 2 - 1 = {1} /\ 1 .. 3 - 1 = {1, 2}
  OBVIOUS
<1>3. ~Holds(<<>>, A) /\ Once(<<>>, A) /\ Behind(<<>>, A, B)
  BY <1>1 DEF Holds, Once, Behind
<1>4. /\ Holds(<<a>>, A) <=> a \in A
      /\ Once(<<a>>, A)
  BY <1>1, <1>2 DEF Holds, Once
<1>5. /\ Holds(<<a, b>>, A) <=> a \in A \/ b \in A
      /\ Holds(<<a, b, c>>, A) <=> a \in A \/ b \in A \/ c \in A
  BY <1>1 DEF Holds
<1>6. Behind(<<a, b>>, A, B) <=> a \notin A /\ (b \in A => a \in B)
  BY <1>1, <1>2 DEF Behind
<1>7. Behind(<<a, b, c>>, A, B) <=>
        a \notin A /\ (b \in A => a \in B) /\ (c \in A => a \in B \/ b \in B)
  BY <1>1, <1>2 DEF Behind
<1> QED BY <1>3, <1>4, <1>5, <1>6, <1>7

LEMMA Tuples ==
  ASSUME NEW S, NEW a \in S
  PROVE  /\ <<a>> \in Seq(S)
         /\ \A b \in S : <<a, b>> \in Seq(S)
         /\ \A b, c \in S : <<a, b, c>> \in Seq(S)
         /\ \A b, c, d \in S : <<a, b, c, d>> \in Seq(S)
  OBVIOUS

-----------------------------------------------------------------------------
(* The inductive invariant.                                                 *)

Opening == {"OnConnect", "emplace", "readable", "OnRead", "write"}
Ending == {"OnClose", "erase", "unlink"}
Closing == {"accept", "await", "lock", "close", "members"}

Frames == [step : Opening \cup Ending \cup Closing, conn : Conns \cup {None}, own : BOOLEAN]
Closures == {"listen", "remove", "connect", "end"} \X (Conns \cup Threads \cup {None})

\* The states of a connection whose Start has run on its loop.
Begun == {"connected", "disconnecting", "disconnected"}
USE DEF Begun

Types ==
  /\ started \in BOOLEAN /\ closed \in BOOLEAN /\ destroying \in BOOLEAN
  /\ listening \in {"no", "yes", "removed"}
  /\ loop \in [Conns -> Workers \cup {None}]
  /\ state \in [Conns -> {"none", "connecting", "connected", "disconnecting", "disconnected"}]
  /\ backlog \subseteq Conns /\ channels \subseteq Conns /\ context \subseteq Conns
  /\ conns \subseteq Conns /\ todo \subseteq Conns
  /\ mu \in Threads \cup {None}
  /\ counted \subseteq Threads /\ closers \subseteq Threads
  /\ calls \in 0 .. MaxCloses /\ files \in 1 .. MaxFiles
  /\ crashed \in {"no", "null", "closure", "event"}
  /\ stack \in [Threads -> Seq(Frames)]
  /\ queue \in [Loops -> Seq(Closures)]

\* What t may have to do: steps of a connection are left to its own loop, the
\* last ones once it has ended.
FramesOf(t) ==
  {f \in Frames :
     /\ f.step \in Opening \cup Ending => f.conn \in Conns /\ loop[f.conn] = t
     /\ f.step \in Opening => state[f.conn] \in Begun
     /\ f.step \in Ending => state[f.conn] = "disconnected"
     /\ f.step = "members" => t \in Users}

ClosuresOf(l) ==
  {q \in Closures :
     /\ q[1] = "listen" => l = Boss
     /\ q[1] = "remove" => l = Boss /\ q[2] \in Threads
     /\ q[1] \in {"connect", "end"} => q[2] \in Conns /\ loop[q[2]] = l /\ state[q[2]] # "none"
     /\ q[1] = "end" => state[q[2]] = "disconnected"}

ShapeInv ==
  /\ \A t \in Threads : stack[t] \in Seq(FramesOf(t))
  /\ \A l \in Loops : queue[l] \in Seq(ClosuresOf(l))

\* A connection is begun once, and inserted after that.
Connects(c) == {q \in Closures : q = <<"connect", c>>}

BeginInv ==
  /\ \A c \in backlog : state[c] = "none"
  /\ \A c \in Conns : state[c] # "none" => loop[c] \in Workers
  /\ \A c \in conns \cup channels : state[c] \in Begun
  /\ \A l \in Loops, c \in Conns :
       /\ Holds(queue[l], Connects(c)) => state[c] = "connecting"
       /\ Once(queue[l], Connects(c))

\* Under mu_, what TcpServer::Close has come to is not connected any more.
With(step) == {f \in Frames : f.step = step}

LockInv ==
  /\ \A t \in Threads : Holds(stack[t], With("close")) => mu = t
  /\ \A t \in Threads : Once(stack[t], With("close"))
  /\ mu # None => \A c \in conns \ todo : state[c] # "connected"

\* A connection that is open and not in conns_ is held by the closure of its
\* Start, which has still to insert it.  TcpServer::Close drops one that is being
\* shut down.
Emplacing(c) == {f \in Frames : f.step = "emplace" /\ f.conn = c}
Readable(c) == {f \in Frames : f.step = "readable" /\ f.conn = c /\ f.own = TRUE}

Needed(c) == state[c] = "connected" \/ (state[c] = "disconnecting" /\ ~closed)

OwnInv == \A c \in Conns : Needed(c) =>
  \/ c \in conns
  \/ /\ Holds(stack[loop[c]], Readable(c))
     /\ crashed = "no" => Behind(stack[loop[c]], Readable(c), Emplacing(c))

\* A connection that ended inside its own OnConnect loses its context before it
\* would be inserted.
Erasing(c) == {f \in Frames : f = Frame("erase", c, FALSE)}
Unlinking(c) == {f \in Frames : f.step = "unlink" /\ f.conn = c}

TrackInv == crashed = "no" =>
  /\ \A c \in conns : c \in channels \/ Holds(stack[loop[c]], Erasing(c))
  /\ \A c \in context \ channels : state[c] \in Begun =>
       Behind(stack[loop[c]], Emplacing(c), Unlinking(c))

\* The acceptor is added and removed once, and Close goes on when it is removed.
Listens == {q \in Closures : q[1] = "listen"}

ListenInv ==
  /\ ~started => listening = "no"
  /\ Holds(queue[Boss], Listens) => started /\ listening = "no"
  /\ Once(queue[Boss], Listens)
  /\ counted # {} => listening = "removed"
  /\ closed => listening = "removed"
  /\ listening = "removed" /\ Boss \notin closers => ~Holds(stack[Boss], With("accept"))
  /\ \A t \in Threads : Holds(stack[t], With("close")) => listening = "removed"
  /\ \A t \in Threads :
       listening = "removed" \/ Behind(stack[t], With("lock"), With("await"))

IInv == Types /\ ShapeInv /\ BeginInv /\ LockInv /\ OwnInv /\ TrackInv /\ ListenInv

-----------------------------------------------------------------------------
(* How the stack of a thread and the queue of a loop move.                  *)

LEMMA WiderSeq ==
  ASSUME NEW S, NEW T, S \subseteq T, NEW s \in Seq(S)
  PROVE  s \in Seq(T)
  OBVIOUS

LEMMA FirstFacts ==
  ASSUME stack \in [Threads -> Seq(Frames)],
         NEW t \in Threads, NEW p \in Seq(Frames), First(t, p)
  PROVE  /\ stack' \in [Threads -> Seq(Frames)]
         /\ stack'[t] = p \o stack[t]
         /\ \A u \in Threads : u # t => stack'[u] = stack[u]
         /\ \A A : Holds(stack'[t], A) <=> Holds(p, A) \/ Holds(stack[t], A)
         /\ \A A, B : Behind(p, A, B) /\ (Behind(stack[t], A, B) \/ Holds(p, B)) =>
                        Behind(stack'[t], A, B)
         /\ \A A : Once(p, A) /\ Once(stack[t], A) /\ (~Holds(p, A) \/ ~Holds(stack[t], A)) =>
                     Once(stack'[t], A)
<1>1. stack[t] \in Seq(Frames) /\ stack'[t] = p \o stack[t]
  BY DEF First
<1>2. p \o stack[t] \in Seq(Frames)
  BY <1>1, InFront
<1>3. stack' \in [Threads -> Seq(Frames)] /\ \A u \in Threads : u # t => stack'[u] = stack[u]
  BY <1>1, <1>2 DEF First
<1>4. \A A : Holds(p \o stack[t], A) <=> Holds(p, A) \/ Holds(stack[t], A)
  BY <1>1, HoldsConcat
<1>5. \A A, B : Behind(p, A, B) /\ (Behind(stack[t], A, B) \/ Holds(p, B)) =>
                  Behind(p \o stack[t], A, B)
  BY <1>1, BehindConcat
<1>6. \A A : Once(p, A) /\ Once(stack[t], A) /\ (~Holds(p, A) \/ ~Holds(stack[t], A)) =>
               Once(p \o stack[t], A)
  BY <1>1, OnceConcat
<1> QED BY <1>1, <1>3, <1>4, <1>5, <1>6

LEMMA ThenFacts ==
  ASSUME stack \in [Threads -> Seq(Frames)],
         NEW t \in Threads, ~Idle(t), NEW p \in Seq(Frames), Then(t, p)
  PROVE  /\ stack' \in [Threads -> Seq(Frames)]
         /\ Tail(stack[t]) \in Seq(Frames) /\ stack'[t] = p \o Tail(stack[t])
         /\ \A u \in Threads : u # t => stack'[u] = stack[u]
         /\ \A A : Holds(stack[t], A) <=> Head(stack[t]) \in A \/ Holds(Tail(stack[t]), A)
         /\ \A A : Holds(stack'[t], A) <=> Holds(p, A) \/ Holds(Tail(stack[t]), A)
         /\ \A A, B : Behind(stack[t], A, B) => Head(stack[t]) \notin A
         /\ \A A, B : Behind(p, A, B) /\ Behind(stack[t], A, B) /\ Head(stack[t]) \notin B =>
                        Behind(stack'[t], A, B)
         /\ \A A : Once(p, A) /\ Once(stack[t], A) /\ (~Holds(p, A) \/ Head(stack[t]) \in A) =>
                     Once(stack'[t], A)
         /\ \A A : Once(stack[t], A) /\ Head(stack[t]) \in A => ~Holds(Tail(stack[t]), A)
<1>1. stack[t] \in Seq(Frames) /\ stack[t] # <<>> /\ stack'[t] = p \o Tail(stack[t])
  BY DEF Then, Idle
<1>2. Tail(stack[t]) \in Seq(Frames)
  BY <1>1, BehindFirst
<1>3. p \o Tail(stack[t]) \in Seq(Frames)
  BY <1>2, InFront
<1>4. stack' \in [Threads -> Seq(Frames)] /\ \A u \in Threads : u # t => stack'[u] = stack[u]
  BY <1>1, <1>3 DEF Then
<1>5. \A A : Holds(p \o Tail(stack[t]), A) <=> Holds(p, A) \/ Holds(Tail(stack[t]), A)
  BY <1>2, HoldsConcat
<1>6. \A A : /\ Holds(stack[t], A) <=> Head(stack[t]) \in A \/ Holds(Tail(stack[t]), A)
             /\ Once(stack[t], A) =>
                  Once(Tail(stack[t]), A) /\ (Head(stack[t]) \in A => ~Holds(Tail(stack[t]), A))
             /\ \A B : Behind(stack[t], A, B) => Head(stack[t]) \notin A
             /\ \A B : Behind(stack[t], A, B) /\ Head(stack[t]) \notin B =>
                         Behind(Tail(stack[t]), A, B)
  BY <1>1, TailFacts
<1>7. \A A, B : Behind(p, A, B) /\ Behind(Tail(stack[t]), A, B) => Behind(p \o Tail(stack[t]), A, B)
  BY <1>2, BehindConcat
<1>8. \A A : Once(p, A) /\ Once(Tail(stack[t]), A) /\ (~Holds(p, A) \/ ~Holds(Tail(stack[t]), A)) =>
               Once(p \o Tail(stack[t]), A)
  BY <1>2, OnceConcat
<1>9. \A A, B : Behind(p, A, B) /\ Behind(stack[t], A, B) /\ Head(stack[t]) \notin B =>
                  Behind(p \o Tail(stack[t]), A, B)
  BY <1>6, <1>7
<1>10. \A A : Once(p, A) /\ Once(stack[t], A) /\ (~Holds(p, A) \/ Head(stack[t]) \in A) =>
                Once(p \o Tail(stack[t]), A)
  BY <1>6, <1>8
<1>11. /\ \A A : Holds(stack[t], A) <=> Head(stack[t]) \in A \/ Holds(Tail(stack[t]), A)
       /\ \A A, B : Behind(stack[t], A, B) => Head(stack[t]) \notin A
       /\ \A A : Once(stack[t], A) /\ Head(stack[t]) \in A => ~Holds(Tail(stack[t]), A)
  BY <1>6
<1>12. /\ \A A : Holds(stack'[t], A) <=> Holds(p, A) \/ Holds(Tail(stack[t]), A)
       /\ \A A, B : Behind(p, A, B) /\ Behind(stack[t], A, B) /\ Head(stack[t]) \notin B =>
                       Behind(stack'[t], A, B)
       /\ \A A : Once(p, A) /\ Once(stack[t], A) /\ (~Holds(p, A) \/ Head(stack[t]) \in A) =>
                    Once(stack'[t], A)
  BY <1>1, <1>5, <1>9, <1>10
<1> QED BY <1>1, <1>2, <1>4, <1>11, <1>12

LEMMA PushFacts ==
  ASSUME queue \in [Loops -> Seq(Closures)], NEW l \in Loops, NEW q \in Closures, Push(l, q)
  PROVE  /\ queue' \in [Loops -> Seq(Closures)]
         /\ queue'[l] = Append(queue[l], q)
         /\ \A m \in Loops : m # l => queue'[m] = queue[m]
         /\ \A A : Holds(queue'[l], A) <=> Holds(queue[l], A) \/ q \in A
         /\ \A A : Once(queue[l], A) /\ (q \notin A \/ ~Holds(queue[l], A)) => Once(queue'[l], A)
<1>1. queue[l] \in Seq(Closures) /\ queue'[l] = Append(queue[l], q)
  BY DEF Push
<1>2. \A A : /\ Append(queue[l], q) \in Seq(Closures)
             /\ Holds(Append(queue[l], q), A) <=> Holds(queue[l], A) \/ q \in A
             /\ Once(queue[l], A) /\ (q \notin A \/ ~Holds(queue[l], A)) =>
                  Once(Append(queue[l], q), A)
  BY <1>1, AppendFacts
<1>3. queue' \in [Loops -> Seq(Closures)] /\ \A m \in Loops : m # l => queue'[m] = queue[m]
  BY <1>1, <1>2 DEF Push
<1> QED BY <1>1, <1>2, <1>3

LEMMA PullFacts ==
  ASSUME queue \in [Loops -> Seq(Closures)], NEW l \in Loops, queue[l] # <<>>,
         queue' = [queue EXCEPT ![l] = Tail(@)]
  PROVE  /\ queue' \in [Loops -> Seq(Closures)]
         /\ queue'[l] = Tail(queue[l]) /\ Head(queue[l]) \in Closures
         /\ \A m \in Loops : m # l => queue'[m] = queue[m]
         /\ \A A : Holds(queue[l], A) <=> Head(queue[l]) \in A \/ Holds(queue'[l], A)
         /\ \A A : Once(queue[l], A) =>
              Once(queue'[l], A) /\ (Head(queue[l]) \in A => ~Holds(queue'[l], A))
<1>1. queue[l] \in Seq(Closures) /\ queue'[l] = Tail(queue[l])
  OBVIOUS
<1>2. Tail(queue[l]) \in Seq(Closures) /\ Head(queue[l]) \in Closures
  BY <1>1, BehindFirst
<1>3. queue' \in [Loops -> Seq(Closures)] /\ \A m \in Loops : m # l => queue'[m] = queue[m]
  BY <1>1, <1>2
<1>4. \A A : /\ Holds(queue[l], A) <=> Head(queue[l]) \in A \/ Holds(Tail(queue[l]), A)
             /\ Once(queue[l], A) =>
                  Once(Tail(queue[l]), A) /\ (Head(queue[l]) \in A => ~Holds(Tail(queue[l]), A))
  BY <1>1, TailFacts
<1> QED BY <1>1, <1>2, <1>3, <1>4

\* A frame of the program is a frame, and stays what it is.
LEMMA FrameFacts ==
  /\ \A step \in Opening \cup Ending \cup Closing, c \in Conns \cup {None}, own \in BOOLEAN :
       Frame(step, c, own) \in Frames /\ Frame(step, c, own).step = step
         /\ Frame(step, c, own).conn = c /\ Frame(step, c, own).own = own
  /\ \A step \in Closing : Step(step) \in Frames /\ Step(step).step = step
  BY DEF Frame, Step, Frames

LEMMA Lacking ==
  ASSUME NEW p, NEW A, NEW B, ~Holds(p, A)
  PROVE  Once(p, A) /\ Behind(p, A, B)
  BY DEF Holds, Once, Behind

\* What is put on a stack, and the marks of it that the invariant looks at.
Marks(p) ==
  /\ \A c \in Conns : ~Holds(p, Readable(c)) /\ ~Holds(p, Emplacing(c))
  /\ \A step \in Closing : ~Holds(p, With(step))

Writes(c) == {<<>>, <<Frame("write", c, FALSE)>>}

ReadFrames(c) == <<Frame("OnRead", c, FALSE)>>

LEMMA ReadFacts ==
  ASSUME NEW c \in Conns, NEW more \in Writes(c), NEW p, p = ReadFrames(c) \o more
  PROVE  /\ p \in Seq(Frames) /\ Marks(p)
         /\ \A S : Frame("OnRead", c, FALSE) \in S /\ Frame("write", c, FALSE) \in S => p \in Seq(S)
<1> DEFINE r == Frame("OnRead", c, FALSE)
<1> DEFINE w == Frame("write", c, FALSE)
<1>1. r \in Frames /\ w \in Frames /\ r.step = "OnRead" /\ w.step = "write"
  BY DEF Frame, Frames, Opening
<1>2. p = <<r>> \o more /\ more \in {<<>>, <<w>>}
  BY DEF Writes, ReadFrames
<1> HIDE DEF r, w
<1>3. p \in {<<r>>, <<r>> \o <<w>>}
  <2>1. <<r>> \o <<>> = <<r>>
    OBVIOUS
  <2> QED BY <1>2, <2>1
<1>4. ASSUME NEW S, r \in S, w \in S
      PROVE  p \in Seq(S)
  <2>1. <<r>> \in Seq(S) /\ <<w>> \in Seq(S)
    BY <1>4, Tuples
  <2>2. <<r>> \o <<w>> \in Seq(S)
    BY <2>1, InFront
  <2> QED BY <1>3, <2>1, <2>2
<1>5. \A A : Holds(p, A) => r \in A \/ w \in A
  <2>1. <<r>> \in Seq(Frames) /\ <<w>> \in Seq(Frames)
    BY <1>1, Tuples
  <2>2. \A A : Holds(<<r>> \o <<w>>, A) <=> Holds(<<r>>, A) \/ Holds(<<w>>, A)
    BY <2>1, HoldsConcat
  <2>3. \A A : (Holds(<<r>>, A) <=> r \in A) /\ (Holds(<<w>>, A) <=> w \in A)
    BY Short
  <2> QED BY <1>3, <2>2, <2>3
<1>6. Marks(p)
  BY <1>1, <1>5 DEF Marks, Readable, Emplacing, With, Closing
<1>7. p \in Seq(Frames)
  BY <1>1, <1>4
<1> QED BY <1>4, <1>6, <1>7 DEF r, w

LEMMA EndFacts ==
  ASSUME NEW c \in Conns, NEW own \in BOOLEAN, NEW more \in Writes(c), NEW p,
         p = EndFrames(c, own) \o more \/ p = EndFrames(c, own)
  PROVE  /\ p \in Seq(Frames) /\ Marks(p)
         /\ Holds(p, Erasing(c)) /\ Holds(p, Unlinking(c))
         /\ \A S : /\ Frame("OnClose", c, FALSE) \in S /\ Frame("erase", c, FALSE) \in S
                  /\ Frame("unlink", c, own) \in S /\ Frame("write", c, FALSE) \in S
                  => p \in Seq(S)
<1> DEFINE f == Frame("OnClose", c, FALSE)
<1> DEFINE e == Frame("erase", c, FALSE)
<1> DEFINE u == Frame("unlink", c, own)
<1> DEFINE w == Frame("write", c, FALSE)
<1>1. /\ f \in Frames /\ e \in Frames /\ u \in Frames /\ w \in Frames
      /\ f.step = "OnClose" /\ e.step = "erase" /\ u.step = "unlink" /\ w.step = "write"
      /\ u.conn = c
  BY DEF Frame, Frames, Opening, Ending
<1>2. EndFrames(c, own) = <<f, e, u>> /\ more \in {<<>>, <<w>>}
  BY DEF EndFrames, Writes
<1>3. e \in Erasing(c) /\ u \in Unlinking(c)
  BY <1>1 DEF Erasing, Unlinking
<1> HIDE DEF f, e, u, w
<1>4. p \in {<<f, e, u>>, <<f, e, u>> \o <<w>>}
  <2>1. <<f, e, u>> \o <<>> = <<f, e, u>>
    OBVIOUS
  <2> QED BY <1>2, <2>1
<1>5. ASSUME NEW S, f \in S, e \in S, u \in S, w \in S
      PROVE  p \in Seq(S)
  <2>1. <<f, e, u>> \in Seq(S) /\ <<w>> \in Seq(S)
    BY <1>5, Tuples
  <2>2. <<f, e, u>> \o <<w>> \in Seq(S)
    BY <2>1, InFront
  <2> QED BY <1>4, <2>1, <2>2
<1>6. /\ \A A : Holds(p, A) => f \in A \/ e \in A \/ u \in A \/ w \in A
      /\ \A A : e \in A \/ u \in A => Holds(p, A)
  <2>1. <<f, e, u>> \in Seq(Frames) /\ <<w>> \in Seq(Frames)
    BY <1>1, Tuples
  <2>2. \A A : Holds(<<f, e, u>> \o <<w>>, A) <=> Holds(<<f, e, u>>, A) \/ Holds(<<w>>, A)
    BY <2>1, HoldsConcat
  <2>3. CASE p = <<f, e, u>>
    BY <2>3, Short
  <2>4. CASE p = <<f, e, u>> \o <<w>>
    <3>1. \A A : Holds(<<w>>, A) <=> w \in A
      BY Short
    <3>2. \A A : Holds(<<f, e, u>>, A) <=> f \in A \/ e \in A \/ u \in A
      BY Short
    <3> QED BY <2>2, <2>4, <3>1, <3>2
  <2> QED BY <1>4, <2>3, <2>4
<1>7. Holds(p, Erasing(c)) /\ Holds(p, Unlinking(c))
  BY <1>3, <1>6
<1>8. Marks(p)
  BY <1>1, <1>6 DEF Marks, Readable, Emplacing, With, Closing
<1>9. p \in Seq(Frames)
  BY <1>1, <1>5
<1> QED BY <1>5, <1>7, <1>8, <1>9 DEF f, e, u, w

LEMMA ConnectFacts ==
  ASSUME NEW c \in Conns
  PROVE  /\ ConnectFrames(c) \in Seq(Frames)
         /\ Holds(ConnectFrames(c), Readable(c))
         /\ \A d \in Conns : Behind(ConnectFrames(c), Readable(d), Emplacing(d))
         /\ \A d \in Conns : d # c => ~Holds(ConnectFrames(c), Emplacing(d))
         /\ \A step \in Closing : ~Holds(ConnectFrames(c), With(step))
         /\ \A S : /\ Frame("OnConnect", c, FALSE) \in S /\ Frame("emplace", c, FALSE) \in S
                  /\ Frame("readable", c, TRUE) \in S
                  => ConnectFrames(c) \in Seq(S)
<1> DEFINE f == Frame("OnConnect", c, FALSE)
<1> DEFINE e == Frame("emplace", c, FALSE)
<1> DEFINE r == Frame("readable", c, TRUE)
<1>1. /\ f \in Frames /\ e \in Frames /\ r \in Frames
      /\ f.step = "OnConnect" /\ e.step = "emplace" /\ r.step = "readable"
      /\ e.conn = c /\ r.conn = c /\ r.own = TRUE
  BY DEF Frame, Frames, Opening
<1>2. ConnectFrames(c) = <<f, e, r>>
  BY DEF ConnectFrames
<1> HIDE DEF f, e, r
<1>3. \A S : f \in S /\ e \in S /\ r \in S => ConnectFrames(c) \in Seq(S)
  BY <1>2, Tuples
<1>4. \A A : Holds(ConnectFrames(c), A) <=> f \in A \/ e \in A \/ r \in A
  BY <1>2, Short
<1>5. Holds(ConnectFrames(c), Readable(c))
  BY <1>1, <1>4 DEF Readable
<1>6. \A d \in Conns : Behind(ConnectFrames(c), Readable(d), Emplacing(d))
  BY <1>1, <1>2, Short DEF Readable, Emplacing
<1>7. \A d \in Conns : d # c => ~Holds(ConnectFrames(c), Emplacing(d))
  BY <1>1, <1>4 DEF Emplacing
<1>8. \A step \in Closing : ~Holds(ConnectFrames(c), With(step))
  BY <1>1, <1>4 DEF With, Closing
<1>9. ConnectFrames(c) \in Seq(Frames)
  BY <1>1, <1>3
<1> QED BY <1>3, <1>5, <1>6, <1>7, <1>8, <1>9 DEF f, e, r

LEMMA CloseFacts ==
  ASSUME NEW p, p \in {CloseFrames, CloseFrames \o <<Step("members")>>}
  PROVE  /\ p \in Seq(Frames)
         /\ \A c \in Conns : ~Holds(p, Readable(c)) /\ ~Holds(p, Emplacing(c))
         /\ \A step \in {"accept", "close"} : ~Holds(p, With(step))
         /\ Behind(p, With("lock"), With("await"))
         /\ p \in {<<Step("await"), Step("lock")>>, <<Step("await"), Step("lock"), Step("members")>>}
<1> DEFINE a == Step("await")
<1> DEFINE l == Step("lock")
<1> DEFINE m == Step("members")
<1>1. /\ a \in Frames /\ l \in Frames /\ m \in Frames
      /\ a.step = "await" /\ l.step = "lock" /\ m.step = "members"
  BY FrameFacts DEF Closing
<1>2. p = <<a, l>> \/ p = <<a, l>> \o <<m>>
  BY DEF CloseFrames
<1> HIDE DEF a, l, m
<1>3. p \in {<<a, l>>, <<a, l, m>>}
  BY <1>2
<1>4. p \in Seq(Frames)
  BY <1>1, <1>3, Tuples
<1>5. \A A : Holds(p, A) => a \in A \/ l \in A \/ m \in A
  BY <1>3, Short
<1>6. Behind(p, With("lock"), With("await"))
  BY <1>1, <1>3, Short DEF With
<1>7. /\ \A c \in Conns : ~Holds(p, Readable(c)) /\ ~Holds(p, Emplacing(c))
      /\ \A step \in {"accept", "close"} : ~Holds(p, With(step))
  BY <1>1, <1>5 DEF Readable, Emplacing, With
<1> QED BY <1>3, <1>4, <1>6, <1>7 DEF a, l, m

LEMMA StepFacts ==
  ASSUME NEW step \in Closing
  PROVE  /\ <<Step(step)>> \in Seq(Frames)
         /\ \A A : Holds(<<Step(step)>>, A) <=> Step(step) \in A
         /\ \A other \in Opening \cup Ending \cup Closing :
              Holds(<<Step(step)>>, With(other)) <=> step = other
         /\ \A c \in Conns : ~Holds(<<Step(step)>>, Readable(c)) /\ ~Holds(<<Step(step)>>, Emplacing(c))
<1>1. Step(step) \in Frames /\ Step(step).step = step
  BY FrameFacts
<1>2. \A A : Holds(<<Step(step)>>, A) <=> Step(step) \in A
  BY Short
<1> QED BY <1>1, <1>2 DEF With, Readable, Emplacing, Closing

-----------------------------------------------------------------------------
(* What an action does to the stack, the queue and the connections.         *)

LEMMA HeadFacts ==
  ASSUME Types, ShapeInv, NEW t \in Threads, ~Idle(t)
  PROVE  Head(stack[t]) \in FramesOf(t) /\ Head(stack[t]) \in Frames
  BY BehindFirst DEF ShapeInv, Idle, FramesOf

LEMMA QueueHeadFacts ==
  ASSUME Types, ShapeInv, NEW l \in Loops, queue[l] # <<>>
  PROVE  /\ Head(queue[l]) \in ClosuresOf(l) /\ Head(queue[l]) \in Closures
         /\ Head(queue[l]) = <<Head(queue[l])[1], Head(queue[l])[2]>>
<1>1. Head(queue[l]) \in ClosuresOf(l)
  BY BehindFirst DEF ShapeInv
<1>2. Head(queue[l]) \in Closures
  BY <1>1 DEF ClosuresOf
<1> QED BY <1>1, <1>2 DEF Closures

\* Close, ForceClose, Shutdown or ForceShutdown of a connection that is open.
Ends(t, c) == Open(c) /\ (EndConn(t, c) \/ ShutConn(c))

LEMMA EndConnFacts ==
  ASSUME Types, BeginInv, NEW t \in Threads, NEW c \in Conns, Ends(t, c)
  PROVE  /\ state' \in [Conns -> {"none", "connecting", "connected", "disconnecting", "disconnected"}]
         /\ state'[c] \in {"disconnecting", "disconnected"}
         /\ state[c] \in {"connected", "disconnecting"}
         /\ \A d \in Conns : d # c => state'[d] = state[d]
         /\ loop[c] \in Workers /\ loop[c] \in Loops /\ loop[c] \in Threads
         /\ channels' \subseteq channels /\ channels \ {c} \subseteq channels'
         /\ \/ channels' = channels /\ UNCHANGED stack
            \/ t = loop[c] /\ First(t, EndFrames(c, TRUE)) /\ state'[c] = "disconnected"
         /\ queue' = queue \/ (Push(loop[c], <<"end", c>>) /\ state'[c] = "disconnected")
<1>0. state[c] \in {"connected", "disconnecting"} /\ loop[c] \in Workers
  BY DEF Ends, Open, BeginInv
<1>1. loop[c] \in Loops /\ loop[c] \in Threads
  BY <1>0 DEF Loops, Threads
<1>2. CASE EndConn(t, c)
  <2>1. state' = [state EXCEPT ![c] = "disconnected"]
    BY <1>2 DEF EndConn
  <2>2. /\ state' \in [Conns -> {"none", "connecting", "connected", "disconnecting", "disconnected"}]
        /\ state'[c] = "disconnected"
        /\ \A d \in Conns : d # c => state'[d] = state[d]
    BY <2>1 DEF Types
  <2>3. channels' \subseteq channels /\ channels \ {c} \subseteq channels'
    BY <1>2 DEF EndConn
  <2>4. /\ \/ channels' = channels /\ UNCHANGED stack
           \/ t = loop[c] /\ First(t, EndFrames(c, TRUE))
        /\ queue' = queue \/ Push(loop[c], <<"end", c>>)
    BY <1>2 DEF EndConn
  <2> QED BY <1>0, <1>1, <2>2, <2>3, <2>4
<1>3. CASE ShutConn(c)
  <2>1. state' = [state EXCEPT ![c] = "disconnecting"] /\ UNCHANGED <<channels, queue, stack>>
    BY <1>3 DEF ShutConn
  <2>2. /\ state' \in [Conns -> {"none", "connecting", "connected", "disconnecting", "disconnected"}]
        /\ state'[c] = "disconnecting"
        /\ \A d \in Conns : d # c => state'[d] = state[d]
    BY <2>1 DEF Types
  <2> QED BY <1>0, <1>1, <2>1, <2>2
<1> QED BY <1>2, <1>3 DEF Ends

\* The handler's own connection.
LEMMA HandlerFacts ==
  ASSUME Types, ShapeInv, NEW t \in Threads, HandlerEnds(t)
  PROVE  /\ ~Idle(t) /\ Current(t) \in Conns /\ Ends(t, Current(t)) /\ loop[Current(t)] = t
         /\ UNCHANGED <<serverVars, loop, context, lockVars, histVars, crashed>>
<1>1. ~Idle(t) /\ Head(stack[t]).step \in {"OnConnect", "OnRead", "OnClose"}
  BY DEF HandlerEnds, InHandler, At
<1>2. Current(t) \in Conns /\ loop[Current(t)] = t
  BY <1>1, HeadFacts DEF FramesOf, Opening, Ending, Current
<1> QED BY <1>1, <1>2 DEF HandlerEnds, Ends

LEMMA CloseOneFacts ==
  ASSUME Types, NEW t \in Threads, NEW c \in Conns, CloseOne(t, c)
  PROVE  /\ ~Idle(t) /\ Head(stack[t]).step = "close"
         /\ c \in todo /\ todo' = todo \ {c}
         /\ \/ Ends(t, c)
            \/ state[c] # "connected" /\ UNCHANGED <<state, channels, queue, stack>>
         /\ UNCHANGED <<serverVars, loop, context, conns, mu, histVars, crashed>>
  BY DEF CloseOne, At, Ends, Open

LEMMA UserEndsFacts ==
  ASSUME NEW t \in Threads, NEW c \in Conns, UserEnds(t, c)
  PROVE  /\ Ends(t, c) /\ c \in conns
         /\ UNCHANGED <<serverVars, loop, context, lockVars, histVars, crashed>>
  BY DEF UserEnds, Ends

LEMMA CloseAcceptorFacts ==
  ASSUME Types, NEW t \in Threads, CloseAcceptor(t)
  PROVE  /\ listening' \in {"no", "yes", "removed"} /\ counted' \subseteq Threads
         /\ listening = "no" => listening' = "no"
         /\ listening = "removed" => listening' = "removed"
         /\ counted' # counted => listening' = "removed"
         /\ listening' # listening => t = Boss
         /\ queue' = queue \/ (t # Boss /\ Push(Boss, <<"remove", t>>))
<1>1. CASE t # Boss
  BY <1>1 DEF CloseAcceptor, Types
<1>2. CASE t = Boss /\ listening = "yes"
  <2>1. listening' = "removed" /\ counted' = counted \cup {t} /\ UNCHANGED queue
    BY <1>2 DEF CloseAcceptor, RemoveNow
  <2> QED BY <1>2, <2>1 DEF Types
<1>3. CASE t = Boss /\ listening # "yes"
  <2>1. UNCHANGED <<listening, counted, queue>>
    BY <1>3 DEF CloseAcceptor, RemoveNow
  <2> QED BY <1>3, <2>1 DEF Types
<1> QED BY <1>1, <1>2, <1>3

\* The closures that a loop may run.
RunsListen(l) == l = Boss /\ Head(queue[l])[1] = "listen" /\ Listen /\ UNCHANGED crashed
RunsRemove(l) == l = Boss /\ (\E t \in Threads : RemoveAcceptor(t)) /\ UNCHANGED crashed
RunsConnect(l, c) ==
  /\ Head(queue[l]) = <<"connect", c>> /\ loop[c] = l /\ state[c] = "connecting"
  /\ RunConnect(l, c)
RunsEnd(l, c) == loop[c] = l /\ state[c] = "disconnected" /\ RunEnd(l, c)

LEMMA RunFacts ==
  ASSUME Types, ShapeInv, BeginInv, NEW l \in Loops, RunClosure(l)
  PROVE  /\ l \in Threads /\ Idle(l) /\ queue[l] # <<>>
         /\ queue' = [queue EXCEPT ![l] = Tail(@)]
         /\ UNCHANGED <<lockVars, histVars>>
         /\ \/ RunsListen(l) \/ RunsRemove(l)
            \/ \E c \in Conns : RunsConnect(l, c) \/ RunsEnd(l, c)
<1>1. /\ Idle(l) /\ queue[l] # <<>> /\ l \in Threads
      /\ queue' = [queue EXCEPT ![l] = Tail(@)]
      /\ UNCHANGED <<lockVars, histVars>>
  BY DEF RunClosure, Threads
<1> DEFINE kind == Head(queue[l])[1]
<1> DEFINE arg == Head(queue[l])[2]
<1>2. /\ Head(queue[l]) \in ClosuresOf(l) /\ Head(queue[l]) \in Closures
      /\ Head(queue[l]) = <<kind, arg>>
  BY <1>1, QueueHeadFacts
<1>3. \/ kind = "listen" /\ Listen /\ UNCHANGED crashed
      \/ kind = "remove" /\ RemoveAcceptor(arg) /\ UNCHANGED crashed
      \/ kind = "connect" /\ RunConnect(l, arg)
      \/ kind = "end" /\ RunEnd(l, arg)
  BY DEF RunClosure
<1>4. CASE kind = "listen" /\ Listen /\ UNCHANGED crashed
  BY <1>1, <1>2, <1>4 DEF ClosuresOf, RunsListen
<1>5. CASE kind = "remove" /\ RemoveAcceptor(arg) /\ UNCHANGED crashed
  BY <1>1, <1>2, <1>5 DEF ClosuresOf, RunsRemove
<1>6. CASE kind = "connect" /\ RunConnect(l, arg)
  <2>1. arg \in Conns /\ loop[arg] = l
    BY <1>2, <1>6 DEF ClosuresOf
  <2>2. Head(queue[l]) \in Connects(arg)
    BY <1>2, <1>6 DEF Connects
  <2>3. Holds(queue[l], Connects(arg))
    BY <1>1, <2>2, TailFacts DEF Types
  <2>4. state[arg] = "connecting"
    BY <2>1, <2>3 DEF BeginInv
  <2> QED BY <1>1, <1>2, <1>6, <2>1, <2>4 DEF RunsConnect
<1>7. CASE kind = "end" /\ RunEnd(l, arg)
  BY <1>1, <1>2, <1>7 DEF ClosuresOf, RunsEnd
<1> QED BY <1>3, <1>4, <1>5, <1>6, <1>7

-----------------------------------------------------------------------------
(* Types, and the order of life of a connection.                            *)

\* A connection goes from none to connecting, connected, perhaps disconnecting,
\* disconnected, and keeps its loop.
Onward ==
  \A c \in Conns :
    /\ state[c] # "none" => loop'[c] = loop[c] /\ state'[c] # "none"
    /\ state[c] \in Begun => state'[c] \in Begun
    /\ state[c] = "disconnected" => state'[c] = "disconnected"

\* The parts of Types that each action is about.
PlainTypes ==
  /\ started \in BOOLEAN /\ closed \in BOOLEAN /\ destroying \in BOOLEAN
  /\ listening \in {"no", "yes", "removed"} /\ counted \subseteq Threads
  /\ mu \in Threads \cup {None} /\ closers \subseteq Threads
  /\ calls \in 0 .. MaxCloses /\ files \in 1 .. MaxFiles
  /\ crashed \in {"no", "null", "closure", "event"}

ConnTypes ==
  /\ loop \in [Conns -> Workers \cup {None}]
  /\ state \in [Conns -> {"none", "connecting", "connected", "disconnecting", "disconnected"}]
  /\ backlog \subseteq Conns /\ channels \subseteq Conns /\ context \subseteq Conns
  /\ conns \subseteq Conns /\ todo \subseteq Conns

MoveTypes == stack \in [Threads -> Seq(Frames)] /\ queue \in [Loops -> Seq(Closures)]

LEMMA TypesParts ==
  /\ Types <=> PlainTypes /\ ConnTypes /\ MoveTypes
  /\ Types' <=> PlainTypes' /\ ConnTypes' /\ MoveTypes'
  BY DEF Types, PlainTypes, ConnTypes, MoveTypes

LEMMA PlainStep ==
  ASSUME Types, ShapeInv, BeginInv, Next
  PROVE  PlainTypes'
<1> USE DEF PlainTypes, serverVars, lockVars, histVars
<1>0. PlainTypes /\ Boss \in Threads
  BY TypesParts DEF Threads, Loops
<1> HIDE DEF PlainTypes
<1>1. ASSUME NEW t \in Threads, Start(t) PROVE PlainTypes'
  BY <1>0, <1>1 DEF Start, PlainTypes
<1>2. ASSUME NEW c \in Conns, Arrive(c) PROVE PlainTypes'
  BY <1>0, <1>2 DEF Arrive, PlainTypes
<1>3. ASSUME HandleAccept \/ EndAccept PROVE PlainTypes'
  BY <1>0, <1>3 DEF HandleAccept, EndAccept, PlainTypes
<1>4. ASSUME NEW c \in Conns, NEW w \in Workers, Accept(c, w) PROVE PlainTypes'
  BY <1>0, <1>4 DEF Accept, PlainTypes
<1>5. ASSUME NEW l \in Loops, RunClosure(l) PROVE PlainTypes'
  <2>1. UNCHANGED <<lockVars, histVars>>
    BY <1>5, RunFacts
  <2>2. CASE RunsListen(l)
    BY <1>0, <2>1, <2>2 DEF RunsListen, Listen, PlainTypes
  <2>3. CASE RunsRemove(l)
    <3>1. PICK t \in Threads : RemoveNow(t) /\ UNCHANGED <<started, crashed>>
      BY <2>3 DEF RunsRemove, RemoveAcceptor
    <3>2. listening' \in {"no", "yes", "removed"} /\ counted' \subseteq Threads
      BY <1>0, <3>1 DEF RemoveNow, PlainTypes
    <3> QED BY <1>0, <2>1, <3>1, <3>2 DEF PlainTypes
  <2>4. ASSUME NEW c \in Conns, RunsConnect(l, c) \/ RunsEnd(l, c) PROVE PlainTypes'
    BY <1>0, <2>1, <2>4 DEF RunsConnect, RunsEnd, RunConnect, RunEnd, PlainTypes
  <2> QED BY <1>5, <2>2, <2>3, <2>4, RunFacts
<1>6. ASSUME NEW c \in Conns, HandleEvents(c) PROVE PlainTypes'
  BY <1>0, <1>6 DEF HandleEvents, PlainTypes
<1>7. ASSUME NEW t \in Threads, HandlerReturns(t) \/ Emplace(t) \/ Erase(t) \/ Touch(t)
      PROVE  PlainTypes'
  BY <1>0, <1>7 DEF HandlerReturns, Emplace, Erase, Touch, PlainTypes
<1>8. ASSUME NEW t \in Threads, Await(t) \/ Lock(t) \/ Unlock(t) PROVE PlainTypes'
  BY <1>0, <1>8 DEF Await, Lock, Unlock, PlainTypes
<1>9. ASSUME NEW t \in Threads, DestroyAcceptor(t) \/ Destroy(t) PROVE PlainTypes'
  <2>1. listening' \in {"no", "yes", "removed"} /\ counted' \subseteq Threads
    BY <1>9, CloseAcceptorFacts DEF DestroyAcceptor, Destroy
  <2> QED BY <1>0, <1>9, <2>1 DEF DestroyAcceptor, Destroy, PlainTypes
<1>10. ASSUME NEW t \in Threads, BeginClose(t) PROVE PlainTypes'
  <2>1. listening' \in {"no", "yes", "removed"} /\ counted' \subseteq Threads
    BY <1>10, CloseAcceptorFacts DEF BeginClose
  <2>2. calls' \in 0 .. MaxCloses
    BY <1>0, <1>10, BoundsAssumption DEF BeginClose, PlainTypes
  <2>3. closers' \subseteq Threads
    BY <1>0, <1>10 DEF BeginClose, PlainTypes
  <2> QED BY <1>0, <1>10, <2>1, <2>2, <2>3 DEF BeginClose, PlainTypes
<1>11. ASSUME NEW t \in Threads, NEW c \in Conns, CloseOne(t, c) PROVE PlainTypes'
  BY <1>0, <1>11, CloseOneFacts DEF PlainTypes
<1>12. ASSUME NEW t \in Threads, HandlerEnds(t) PROVE PlainTypes'
  BY <1>0, <1>12, HandlerFacts DEF PlainTypes
<1>13. ASSUME NEW t \in Threads, NEW c \in Conns, UserEnds(t, c) PROVE PlainTypes'
  BY <1>0, <1>13, UserEndsFacts DEF PlainTypes
<1> QED BY <1>1, <1>2, <1>3, <1>4, <1>5, <1>6, <1>7, <1>8, <1>9, <1>10, <1>11, <1>12, <1>13
        DEF Next, AcceptStep, ThreadStep

LEMMA EndOnward ==
  ASSUME Types, BeginInv, NEW t \in Threads, NEW c \in Conns, Ends(t, c), UNCHANGED loop
  PROVE  Onward
  BY EndConnFacts DEF Onward

LEMMA ConnStep ==
  ASSUME Types, ShapeInv, BeginInv, Next
  PROVE  ConnTypes' /\ Onward
<1> USE DEF serverVars, connVars, lockVars
<1>0. ConnTypes
  BY TypesParts
<1>a. ASSUME UNCHANGED <<backlog, connVars, lockVars>> PROVE ConnTypes' /\ Onward
  BY <1>0, <1>a DEF ConnTypes, Onward
<1>b. ASSUME NEW t \in Threads, NEW c \in Conns, Ends(t, c),
             UNCHANGED <<loop, backlog, context, conns>>, todo' \subseteq todo
      PROVE  ConnTypes' /\ Onward
  BY <1>0, <1>b, EndConnFacts, EndOnward DEF ConnTypes
<1>1. ASSUME NEW t \in Threads, Start(t) PROVE ConnTypes' /\ Onward
  BY <1>a, <1>1 DEF Start
<1>2. ASSUME NEW c \in Conns, Arrive(c) PROVE ConnTypes' /\ Onward
  BY <1>0, <1>2 DEF Arrive, ConnTypes, Onward
<1>3. ASSUME HandleAccept \/ EndAccept PROVE ConnTypes' /\ Onward
  BY <1>a, <1>3 DEF HandleAccept, EndAccept
<1>4. ASSUME NEW c \in Conns, NEW w \in Workers, Accept(c, w) PROVE ConnTypes' /\ Onward
  <2>1. state[c] = "none"
    BY <1>4 DEF Accept, BeginInv
  <2>2. CASE w = Boss
    BY <1>0, <1>4, <2>1, <2>2 DEF Accept, Connected, ConnTypes, Onward
  <2>3. CASE w # Boss
    BY <1>0, <1>4, <2>1, <2>3 DEF Accept, ConnTypes, Onward
  <2> QED BY <2>2, <2>3
<1>5. ASSUME NEW l \in Loops, RunClosure(l) PROVE ConnTypes' /\ Onward
  <2>1. UNCHANGED lockVars
    BY <1>5, RunFacts
  <2>2. CASE RunsListen(l)
    BY <1>a, <2>1, <2>2 DEF RunsListen, Listen
  <2>3. CASE RunsRemove(l)
    BY <1>a, <2>1, <2>3 DEF RunsRemove, RemoveAcceptor
  <2>4. ASSUME NEW c \in Conns, RunsConnect(l, c) PROVE ConnTypes' /\ Onward
    BY <1>0, <2>1, <2>4 DEF RunsConnect, RunConnect, Connected, ConnTypes, Onward
  <2>5. ASSUME NEW c \in Conns, RunsEnd(l, c) PROVE ConnTypes' /\ Onward
    <3>1. UNCHANGED <<backlog, loop, state, context>> /\ channels' \subseteq channels
      BY <2>5 DEF RunsEnd, RunEnd
    <3> QED BY <1>0, <2>1, <3>1 DEF ConnTypes, Onward
  <2> QED BY <1>5, <2>2, <2>3, <2>4, <2>5, RunFacts
<1>6. ASSUME NEW c \in Conns, HandleEvents(c) PROVE ConnTypes' /\ Onward
  <2>1. /\ UNCHANGED <<backlog, loop, context, lockVars>> /\ channels' \subseteq channels
        /\ \/ UNCHANGED state
           \/ Open(c) /\ state' = [state EXCEPT ![c] = "disconnected"]
    BY <1>6 DEF HandleEvents
  <2> QED BY <1>0, <2>1 DEF ConnTypes, Onward, Open
<1>7. ASSUME NEW t \in Threads, HandlerReturns(t) \/ Await(t) PROVE ConnTypes' /\ Onward
  BY <1>a, <1>7 DEF HandlerReturns, Await
<1>8. ASSUME NEW t \in Threads, Emplace(t) PROVE ConnTypes' /\ Onward
  <2>1. UNCHANGED <<backlog, connVars, todo>> /\ conns' \subseteq conns \cup context
    BY <1>8 DEF Emplace
  <2> QED BY <1>0, <2>1 DEF ConnTypes, Onward
<1>9. ASSUME NEW t \in Threads, Erase(t) \/ Touch(t) \/ Lock(t) \/ Unlock(t)
      PROVE  ConnTypes' /\ Onward
  <2>1. /\ UNCHANGED <<backlog, loop, state, channels>>
        /\ context' \subseteq context /\ conns' \subseteq conns /\ todo' \subseteq todo \cup conns
    BY <1>9 DEF Erase, Touch, Lock, Unlock
  <2> QED BY <1>0, <2>1 DEF ConnTypes, Onward
<1>10. ASSUME NEW t \in Threads, DestroyAcceptor(t) \/ Destroy(t) \/ BeginClose(t)
       PROVE  ConnTypes' /\ Onward
  BY <1>a, <1>10 DEF DestroyAcceptor, Destroy, BeginClose
<1>11. ASSUME NEW t \in Threads, NEW c \in Conns, CloseOne(t, c) PROVE ConnTypes' /\ Onward
  <2>1. /\ UNCHANGED <<backlog, loop, context, conns>> /\ todo' \subseteq todo
        /\ Ends(t, c) \/ UNCHANGED <<state, channels>>
    BY <1>11, CloseOneFacts
  <2> QED BY <1>0, <1>b, <2>1 DEF ConnTypes, Onward
<1>12. ASSUME NEW t \in Threads, HandlerEnds(t) PROVE ConnTypes' /\ Onward
  BY <1>b, <1>12, HandlerFacts
<1>13. ASSUME NEW t \in Threads, NEW c \in Conns, UserEnds(t, c) PROVE ConnTypes' /\ Onward
  BY <1>b, <1>13, UserEndsFacts
<1> QED BY <1>1, <1>2, <1>3, <1>4, <1>5, <1>6, <1>7, <1>8, <1>9, <1>10, <1>11, <1>12, <1>13
        DEF Next, AcceptStep, ThreadStep

-----------------------------------------------------------------------------
(* What there is to do: MoveTypes and ShapeInv.                             *)

LEMMA ShapesGrow ==
  ASSUME Types, Onward
  PROVE  /\ \A t \in Threads : FramesOf(t) \subseteq FramesOf(t)'
         /\ \A l \in Loops : ClosuresOf(l) \subseteq ClosuresOf(l)'
<1>1. ASSUME NEW t \in Threads, NEW f \in FramesOf(t)
      PROVE  f \in FramesOf(t)'
  <2>1. f \in Frames
    BY <1>1 DEF FramesOf
  <2>2. f.step \in Opening \cup Ending => f.conn \in Conns /\ loop[f.conn] = t /\ state[f.conn] # "none"
    BY <1>1 DEF FramesOf
  <2> QED BY <1>1, <2>1, <2>2 DEF FramesOf, Onward
<1>2. ASSUME NEW l \in Loops, NEW q \in ClosuresOf(l)
      PROVE  q \in ClosuresOf(l)'
  BY <1>2 DEF ClosuresOf, Onward
<1> QED BY <1>1, <1>2

\* A stack or a queue that only this step has touched is what it should be.
LEMMA StackShape ==
  ASSUME Types, ShapeInv, Onward, NEW t \in Threads, NEW p \in Seq(Frames), p \in Seq(FramesOf(t)'),
         First(t, p) \/ (~Idle(t) /\ Then(t, p))
  PROVE  stack' \in [Threads -> Seq(Frames)] /\ \A u \in Threads : stack'[u] \in Seq(FramesOf(u)')
<1>1. \A u \in Threads : stack[u] \in Seq(FramesOf(u)')
  BY ShapesGrow, WiderSeq DEF ShapeInv
<1>2. CASE First(t, p)
  <2>1. p \o stack[t] \in Seq(FramesOf(t)')
    BY <1>1, InFront
  <2> QED BY <1>1, <1>2, <2>1, FirstFacts DEF Types
<1>3. CASE ~Idle(t) /\ Then(t, p)
  <2>1. Tail(stack[t]) \in Seq(FramesOf(t)')
    BY <1>1, <1>3, BehindFirst DEF Idle
  <2>2. p \o Tail(stack[t]) \in Seq(FramesOf(t)')
    BY <2>1, InFront
  <2> QED BY <1>1, <1>3, <2>2, ThenFacts DEF Types
<1> QED BY <1>2, <1>3

LEMMA StackSame ==
  ASSUME Types, ShapeInv, Onward, UNCHANGED stack
  PROVE  stack' \in [Threads -> Seq(Frames)] /\ \A u \in Threads : stack'[u] \in Seq(FramesOf(u)')
  BY ShapesGrow, WiderSeq DEF ShapeInv, Types

LEMMA QueueShape ==
  ASSUME Types, ShapeInv, Onward,
         \/ queue' = queue
         \/ \E l \in Loops : queue[l] # <<>> /\ queue' = [queue EXCEPT ![l] = Tail(@)]
         \/ \E l \in Loops : \E q \in ClosuresOf(l)' : Push(l, q)
  PROVE  queue' \in [Loops -> Seq(Closures)] /\ \A m \in Loops : queue'[m] \in Seq(ClosuresOf(m)')
<1>1. \A m \in Loops : queue[m] \in Seq(ClosuresOf(m)')
  BY ShapesGrow, WiderSeq DEF ShapeInv
<1>2. CASE queue' = queue
  BY <1>1, <1>2 DEF Types
<1>3. ASSUME NEW l \in Loops, queue[l] # <<>>, queue' = [queue EXCEPT ![l] = Tail(@)]
      PROVE  queue' \in [Loops -> Seq(Closures)] /\ \A m \in Loops : queue'[m] \in Seq(ClosuresOf(m)')
  <2>1. Tail(queue[l]) \in Seq(ClosuresOf(l)')
    BY <1>1, <1>3, BehindFirst
  <2> QED BY <1>1, <1>3, <2>1, PullFacts DEF Types
<1>4. ASSUME NEW l \in Loops, NEW q \in ClosuresOf(l)', Push(l, q)
      PROVE  queue' \in [Loops -> Seq(Closures)] /\ \A m \in Loops : queue'[m] \in Seq(ClosuresOf(m)')
  <2>1. q \in Closures
    BY <1>4 DEF ClosuresOf
  <2>2. Append(queue[l], q) \in Seq(ClosuresOf(l)')
    BY <1>1, <1>4, AppendFacts
  <2> QED BY <1>1, <1>4, <2>1, <2>2, PushFacts DEF Types
<1> QED BY <1>2, <1>3, <1>4

StackGood == stack \in [Threads -> Seq(Frames)] /\ \A t \in Threads : stack[t] \in Seq(FramesOf(t))
QueueGood == queue \in [Loops -> Seq(Closures)] /\ \A l \in Loops : queue[l] \in Seq(ClosuresOf(l))

LEMMA StackGoodRules ==
  ASSUME Types, ShapeInv, Onward
  PROVE  /\ UNCHANGED stack => StackGood'
         /\ UNCHANGED queue => QueueGood'
         /\ \A t \in Threads : ~Idle(t) /\ Then(t, <<>>) => StackGood'
<1>1. UNCHANGED stack => StackGood'
  BY StackSame DEF StackGood
<1>2. UNCHANGED queue => QueueGood'
  BY QueueShape DEF QueueGood
<1>3. ASSUME NEW t \in Threads, ~Idle(t), Then(t, <<>>)
      PROVE  StackGood'
  <2>1. <<>> \in Seq(Frames) /\ <<>> \in Seq(FramesOf(t)')
    OBVIOUS
  <2> QED BY <1>3, <2>1, StackShape DEF StackGood
<1> QED BY <1>1, <1>2, <1>3

\* The steps that belong to no connection belong to any thread.
LEMMA PlainFrames ==
  ASSUME NEW t \in Threads
  PROVE  /\ \A step \in {"accept", "await", "lock", "close"} : Step(step) \in FramesOf(t)'
         /\ t \in Users => Step("members") \in FramesOf(t)'
<1>1. ASSUME NEW step \in Closing
      PROVE  Step(step) \in Frames /\ Step(step).step = step /\ step \notin Opening \cup Ending
  BY <1>1, FrameFacts DEF Closing, Opening, Ending
<1>2. ASSUME NEW step \in Closing, step = "members" => t \in Users
      PROVE  Step(step) \in FramesOf(t)'
  BY <1>1, <1>2 DEF FramesOf
<1> QED BY <1>2 DEF Closing

\* The frames of a connection that has been begun, on its own loop.
LEMMA ConnFrames ==
  ASSUME NEW c \in Conns, NEW t, loop'[c] = t
  PROVE  /\ state'[c] \in Begun =>
              /\ Frame("OnConnect", c, FALSE) \in FramesOf(t)'
              /\ Frame("emplace", c, FALSE) \in FramesOf(t)'
              /\ Frame("readable", c, TRUE) \in FramesOf(t)'
              /\ Frame("OnRead", c, FALSE) \in FramesOf(t)'
              /\ Frame("write", c, FALSE) \in FramesOf(t)'
         /\ state'[c] = "disconnected" => \A own \in BOOLEAN :
              /\ Frame("OnClose", c, FALSE) \in FramesOf(t)'
              /\ Frame("erase", c, FALSE) \in FramesOf(t)'
              /\ Frame("unlink", c, own) \in FramesOf(t)'
<1>1. ASSUME NEW step \in Opening \cup Ending, NEW own \in BOOLEAN,
             step \in Opening => state'[c] \in Begun,
             step \in Ending => state'[c] = "disconnected"
      PROVE  Frame(step, c, own) \in FramesOf(t)'
  BY <1>1 DEF Frame, FramesOf, Frames, Opening, Ending
<1>2. FALSE \in BOOLEAN /\ TRUE \in BOOLEAN
  OBVIOUS
<1>3. /\ {"OnConnect", "emplace", "readable", "OnRead", "write"} \subseteq Opening
      /\ {"OnClose", "erase", "unlink"} \subseteq Ending
      /\ Opening \cap Ending = {}
  BY DEF Opening, Ending
<1>4. ASSUME state'[c] \in Begun, NEW step \in Opening, NEW own \in BOOLEAN
      PROVE  Frame(step, c, own) \in FramesOf(t)'
  BY <1>1, <1>3, <1>4
<1>5. ASSUME state'[c] = "disconnected", NEW step \in Ending, NEW own \in BOOLEAN
      PROVE  Frame(step, c, own) \in FramesOf(t)'
  BY <1>1, <1>3, <1>5
<1> QED BY <1>2, <1>3, <1>4, <1>5, Zenon

LEMMA EndShape ==
  ASSUME Types, ShapeInv, BeginInv, NEW t \in Threads, NEW c \in Conns, Ends(t, c), UNCHANGED loop
  PROVE  StackGood' /\ QueueGood'
<1>1. Onward
  BY EndOnward
<1>2. loop[c] \in Threads /\ loop[c] \in Loops /\ loop'[c] = loop[c]
  BY EndConnFacts
<1>3. StackGood'
  <2>1. CASE UNCHANGED stack
    BY <1>1, <2>1, StackGoodRules
  <2>2. CASE t = loop[c] /\ First(t, EndFrames(c, TRUE)) /\ state'[c] = "disconnected"
    <3>1. <<>> \in Writes(c) /\ TRUE \in BOOLEAN
      BY DEF Writes
    <3>2. loop'[c] = t
      BY <1>2, <2>2
    <3>3. /\ Frame("OnClose", c, FALSE) \in FramesOf(t)' /\ Frame("erase", c, FALSE) \in FramesOf(t)'
          /\ Frame("unlink", c, TRUE) \in FramesOf(t)' /\ Frame("write", c, FALSE) \in FramesOf(t)'
      BY <2>2, <3>1, <3>2, ConnFrames, Zenon
    <3>4. EndFrames(c, TRUE) \in Seq(Frames) /\ EndFrames(c, TRUE) \in Seq(FramesOf(t)')
      BY <3>1, <3>3, EndFacts, Zenon
    <3> QED BY <1>1, <2>2, <3>4, StackShape DEF StackGood
  <2> QED BY <2>1, <2>2, EndConnFacts
<1>4. QueueGood'
  <2>1. CASE queue' = queue
    BY <1>1, <2>1, StackGoodRules
  <2>2. CASE Push(loop[c], <<"end", c>>) /\ state'[c] = "disconnected"
    <3>1. <<"end", c>> \in ClosuresOf(loop[c])'
      BY <1>2, <2>2 DEF ClosuresOf, Closures
    <3> QED BY <1>1, <1>2, <2>2, <3>1, QueueShape DEF QueueGood
  <2> QED BY <2>1, <2>2, EndConnFacts
<1> QED BY <1>3, <1>4

LEMMA CloseAcceptorShape ==
  ASSUME Types, ShapeInv, Onward, NEW t \in Threads, CloseAcceptor(t)
  PROVE  QueueGood'
<1>1. CASE queue' = queue
  BY <1>1, StackGoodRules
<1>2. CASE t # Boss /\ Push(Boss, <<"remove", t>>)
  <2>1. Boss \in Loops /\ <<"remove", t>> \in ClosuresOf(Boss)'
    BY DEF ClosuresOf, Closures, Loops
  <2> QED BY <1>2, <2>1, QueueShape DEF QueueGood
<1> QED BY <1>1, <1>2, CloseAcceptorFacts

LEMMA ConnectShape ==
  ASSUME Types, ShapeInv, Onward, NEW t \in Threads, NEW c \in Conns,
         loop'[c] = t, state'[c] = "connected", First(t, ConnectFrames(c))
  PROVE  StackGood'
<1>1. /\ Frame("OnConnect", c, FALSE) \in FramesOf(t)' /\ Frame("emplace", c, FALSE) \in FramesOf(t)'
      /\ Frame("readable", c, TRUE) \in FramesOf(t)'
  BY ConnFrames, Zenon
<1>2. ConnectFrames(c) \in Seq(Frames) /\ ConnectFrames(c) \in Seq(FramesOf(t)')
  BY <1>1, ConnectFacts, Zenon
<1> QED BY <1>2, StackShape DEF StackGood

\* HandleEvents reads or ends an open connection, or finds it gone.
Reads(c) ==
  /\ \E more \in Writes(c) : First(loop[c], ReadFrames(c) \o more)
  /\ UNCHANGED <<state, channels, crashed>>
EndsByPeer(c) ==
  /\ \E more \in Writes(c) : First(loop[c], EndFrames(c, TRUE) \o more)
  /\ Open(c) /\ state' = [state EXCEPT ![c] = "disconnected"]
  /\ channels' = channels \ {c} /\ UNCHANGED crashed
FindsItGone(c) == crashed' = "event" /\ UNCHANGED <<state, channels, stack>>

LEMMA EventFacts ==
  ASSUME Types, BeginInv, NEW c \in Conns, HandleEvents(c)
  PROVE  /\ c \in channels /\ Idle(loop[c]) /\ loop[c] \in Threads /\ loop[c] \in Loops
         /\ state[c] \in Begun
         /\ UNCHANGED <<serverVars, loop, context, lockVars, queue, histVars>>
         /\ Reads(c) \/ EndsByPeer(c) \/ FindsItGone(c)
<1>1. /\ c \in channels /\ Idle(loop[c])
      /\ UNCHANGED <<serverVars, loop, context, lockVars, queue, histVars>>
  BY DEF HandleEvents
<1>2. state[c] \in Begun /\ loop[c] \in Workers
  BY <1>1 DEF BeginInv
<1>3. Reads(c) \/ EndsByPeer(c) \/ FindsItGone(c)
  BY Zenon DEF HandleEvents, Reads, EndsByPeer, FindsItGone, ReadFrames, Writes
<1> QED BY <1>1, <1>2, <1>3 DEF Loops, Threads

LEMMA EventShape ==
  ASSUME Types, ShapeInv, BeginInv, Onward, NEW c \in Conns, HandleEvents(c)
  PROVE  StackGood'
<1>1. PICK l \in Threads : l = loop[c] /\ l = loop'[c]
  BY EventFacts
<1>2. CASE Reads(c)
  <2>1. PICK more \in Writes(c) : First(l, ReadFrames(c) \o more)
    BY <1>1, <1>2 DEF Reads
  <2>2. state'[c] \in Begun
    BY <1>2, EventFacts DEF Reads
  <2>3. Frame("OnRead", c, FALSE) \in FramesOf(l)' /\ Frame("write", c, FALSE) \in FramesOf(l)'
    BY <1>1, <2>2, ConnFrames, Zenon
  <2>4. ReadFrames(c) \o more \in Seq(Frames) /\ ReadFrames(c) \o more \in Seq(FramesOf(l)')
    BY <2>3, ReadFacts, Zenon
  <2> QED BY <2>1, <2>4, StackShape DEF StackGood
<1>3. CASE EndsByPeer(c)
  <2>1. PICK more \in Writes(c) : First(l, EndFrames(c, TRUE) \o more)
    BY <1>1, <1>3 DEF EndsByPeer
  <2>2. state'[c] = "disconnected" /\ TRUE \in BOOLEAN
    BY <1>3 DEF EndsByPeer, Types
  <2>3. /\ Frame("OnClose", c, FALSE) \in FramesOf(l)' /\ Frame("erase", c, FALSE) \in FramesOf(l)'
        /\ Frame("unlink", c, TRUE) \in FramesOf(l)' /\ Frame("write", c, FALSE) \in FramesOf(l)'
    BY <1>1, <2>2, ConnFrames, Zenon
  <2>4. /\ EndFrames(c, TRUE) \o more \in Seq(Frames)
        /\ EndFrames(c, TRUE) \o more \in Seq(FramesOf(l)')
    BY <2>2, <2>3, EndFacts, Zenon
  <2> QED BY <2>1, <2>4, StackShape DEF StackGood
<1>4. CASE FindsItGone(c)
  BY <1>4, StackGoodRules DEF FindsItGone
<1> QED BY <1>2, <1>3, <1>4, EventFacts

LEMMA RunShape ==
  ASSUME Types, ShapeInv, BeginInv, Onward, NEW l \in Loops, RunClosure(l)
  PROVE  StackGood' /\ QueueGood'
<1>1. l \in Threads
  BY RunFacts
<1>2. QueueGood'
  BY RunFacts, QueueShape DEF QueueGood
<1>3. CASE RunsListen(l)
  BY <1>2, <1>3, StackGoodRules DEF RunsListen, Listen
<1>4. CASE RunsRemove(l)
  BY <1>2, <1>4, StackGoodRules DEF RunsRemove, RemoveAcceptor
<1>5. ASSUME NEW c \in Conns, RunsConnect(l, c)
      PROVE  StackGood'
  <2>1. state'[c] = "connected" /\ loop'[c] = l /\ First(l, ConnectFrames(c))
    BY <1>5 DEF RunsConnect, RunConnect, Connected, Types
  <2> QED BY <1>1, <2>1, ConnectShape
<1>6. ASSUME NEW c \in Conns, RunsEnd(l, c)
      PROVE  StackGood'
  <2>1. UNCHANGED stack \/ First(l, EndFrames(c, FALSE))
    BY <1>6 DEF RunsEnd, RunEnd
  <2>2. state'[c] = "disconnected" /\ loop'[c] = l
    BY <1>6 DEF RunsEnd, RunEnd
  <2>3. CASE UNCHANGED stack
    BY <2>3, StackGoodRules
  <2>4. CASE First(l, EndFrames(c, FALSE))
    <3>1. <<>> \in Writes(c) /\ FALSE \in BOOLEAN
      BY DEF Writes
    <3>2. /\ Frame("OnClose", c, FALSE) \in FramesOf(l)' /\ Frame("erase", c, FALSE) \in FramesOf(l)'
          /\ Frame("unlink", c, FALSE) \in FramesOf(l)' /\ Frame("write", c, FALSE) \in FramesOf(l)'
      BY <2>2, <3>1, ConnFrames, Zenon
    <3>3. EndFrames(c, FALSE) \in Seq(Frames) /\ EndFrames(c, FALSE) \in Seq(FramesOf(l)')
      BY <3>1, <3>2, EndFacts, Zenon
    <3> QED BY <1>1, <2>4, <3>3, StackShape DEF StackGood
  <2> QED BY <2>1, <2>3, <2>4
<1> QED BY <1>2, <1>3, <1>4, <1>5, <1>6, RunFacts

LEMMA CloseShape ==
  ASSUME Types, ShapeInv, Onward, NEW t \in Threads, NEW p,
         \/ p = CloseFrames
         \/ p = CloseFrames \o <<Step("members")>> /\ t \in Users,
         First(t, p)
  PROVE  StackGood'
<1>1. p \in Seq(Frames)
  BY CloseFacts
<1>2. p \in {<<Step("await"), Step("lock")>>, <<Step("await"), Step("lock"), Step("members")>>}
  BY CloseFacts
<1>3. Step("await") \in FramesOf(t)' /\ Step("lock") \in FramesOf(t)'
  BY PlainFrames
<1>4. CASE p = CloseFrames
  <2>1. p \in Seq(FramesOf(t)')
    BY <1>3, <1>4, Tuples DEF CloseFrames
  <2> QED BY <1>1, <2>1, StackShape DEF StackGood
<1>5. CASE p = CloseFrames \o <<Step("members")>> /\ t \in Users
  <2>1. Step("members") \in FramesOf(t)'
    BY <1>5, PlainFrames
  <2>2. p \in Seq(FramesOf(t)')
    BY <1>2, <1>3, <2>1, Tuples
  <2> QED BY <1>1, <2>2, StackShape DEF StackGood
<1> QED BY <1>4, <1>5

LEMMA ShapeStep ==
  ASSUME Types, ShapeInv, BeginInv, Next
  PROVE  StackGood' /\ QueueGood'
<1>0. Onward /\ Boss \in Threads /\ Boss \in Loops
  BY ConnStep DEF Threads, Loops
<1>1. ASSUME NEW t \in Threads, Start(t) PROVE StackGood' /\ QueueGood'
  <2>1. Push(Boss, <<"listen", None>>) /\ UNCHANGED stack
    BY <1>1 DEF Start
  <2>2. <<"listen", None>> \in ClosuresOf(Boss)'
    BY DEF ClosuresOf, Closures
  <2>3. QueueGood'
    BY <1>0, <2>1, <2>2, QueueShape DEF QueueGood
  <2> QED BY <1>0, <2>1, <2>3, StackGoodRules
<1>2. ASSUME NEW c \in Conns, Arrive(c) PROVE StackGood' /\ QueueGood'
  BY <1>0, <1>2, StackGoodRules DEF Arrive
<1>3. ASSUME HandleAccept PROVE StackGood' /\ QueueGood'
  <2>1. First(Boss, <<Step("accept")>>) /\ UNCHANGED queue
    BY <1>3 DEF HandleAccept
  <2>2. <<Step("accept")>> \in Seq(Frames) /\ <<Step("accept")>> \in Seq(FramesOf(Boss)')
    BY <1>0, PlainFrames, StepFacts, Tuples DEF Closing
  <2>3. StackGood'
    BY <1>0, <2>1, <2>2, StackShape DEF StackGood
  <2> QED BY <1>0, <2>1, <2>3, StackGoodRules
<1>4. ASSUME NEW c \in Conns, NEW w \in Workers, Accept(c, w) PROVE StackGood' /\ QueueGood'
  <2>1. CASE w = Boss
    <3>1. /\ loop'[c] = Boss /\ state'[c] = "connected"
          /\ First(Boss, ConnectFrames(c)) /\ UNCHANGED queue
      BY <1>4, <2>1 DEF Accept, Connected, Types
    <3>2. StackGood'
      BY <1>0, <3>1, ConnectShape
    <3> QED BY <1>0, <3>1, <3>2, StackGoodRules
  <2>2. CASE w # Boss
    <3>1. /\ loop'[c] = w /\ state'[c] = "connecting"
          /\ Push(w, <<"connect", c>>) /\ UNCHANGED stack
      BY <1>4, <2>2 DEF Accept, Types
    <3>2. w \in Loops /\ <<"connect", c>> \in ClosuresOf(w)'
      BY <3>1 DEF ClosuresOf, Closures, Loops
    <3>3. QueueGood'
      BY <1>0, <3>1, <3>2, QueueShape DEF QueueGood
    <3> QED BY <1>0, <3>1, <3>3, StackGoodRules
  <2> QED BY <2>1, <2>2
<1>5. ASSUME NEW l \in Loops, RunClosure(l) PROVE StackGood' /\ QueueGood'
  BY <1>0, <1>5, RunShape
<1>6. ASSUME NEW c \in Conns, HandleEvents(c) PROVE StackGood' /\ QueueGood'
  BY <1>0, <1>6, EventShape, EventFacts, StackGoodRules
<1>7. ASSUME NEW t \in Threads,
             \/ HandlerReturns(t) \/ Emplace(t) \/ Erase(t) \/ Touch(t) \/ Await(t) \/ Unlock(t)
             \/ t = Boss /\ EndAccept
      PROVE  StackGood' /\ QueueGood'
  <2>1. ~Idle(t) /\ Then(t, <<>>) /\ UNCHANGED queue
    BY <1>7 DEF HandlerReturns, InHandler, Emplace, Erase, Touch, Await, Unlock, EndAccept, At
  <2> QED BY <1>0, <2>1, StackGoodRules
<1>8. ASSUME NEW t \in Threads, Lock(t) PROVE StackGood' /\ QueueGood'
  <2>1. ~Idle(t) /\ Then(t, <<Step("close")>>) /\ UNCHANGED queue
    BY <1>8 DEF Lock, At
  <2>2. <<Step("close")>> \in Seq(Frames) /\ <<Step("close")>> \in Seq(FramesOf(t)')
    BY PlainFrames, StepFacts, Tuples DEF Closing
  <2>3. StackGood'
    BY <1>0, <2>1, <2>2, StackShape DEF StackGood
  <2> QED BY <1>0, <2>1, <2>3, StackGoodRules
<1>9. ASSUME NEW t \in Threads, DestroyAcceptor(t) PROVE StackGood' /\ QueueGood'
  <2>1. ~Idle(t) /\ Then(t, <<Step("await")>>) /\ CloseAcceptor(t)
    BY <1>9 DEF DestroyAcceptor, At
  <2>2. <<Step("await")>> \in Seq(Frames) /\ <<Step("await")>> \in Seq(FramesOf(t)')
    BY PlainFrames, StepFacts, Tuples DEF Closing
  <2>3. StackGood'
    BY <1>0, <2>1, <2>2, StackShape DEF StackGood
  <2> QED BY <1>0, <2>1, <2>3, CloseAcceptorShape
<1>10. ASSUME NEW t \in Threads, BeginClose(t) \/ Destroy(t) PROVE StackGood' /\ QueueGood'
  <2>1. CloseAcceptor(t)
    BY <1>10 DEF BeginClose, Destroy
  <2>2. \/ First(t, CloseFrames)
        \/ t \in Users /\ First(t, CloseFrames \o <<Step("members")>>)
    BY <1>10 DEF BeginClose, Destroy
  <2> QED BY <1>0, <2>1, <2>2, CloseShape, CloseAcceptorShape
<1>11. ASSUME NEW t \in Threads, NEW c \in Conns, CloseOne(t, c) PROVE StackGood' /\ QueueGood'
  <2>1. UNCHANGED loop /\ (Ends(t, c) \/ UNCHANGED <<stack, queue>>)
    BY <1>11, CloseOneFacts DEF connVars
  <2> QED BY <1>0, <2>1, EndShape, StackGoodRules
<1>12. ASSUME NEW t \in Threads, HandlerEnds(t) PROVE StackGood' /\ QueueGood'
  BY <1>12, HandlerFacts, EndShape
<1>13. ASSUME NEW t \in Threads, NEW c \in Conns, UserEnds(t, c) PROVE StackGood' /\ QueueGood'
  BY <1>13, UserEndsFacts, EndShape
<1> QED BY <1>0, <1>1, <1>2, <1>3, <1>4, <1>5, <1>6, <1>7, <1>8, <1>9, <1>10, <1>11, <1>12, <1>13
        DEF Next, AcceptStep, ThreadStep

LEMMA TypesShapeStep ==
  ASSUME Types, ShapeInv, BeginInv, Next
  PROVE  Types' /\ ShapeInv'
  BY PlainStep, ConnStep, ShapeStep, TypesParts DEF StackGood, QueueGood, MoveTypes, ShapeInv

-----------------------------------------------------------------------------
(* A connection is begun once: BeginInv.                                    *)

BeginConns ==
  /\ \A c \in backlog : state[c] = "none"
  /\ \A c \in Conns : state[c] # "none" => loop[c] \in Workers
  /\ \A c \in conns \cup channels : state[c] \in Begun

BeginQueue ==
  \A l \in Loops, c \in Conns :
    /\ Holds(queue[l], Connects(c)) => state[c] = "connecting"
    /\ Once(queue[l], Connects(c))

LEMMA EmplaceFacts ==
  ASSUME Types, ShapeInv, NEW t \in Threads, Emplace(t)
  PROVE  /\ ~Idle(t) /\ Head(stack[t]) \in Frames /\ Head(stack[t]).step = "emplace"
         /\ Current(t) \in Conns /\ loop[Current(t)] = t
         /\ state[Current(t)] \in Begun
  BY HeadFacts DEF Emplace, At, Current, FramesOf, Opening

LEMMA EraseFacts ==
  ASSUME Types, ShapeInv, NEW t \in Threads, Erase(t)
  PROVE  /\ ~Idle(t) /\ Head(stack[t]) \in Frames /\ Head(stack[t]).step = "erase"
         /\ Current(t) \in Conns /\ loop[Current(t)] = t
         /\ state[Current(t)] = "disconnected"
  BY HeadFacts DEF Erase, At, Current, FramesOf, Ending

LEMMA BeginConnsStep ==
  ASSUME Types, ShapeInv, BeginInv, Next
  PROVE  BeginConns'
<1> USE DEF serverVars, connVars, lockVars
<1>0. BeginConns /\ ConnTypes
  BY TypesParts DEF BeginInv, BeginConns
<1>a. ASSUME UNCHANGED <<backlog, loop, state, channels>>, conns' \subseteq conns PROVE BeginConns'
  BY <1>0, <1>a DEF BeginConns
<1>b. ASSUME NEW t \in Threads, NEW c \in Conns, Ends(t, c), UNCHANGED <<loop, backlog, conns>>
      PROVE  BeginConns'
  BY <1>0, <1>b, EndConnFacts DEF BeginConns, ConnTypes
<1>1. ASSUME NEW t \in Threads, Start(t) PROVE BeginConns'
  BY <1>a, <1>1 DEF Start
<1>2. ASSUME NEW c \in Conns, Arrive(c) PROVE BeginConns'
  BY <1>0, <1>2 DEF Arrive, BeginConns
<1>3. ASSUME HandleAccept \/ EndAccept PROVE BeginConns'
  BY <1>a, <1>3 DEF HandleAccept, EndAccept
<1>4. ASSUME NEW c \in Conns, NEW w \in Workers, Accept(c, w) PROVE BeginConns'
  <2>1. state[c] = "none" /\ c \notin conns /\ c \notin channels
    BY <1>0, <1>4 DEF Accept, BeginConns
  <2>2. /\ backlog' = backlog \ {c} /\ UNCHANGED conns
        /\ loop' = [loop EXCEPT ![c] = w]
        /\ \/ state' = [state EXCEPT ![c] = "connected"] /\ channels' = channels \cup {c}
           \/ state' = [state EXCEPT ![c] = "connecting"] /\ channels' = channels
    BY <1>4 DEF Accept, Connected
  <2> QED BY <1>0, <2>1, <2>2 DEF BeginConns, ConnTypes
<1>5. ASSUME NEW l \in Loops, RunClosure(l) PROVE BeginConns'
  <2>1. UNCHANGED lockVars
    BY <1>5, RunFacts
  <2>2. CASE RunsListen(l)
    BY <1>a, <2>1, <2>2 DEF RunsListen, Listen
  <2>3. CASE RunsRemove(l)
    BY <1>a, <2>1, <2>3 DEF RunsRemove, RemoveAcceptor
  <2>4. ASSUME NEW c \in Conns, RunsConnect(l, c) PROVE BeginConns'
    <3>1. /\ UNCHANGED <<backlog, loop, conns>> /\ state[c] = "connecting"
          /\ state' = [state EXCEPT ![c] = "connected"] /\ channels' = channels \cup {c}
      BY <2>1, <2>4 DEF RunsConnect, RunConnect, Connected
    <3> QED BY <1>0, <3>1 DEF BeginConns, ConnTypes
  <2>5. ASSUME NEW c \in Conns, RunsEnd(l, c) PROVE BeginConns'
    <3>1. UNCHANGED <<backlog, loop, state>> /\ channels' \subseteq channels
      BY <2>5 DEF RunsEnd, RunEnd
    <3> QED BY <1>0, <2>1, <3>1 DEF BeginConns
  <2> QED BY <1>5, <2>2, <2>3, <2>4, <2>5, RunFacts
<1>6. ASSUME NEW c \in Conns, HandleEvents(c) PROVE BeginConns'
  <2>1. /\ UNCHANGED <<backlog, loop, lockVars>> /\ channels' \subseteq channels
        /\ \/ UNCHANGED state
           \/ Open(c) /\ state' = [state EXCEPT ![c] = "disconnected"]
    BY <1>6 DEF HandleEvents
  <2> QED BY <1>0, <2>1 DEF BeginConns, ConnTypes, Open
<1>7. ASSUME NEW t \in Threads, HandlerReturns(t) \/ Await(t) \/ Erase(t) \/ Touch(t) \/ Lock(t) \/ Unlock(t)
      PROVE  BeginConns'
  BY <1>a, <1>7 DEF HandlerReturns, Await, Erase, Touch, Lock, Unlock
<1>8. ASSUME NEW t \in Threads, Emplace(t) PROVE BeginConns'
  <2>1. UNCHANGED <<backlog, connVars>> /\ conns' \subseteq conns \cup {Current(t)}
    BY <1>8 DEF Emplace
  <2> QED BY <1>0, <1>8, <2>1, EmplaceFacts DEF BeginConns
<1>9. ASSUME NEW t \in Threads, DestroyAcceptor(t) \/ Destroy(t) \/ BeginClose(t)
      PROVE  BeginConns'
  BY <1>a, <1>9 DEF DestroyAcceptor, Destroy, BeginClose
<1>10. ASSUME NEW t \in Threads, NEW c \in Conns, CloseOne(t, c) PROVE BeginConns'
  BY <1>a, <1>b, <1>10, CloseOneFacts
<1>11. ASSUME NEW t \in Threads, HandlerEnds(t) PROVE BeginConns'
  BY <1>b, <1>11, HandlerFacts
<1>12. ASSUME NEW t \in Threads, NEW c \in Conns, UserEnds(t, c) PROVE BeginConns'
  BY <1>b, <1>12, UserEndsFacts
<1> QED BY <1>1, <1>2, <1>3, <1>4, <1>5, <1>6, <1>7, <1>8, <1>9, <1>10, <1>11, <1>12
        DEF Next, AcceptStep, ThreadStep

LEMMA ConnectsFacts ==
  ASSUME Types, ShapeInv, NEW l \in Loops, NEW c \in Conns, Holds(queue[l], Connects(c))
  PROVE  loop[c] = l /\ state[c] # "none"
<1>1. PICK i \in Places(queue[l]) : queue[l][i] \in Connects(c)
  BY DEF Holds
<1>2. queue[l][i] \in ClosuresOf(l) /\ queue[l][i] = <<"connect", c>>
  BY <1>1 DEF ShapeInv, Connects, Places
<1> QED BY <1>2 DEF ClosuresOf

\* A closure that is no connect may join the queue, and the next one leave it.
LEMMA BeginQueueRules ==
  ASSUME Types, ShapeInv, BeginInv,
         \A c \in Conns : state[c] = "connecting" => state'[c] = "connecting"
  PROVE  /\ queue' = queue => BeginQueue'
         /\ \A l \in Loops, q \in Closures : q[1] # "connect" /\ Push(l, q) => BeginQueue'
         /\ \A l \in Loops : queue[l] # <<>> /\ queue' = [queue EXCEPT ![l] = Tail(@)] => BeginQueue'
<1>1. queue' = queue => BeginQueue'
  BY DEF BeginInv, BeginQueue
<1>2. ASSUME NEW l \in Loops, NEW q \in Closures, q[1] # "connect", Push(l, q)
      PROVE  BeginQueue'
  <2>1. \A c \in Conns : q \notin Connects(c)
    BY <1>2 DEF Connects
  <2>2. \A m \in Loops, c \in Conns :
          /\ Holds(queue'[m], Connects(c)) => Holds(queue[m], Connects(c))
          /\ Once(queue[m], Connects(c)) => Once(queue'[m], Connects(c))
    BY <1>2, <2>1, PushFacts DEF Types
  <2> QED BY <2>2 DEF BeginInv, BeginQueue
<1>3. ASSUME NEW l \in Loops, queue[l] # <<>>, queue' = [queue EXCEPT ![l] = Tail(@)]
      PROVE  BeginQueue'
  <2>1. \A m \in Loops, c \in Conns :
          /\ Holds(queue'[m], Connects(c)) => Holds(queue[m], Connects(c))
          /\ Once(queue[m], Connects(c)) => Once(queue'[m], Connects(c))
    BY <1>3, PullFacts DEF Types
  <2> QED BY <2>1 DEF BeginInv, BeginQueue
<1> QED BY <1>1, <1>2, <1>3

LEMMA BeginQueueStep ==
  ASSUME Types, ShapeInv, BeginInv, Next
  PROVE  BeginQueue'
<1> USE DEF serverVars, connVars, lockVars
<1>a. ASSUME UNCHANGED <<state, queue>> PROVE BeginQueue'
  BY <1>a DEF BeginInv, BeginQueue
<1>b. ASSUME NEW t \in Threads, NEW c \in Conns, Ends(t, c)
      PROVE  BeginQueue'
  <2>1. \A d \in Conns : state[d] = "connecting" => state'[d] = "connecting"
    BY <1>b, EndConnFacts
  <2>2. <<"end", c>> \in Closures /\ <<"end", c>>[1] # "connect"
    BY DEF Closures
  <2> QED BY <1>b, <2>1, <2>2, EndConnFacts, BeginQueueRules
<1>c. ASSUME NEW t \in Threads, CloseAcceptor(t), UNCHANGED state PROVE BeginQueue'
  <2>1. <<"remove", t>> \in Closures /\ <<"remove", t>>[1] # "connect" /\ Boss \in Loops
    BY DEF Closures, Loops
  <2> QED BY <1>c, <2>1, CloseAcceptorFacts, BeginQueueRules
<1>1. ASSUME NEW t \in Threads, Start(t) PROVE BeginQueue'
  <2>1. /\ <<"listen", None>> \in Closures /\ <<"listen", None>>[1] # "connect"
        /\ Boss \in Loops
    BY DEF Closures, Loops
  <2>2. Push(Boss, <<"listen", None>>) /\ UNCHANGED state
    BY <1>1 DEF Start
  <2> QED BY <2>1, <2>2, BeginQueueRules
<1>2. ASSUME NEW c \in Conns, Arrive(c) PROVE BeginQueue'
  BY <1>a, <1>2 DEF Arrive
<1>3. ASSUME HandleAccept \/ EndAccept PROVE BeginQueue'
  BY <1>a, <1>3 DEF HandleAccept, EndAccept
<1>4. ASSUME NEW c \in Conns, NEW w \in Workers, Accept(c, w) PROVE BeginQueue'
  <2>1. state[c] = "none" /\ \A d \in Conns : d # c => state'[d] = state[d]
    BY <1>4 DEF Accept, Connected, BeginInv, Types
  <2>2. CASE queue' = queue
    BY <2>1, <2>2, BeginQueueRules
  <2>3. CASE Push(w, <<"connect", c>>) /\ state'[c] = "connecting"
    <3>1. w \in Loops /\ <<"connect", c>> \in Closures
      BY DEF Loops, Closures
    <3>2. \A l \in Loops : ~Holds(queue[l], Connects(c))
      BY <2>1, ConnectsFacts
    <3>3. \A d \in Conns : d # c => <<"connect", c>> \notin Connects(d)
      BY DEF Connects
    <3>4. \A l \in Loops, d \in Conns :
            /\ Holds(queue'[l], Connects(d)) => d = c \/ Holds(queue[l], Connects(d))
            /\ Once(queue[l], Connects(d)) => Once(queue'[l], Connects(d))
      BY <2>3, <3>1, <3>2, <3>3, PushFacts DEF Types
    <3> QED BY <2>1, <2>3, <3>4 DEF BeginInv, BeginQueue
  <2> QED BY <1>4, <2>2, <2>3 DEF Accept, Types
<1>5. ASSUME NEW l \in Loops, RunClosure(l) PROVE BeginQueue'
  <2>1. queue[l] # <<>> /\ queue' = [queue EXCEPT ![l] = Tail(@)]
    BY <1>5, RunFacts
  <2>2. CASE RunsListen(l) \/ RunsRemove(l) \/ \E c \in Conns : RunsEnd(l, c)
    <3>1. UNCHANGED state
      BY <2>2 DEF RunsListen, Listen, RunsRemove, RemoveAcceptor, RunsEnd, RunEnd
    <3> QED BY <2>1, <3>1, BeginQueueRules
  <2>3. ASSUME NEW c \in Conns, RunsConnect(l, c) PROVE BeginQueue'
    <3>1. loop[c] = l /\ \A d \in Conns : d # c => state'[d] = state[d]
      BY <2>3 DEF RunsConnect, RunConnect, Connected, Types
    <3>2. Head(queue[l]) \in Connects(c)
      BY <2>1, <2>3, PullFacts DEF RunsConnect, Connects, Types
    <3>3. \A m \in Loops : ~Holds(queue'[m], Connects(c))
      <4>1. ~Holds(queue'[l], Connects(c))
        BY <2>1, <3>2, PullFacts DEF BeginInv, Types
      <4>2. \A m \in Loops : m # l => ~Holds(queue[m], Connects(c)) /\ queue'[m] = queue[m]
        BY <2>1, <3>1, ConnectsFacts
      <4> QED BY <4>1, <4>2
    <3>4. \A m \in Loops, d \in Conns :
            /\ Holds(queue'[m], Connects(d)) => Holds(queue[m], Connects(d))
            /\ Once(queue[m], Connects(d)) => Once(queue'[m], Connects(d))
      BY <2>1, PullFacts DEF Types
    <3> QED BY <3>1, <3>3, <3>4 DEF BeginInv, BeginQueue
  <2> QED BY <1>5, <2>2, <2>3, RunFacts
<1>6. ASSUME NEW c \in Conns, HandleEvents(c) PROVE BeginQueue'
  <2>1. \A d \in Conns : state[d] = "connecting" => state'[d] = "connecting"
    BY <1>6 DEF HandleEvents, Open, Types
  <2> QED BY <1>6, <2>1, BeginQueueRules, EventFacts
<1>7. ASSUME NEW t \in Threads,
             \/ HandlerReturns(t) \/ Emplace(t) \/ Erase(t) \/ Touch(t)
             \/ Await(t) \/ Lock(t) \/ Unlock(t)
      PROVE  BeginQueue'
  BY <1>a, <1>7 DEF HandlerReturns, Emplace, Erase, Touch, Await, Lock, Unlock
<1>8. ASSUME NEW t \in Threads, DestroyAcceptor(t) \/ Destroy(t) \/ BeginClose(t)
      PROVE  BeginQueue'
  BY <1>c, <1>8 DEF DestroyAcceptor, Destroy, BeginClose
<1>9. ASSUME NEW t \in Threads, NEW c \in Conns, CloseOne(t, c) PROVE BeginQueue'
  BY <1>a, <1>b, <1>9, CloseOneFacts
<1>10. ASSUME NEW t \in Threads, HandlerEnds(t) PROVE BeginQueue'
  BY <1>b, <1>10, HandlerFacts
<1>11. ASSUME NEW t \in Threads, NEW c \in Conns, UserEnds(t, c) PROVE BeginQueue'
  BY <1>b, <1>11, UserEndsFacts
<1> QED BY <1>1, <1>2, <1>3, <1>4, <1>5, <1>6, <1>7, <1>8, <1>9, <1>10, <1>11
        DEF Next, AcceptStep, ThreadStep

LEMMA BeginStep ==
  ASSUME Types, ShapeInv, BeginInv, Next
  PROVE  BeginInv'
  BY BeginConnsStep, BeginQueueStep DEF BeginConns, BeginQueue, BeginInv

-----------------------------------------------------------------------------
(* What a step may do to the stacks, to conns_ and to the channels.         *)

PushesMarked == \E t \in Threads, p \in Seq(Frames) : First(t, p) /\ Marks(p)
PushesConnect ==
  \E l \in Threads, c \in Conns :
    First(l, ConnectFrames(c)) /\ c \in channels' /\ state'[c] = "connected"
PushesClose ==
  \E t \in Threads, p \in {CloseFrames, CloseFrames \o <<Step("members")>>} :
    First(t, p) /\ (BeginClose(t) \/ Destroy(t))
PushesAccept == First(Boss, <<Step("accept")>>) /\ listening = "yes" /\ UNCHANGED listening

\* A frame that the invariant looks at is taken by the action it stands for.
Takes(t) ==
  /\ ~Idle(t) /\ Then(t, <<>>)
  /\ Head(stack[t]).step = "emplace" => Emplace(t)
  /\ Head(stack[t]).step = "unlink" => Touch(t)
  /\ Head(stack[t]).step = "erase" => Erase(t)
  /\ Head(stack[t]).step = "await" => Await(t)
  /\ Head(stack[t]).step = "close" => Unlock(t)
TakesFrame == \E t \in Threads : Takes(t)
TakesLock == \E t \in Threads : Lock(t)
TakesMembers ==
  \E t \in Threads :
    ~Idle(t) /\ Head(stack[t]).step = "members" /\ Then(t, <<Step("await")>>)

Moves ==
  \/ UNCHANGED stack
  \/ PushesMarked \/ PushesConnect \/ PushesClose \/ PushesAccept
  \/ TakesFrame \/ TakesLock \/ TakesMembers

LEMMA EndMoves ==
  ASSUME Types, BeginInv, NEW t \in Threads, NEW c \in Conns, Ends(t, c)
  PROVE  Moves
<1>1. CASE t = loop[c] /\ First(t, EndFrames(c, TRUE))
  <2>1. TRUE \in BOOLEAN /\ <<>> \in Writes(c)
    BY DEF Writes
  <2>2. EndFrames(c, TRUE) \in Seq(Frames) /\ Marks(EndFrames(c, TRUE))
    BY <2>1, EndFacts, Zenon
  <2> QED BY <1>1, <2>2 DEF Moves, PushesMarked
<1>2. CASE UNCHANGED stack
  BY <1>2 DEF Moves
<1> QED BY <1>1, <1>2, EndConnFacts

LEMMA MovesStep ==
  ASSUME Types, ShapeInv, BeginInv, Next
  PROVE  Moves
<1>1. ASSUME NEW t \in Threads, Start(t) PROVE Moves
  BY <1>1 DEF Start, Moves
<1>2. ASSUME NEW c \in Conns, Arrive(c) PROVE Moves
  BY <1>2 DEF Arrive, Moves
<1>3. ASSUME HandleAccept PROVE Moves
  BY <1>3 DEF HandleAccept, serverVars, Moves, PushesAccept
<1>4. ASSUME EndAccept PROVE Moves
  <2>1. /\ ~Idle(Boss) /\ Head(stack[Boss]).step = "accept" /\ Then(Boss, <<>>)
        /\ Boss \in Threads
    BY <1>4 DEF EndAccept, At, Threads, Loops
  <2> QED BY <2>1 DEF Moves, TakesFrame, Takes
<1>5. ASSUME NEW c \in Conns, NEW w \in Workers, Accept(c, w) PROVE Moves
  <2>1. CASE w = Boss
    <3>1. First(Boss, ConnectFrames(c)) /\ Boss \in Threads
      BY <1>5, <2>1 DEF Accept, Threads, Loops
    <3>2. c \in channels' /\ state'[c] = "connected"
      BY <1>5, <2>1 DEF Accept, Connected, Types
    <3> QED BY <3>1, <3>2 DEF Moves, PushesConnect
  <2>2. CASE w # Boss
    BY <1>5, <2>2 DEF Accept, Moves
  <2> QED BY <2>1, <2>2
<1>6. ASSUME NEW l \in Loops, RunClosure(l) PROVE Moves
  <2>1. CASE RunsListen(l) \/ RunsRemove(l)
    BY <2>1 DEF RunsListen, Listen, RunsRemove, RemoveAcceptor, Moves
  <2>2. ASSUME NEW c \in Conns, RunsConnect(l, c) PROVE Moves
    <3>1. First(l, ConnectFrames(c)) /\ l \in Threads
      BY <1>6, <2>2, RunFacts DEF RunsConnect, RunConnect
    <3>2. c \in channels' /\ state'[c] = "connected"
      BY <2>2 DEF RunsConnect, RunConnect, Connected, Types
    <3> QED BY <3>1, <3>2 DEF Moves, PushesConnect
  <2>3. ASSUME NEW c \in Conns, RunsEnd(l, c) PROVE Moves
    <3>1. l \in Threads
      BY <1>6, RunFacts
    <3>2. UNCHANGED stack \/ First(l, EndFrames(c, FALSE))
      BY <2>3 DEF RunsEnd, RunEnd
    <3>3. FALSE \in BOOLEAN /\ <<>> \in Writes(c)
      BY DEF Writes
    <3>4. EndFrames(c, FALSE) \in Seq(Frames) /\ Marks(EndFrames(c, FALSE))
      BY <3>3, EndFacts, Zenon
    <3> QED BY <3>1, <3>2, <3>4 DEF Moves, PushesMarked
  <2> QED BY <1>6, <2>1, <2>2, <2>3, RunFacts
<1>7. ASSUME NEW c \in Conns, HandleEvents(c) PROVE Moves
  <2>1. loop[c] \in Threads
    BY <1>7, EventFacts
  <2>2. CASE Reads(c)
    <3>1. PICK more \in Writes(c) : First(loop[c], ReadFrames(c) \o more)
      BY <2>2 DEF Reads
    <3>2. ReadFrames(c) \o more \in Seq(Frames) /\ Marks(ReadFrames(c) \o more)
      BY ReadFacts
    <3> QED BY <2>1, <3>1, <3>2 DEF Moves, PushesMarked
  <2>3. CASE EndsByPeer(c)
    <3>1. PICK more \in Writes(c) : First(loop[c], EndFrames(c, TRUE) \o more)
      BY <2>3 DEF EndsByPeer
    <3>2. TRUE \in BOOLEAN
      OBVIOUS
    <3>3. EndFrames(c, TRUE) \o more \in Seq(Frames) /\ Marks(EndFrames(c, TRUE) \o more)
      BY <3>2, EndFacts, Zenon
    <3> QED BY <2>1, <3>1, <3>3 DEF Moves, PushesMarked
  <2>4. CASE FindsItGone(c)
    BY <2>4 DEF FindsItGone, Moves
  <2> QED BY <1>7, <2>2, <2>3, <2>4, EventFacts
<1>8. ASSUME NEW t \in Threads,
             HandlerReturns(t) \/ Emplace(t) \/ Erase(t) \/ Touch(t) \/ Await(t) \/ Unlock(t)
      PROVE  Moves
  <2>1. ~Idle(t) /\ Then(t, <<>>)
    BY <1>8 DEF HandlerReturns, InHandler, Emplace, Erase, Touch, Await, Unlock, At
  <2>2. CASE HandlerReturns(t)
    <3>1. Head(stack[t]).step \in {"OnConnect", "OnRead", "OnClose"}
      BY <2>2 DEF HandlerReturns, InHandler, At
    <3> QED BY <2>1, <3>1 DEF Moves, TakesFrame, Takes
  <2>3. CASE Emplace(t)
    BY <2>1, <2>3 DEF Emplace, At, Moves, TakesFrame, Takes
  <2>4. CASE Erase(t)
    BY <2>1, <2>4 DEF Erase, At, Moves, TakesFrame, Takes
  <2>5. CASE Touch(t)
    <3>1. Head(stack[t]).step \in {"readable", "write", "unlink"}
      BY <2>5 DEF Touch, At
    <3> QED BY <2>1, <2>5, <3>1 DEF Moves, TakesFrame, Takes
  <2>6. CASE Await(t)
    BY <2>1, <2>6 DEF Await, At, Moves, TakesFrame, Takes
  <2>7. CASE Unlock(t)
    BY <2>1, <2>7 DEF Unlock, At, Moves, TakesFrame, Takes
  <2> QED BY <1>8, <2>2, <2>3, <2>4, <2>5, <2>6, <2>7
<1>9. ASSUME NEW t \in Threads, Lock(t) PROVE Moves
  BY <1>9 DEF Moves, TakesLock
<1>10. ASSUME NEW t \in Threads, DestroyAcceptor(t) PROVE Moves
  BY <1>10 DEF DestroyAcceptor, At, Moves, TakesMembers
<1>11. ASSUME NEW t \in Threads, BeginClose(t) \/ Destroy(t) PROVE Moves
  BY <1>11 DEF BeginClose, Destroy, Moves, PushesClose
<1>12. ASSUME NEW t \in Threads, NEW c \in Conns, CloseOne(t, c) PROVE Moves
  <2>1. CASE UNCHANGED stack
    BY <2>1 DEF Moves
  <2> QED BY <1>12, <2>1, CloseOneFacts, EndMoves
<1>13. ASSUME NEW t \in Threads, HandlerEnds(t) PROVE Moves
  BY <1>13, HandlerFacts, EndMoves
<1>14. ASSUME NEW t \in Threads, NEW c \in Conns, UserEnds(t, c) PROVE Moves
  BY <1>14, UserEndsFacts, EndMoves
<1> QED BY <1>1, <1>2, <1>3, <1>4, <1>5, <1>6, <1>7, <1>8, <1>9, <1>10, <1>11, <1>12, <1>13, <1>14
        DEF Next, AcceptStep, ThreadStep

\* The same, for one thread.
PushedOn(u, p) ==
  \/ Marks(p)
  \/ \E c \in Conns : p = ConnectFrames(c) /\ c \in channels' /\ state'[c] = "connected"
  \/ p \in {CloseFrames, CloseFrames \o <<Step("members")>>} /\ (BeginClose(u) \/ Destroy(u))
  \/ p = <<Step("accept")>> /\ PushesAccept /\ u = Boss

LEMMA MovesOn ==
  ASSUME Types, Moves, NEW u \in Threads
  PROVE  \/ stack'[u] = stack[u]
         \/ \E p \in Seq(Frames) : First(u, p) /\ PushedOn(u, p)
         \/ Takes(u)
         \/ Lock(u)
         \/ ~Idle(u) /\ Head(stack[u]).step = "members" /\ Then(u, <<Step("await")>>)
<1>1. ASSUME NEW t \in Threads, NEW p, First(t, p) \/ Then(t, p), t # u
      PROVE  stack'[u] = stack[u]
  BY <1>1 DEF First, Then, Types
<1>2. CASE PushesMarked
  BY <1>1, <1>2 DEF PushesMarked, PushedOn
<1>3. CASE PushesConnect
  BY <1>1, <1>3, ConnectFacts DEF PushesConnect, PushedOn
<1>4. CASE PushesClose
  BY <1>1, <1>4, CloseFacts DEF PushesClose, PushedOn
<1>5. CASE PushesAccept
  <2>1. <<Step("accept")>> \in Seq(Frames) /\ Boss \in Threads
    BY StepFacts DEF Closing, Threads, Loops
  <2> QED BY <1>1, <1>5, <2>1 DEF PushesAccept, PushedOn
<1>6. CASE TakesFrame
  BY <1>1, <1>6 DEF TakesFrame, Takes
<1>7. CASE TakesLock
  BY <1>1, <1>7 DEF TakesLock, Lock
<1>8. CASE TakesMembers
  BY <1>1, <1>8 DEF TakesMembers
<1> QED BY <1>2, <1>3, <1>4, <1>5, <1>6, <1>7, <1>8 DEF Moves

\* What is pushed, seen by each part of the invariant.
LEMMA PushedFacts ==
  ASSUME NEW u \in Threads, NEW p \in Seq(Frames), PushedOn(u, p)
  PROVE  /\ ~Holds(p, With("close"))
         /\ Holds(p, With("accept")) => PushesAccept
         /\ Behind(p, With("lock"), With("await"))
         /\ \A c \in Conns : Behind(p, Readable(c), Emplacing(c))
         /\ \A c \in Conns : ~Holds(p, Emplacing(c)) \/ c \in channels'
<1>1. CASE Marks(p)
  BY <1>1, Lacking DEF Marks, Closing
<1>2. ASSUME NEW c \in Conns, p = ConnectFrames(c), c \in channels'
      PROVE  /\ \A step \in {"close", "accept", "lock"} : ~Holds(p, With(step))
             /\ \A d \in Conns : Behind(p, Readable(d), Emplacing(d))
             /\ \A d \in Conns : ~Holds(p, Emplacing(d)) \/ d \in channels'
  BY <1>2, ConnectFacts DEF Closing
<1>3. CASE p \in {CloseFrames, CloseFrames \o <<Step("members")>>}
  BY <1>3, CloseFacts, Lacking
<1>4. CASE p = <<Step("accept")>> /\ PushesAccept
  BY <1>4, StepFacts, Lacking DEF Opening, Ending, Closing
<1> QED BY <1>1, <1>2, <1>3, <1>4, Lacking DEF PushedOn

LEMMA TakenFacts ==
  ASSUME Types, NEW u \in Threads, ~Idle(u)
  PROVE  /\ Head(stack[u]) \in Frames
         /\ \A step : Head(stack[u]) \in With(step) <=> Head(stack[u]).step = step
         /\ \A c \in Conns :
              /\ Head(stack[u]) \in Readable(c) =>
                   Head(stack[u]).step = "readable" /\ Current(u) = c
              /\ Head(stack[u]) \in Emplacing(c) <=>
                   Head(stack[u]).step = "emplace" /\ Current(u) = c
              /\ Head(stack[u]) \in Unlinking(c) <=>
                   Head(stack[u]).step = "unlink" /\ Current(u) = c
              /\ Head(stack[u]) \in Erasing(c) =>
                   Head(stack[u]).step = "erase" /\ Current(u) = c
         /\ <<>> \in Seq(Frames)
<1>1. Head(stack[u]) \in Frames
  BY BehindFirst DEF Types, Idle
<1> QED BY <1>1 DEF With, Readable, Emplacing, Unlinking, Erasing, Frame, Current

LEMMA MoveClose ==
  ASSUME Types, Moves, NEW u \in Threads
  PROVE  /\ Holds(stack'[u], With("close")) => Holds(stack[u], With("close")) \/ Lock(u)
         /\ Once(stack[u], With("close")) =>
              Once(stack'[u], With("close")) \/ (Lock(u) /\ Holds(stack[u], With("close")))
<1> DEFINE A == With("close")
<1>1. ASSUME NEW p \in Seq(Frames), First(u, p), PushedOn(u, p)
      PROVE  /\ Holds(stack'[u], A) => Holds(stack[u], A)
             /\ Once(stack[u], A) => Once(stack'[u], A)
  BY <1>1, FirstFacts, PushedFacts, Lacking DEF Types
<1>2. ASSUME NEW p \in Seq(Frames), ~Holds(p, A), ~Idle(u), Then(u, p)
      PROVE  /\ Holds(stack'[u], A) => Holds(stack[u], A)
             /\ Once(stack[u], A) => Once(stack'[u], A)
  BY <1>2, ThenFacts, Lacking DEF Types
<1>3. CASE Takes(u)
  BY <1>2, <1>3, Short, TakenFacts DEF Takes
<1>4. CASE Lock(u)
  <2>1. /\ ~Idle(u) /\ Then(u, <<Step("close")>>) /\ <<Step("close")>> \in Seq(Frames)
        /\ Once(<<Step("close")>>, A)
    BY <1>4, StepFacts, Short DEF Lock, At, Closing
  <2>2. Once(stack[u], A) /\ ~Holds(stack[u], A) => Once(stack'[u], A)
    <3>1. ~Holds(stack[u], A) => ~Holds(Tail(stack[u]), A)
      BY <2>1, ThenFacts DEF Types
    <3>2. stack[u] \in Seq(Frames) /\ stack[u] # <<>> /\ stack'[u] = <<Step("close")>> \o Tail(stack[u])
      BY <2>1, ThenFacts DEF Types, Idle
    <3>3. Once(stack[u], A) => Once(Tail(stack[u]), A)
      BY <3>2, TailFacts
    <3>4. Tail(stack[u]) \in Seq(Frames)
      BY <2>1, ThenFacts DEF Types
    <3> QED BY <2>1, <3>1, <3>2, <3>3, <3>4, OnceConcat
  <2> QED BY <1>4, <2>2
<1>5. CASE ~Idle(u) /\ Then(u, <<Step("await")>>)
  <2>1. <<Step("await")>> \in Seq(Frames) /\ ~Holds(<<Step("await")>>, A)
    BY StepFacts DEF Closing
  <2> QED BY <1>2, <1>5, <2>1
<1>6. CASE stack'[u] = stack[u]
  BY <1>6
<1> QED BY <1>1, <1>3, <1>4, <1>5, <1>6, MovesOn

LEMMA MoveAccept ==
  ASSUME Types, Moves, NEW u \in Threads, Holds(stack'[u], With("accept"))
  PROVE  Holds(stack[u], With("accept")) \/ PushesAccept
<1> DEFINE A == With("accept")
<1>1. ASSUME NEW p \in Seq(Frames), First(u, p), PushedOn(u, p)
      PROVE  Holds(stack[u], A) \/ PushesAccept
  BY <1>1, FirstFacts, PushedFacts DEF Types
<1>2. ASSUME NEW p \in Seq(Frames), ~Holds(p, A), ~Idle(u), Then(u, p)
      PROVE  Holds(stack[u], A)
  BY <1>2, ThenFacts DEF Types
<1>3. CASE Takes(u)
  BY <1>2, <1>3, Short, TakenFacts DEF Takes
<1>4. ASSUME NEW step \in {"close", "await"}, ~Idle(u), Then(u, <<Step(step)>>)
      PROVE  Holds(stack[u], A)
  <2>1. <<Step(step)>> \in Seq(Frames) /\ ~Holds(<<Step(step)>>, A)
    BY StepFacts DEF Closing
  <2> QED BY <1>2, <1>4, <2>1
<1>5. CASE stack'[u] = stack[u]
  BY <1>5
<1> QED BY <1>1, <1>3, <1>4, <1>5, MovesOn DEF Lock, At

LEMMA MoveLock ==
  ASSUME Types, Moves, NEW u \in Threads, Behind(stack[u], With("lock"), With("await")), ~Await(u)
  PROVE  Behind(stack'[u], With("lock"), With("await"))
<1> DEFINE A == With("lock")
<1> DEFINE B == With("await")
<1>1. ASSUME NEW p \in Seq(Frames), First(u, p), PushedOn(u, p)
      PROVE  Behind(stack'[u], A, B)
  BY <1>1, FirstFacts, PushedFacts DEF Types
<1>2. ASSUME NEW p \in Seq(Frames), Behind(p, A, B), ~Idle(u), Then(u, p), Head(stack[u]) \notin B
      PROVE  Behind(stack'[u], A, B)
  BY <1>2, ThenFacts DEF Types
<1>3. CASE Takes(u)
  <2>1. Head(stack[u]) \notin B
    BY <1>3, TakenFacts DEF Takes
  <2>2. <<>> \in Seq(Frames) /\ Behind(<<>>, A, B)
    BY Short
  <2> QED BY <1>2, <1>3, <2>1, <2>2 DEF Takes
<1>4. ASSUME NEW step \in {"close", "await"}, ~Idle(u), Then(u, <<Step(step)>>),
             Head(stack[u]).step # "await"
      PROVE  Behind(stack'[u], A, B)
  <2>1. <<Step(step)>> \in Seq(Frames) /\ ~Holds(<<Step(step)>>, A)
    BY StepFacts DEF Opening, Ending, Closing
  <2>2. Behind(<<Step(step)>>, A, B)
    BY <2>1, Lacking
  <2> QED BY <1>2, <1>4, <2>1, <2>2, TakenFacts
<1>5. CASE stack'[u] = stack[u]
  BY <1>5
<1> QED BY <1>1, <1>3, <1>4, <1>5, MovesOn DEF Lock, At

LEMMA MoveReadable ==
  ASSUME Types, Moves, NEW u \in Threads, NEW c \in Conns,
         Holds(stack[u], Readable(c)), Behind(stack[u], Readable(c), Emplacing(c))
  PROVE  /\ Holds(stack'[u], Readable(c))
         /\ \/ Behind(stack'[u], Readable(c), Emplacing(c))
            \/ Emplace(u) /\ Current(u) = c
<1> DEFINE A == Readable(c)
<1> DEFINE B == Emplacing(c)
<1> DEFINE Kept == Holds(stack'[u], A) /\ Behind(stack'[u], A, B)
<1>1. ASSUME NEW p \in Seq(Frames), First(u, p), PushedOn(u, p)
      PROVE  Kept
  BY <1>1, FirstFacts, PushedFacts DEF Types
<1>2. ASSUME NEW p \in Seq(Frames), Behind(p, A, B), ~Idle(u), Then(u, p)
      PROVE  Holds(stack'[u], A) /\ (Head(stack[u]) \notin B => Kept)
  BY <1>2, ThenFacts DEF Types
<1>3. CASE Takes(u)
  <2>1. <<>> \in Seq(Frames) /\ Behind(<<>>, A, B)
    BY Short
  <2>2. Holds(stack'[u], A) /\ (Head(stack[u]) \notin B => Kept)
    BY <1>2, <1>3, <2>1 DEF Takes
  <2>3. Head(stack[u]) \in B => Emplace(u) /\ Current(u) = c
    BY <1>3, TakenFacts DEF Takes
  <2> QED BY <2>2, <2>3
<1>4. ASSUME NEW step \in {"close", "await"}, ~Idle(u), Then(u, <<Step(step)>>),
             Head(stack[u]).step \in {"lock", "members"}
      PROVE  Kept
  <2>1. <<Step(step)>> \in Seq(Frames) /\ ~Holds(<<Step(step)>>, A)
    BY StepFacts DEF Closing
  <2>2. Behind(<<Step(step)>>, A, B) /\ Head(stack[u]) \notin B
    BY <1>4, <2>1, Lacking, TakenFacts
  <2> QED BY <1>2, <1>4, <2>1, <2>2
<1>5. CASE stack'[u] = stack[u]
  BY <1>5
<1> QED BY <1>1, <1>3, <1>4, <1>5, MovesOn DEF Lock, At

LEMMA MoveErasing ==
  ASSUME Types, Moves, NEW u \in Threads, NEW c \in Conns, Holds(stack[u], Erasing(c))
  PROVE  Holds(stack'[u], Erasing(c)) \/ (Erase(u) /\ Current(u) = c)
<1> DEFINE A == Erasing(c)
<1>1. ASSUME NEW p \in Seq(Frames), First(u, p)
      PROVE  Holds(stack'[u], A)
  BY <1>1, FirstFacts DEF Types
<1>2. ASSUME NEW p \in Seq(Frames), ~Idle(u), Then(u, p), Head(stack[u]) \notin A
      PROVE  Holds(stack'[u], A)
  BY <1>2, ThenFacts DEF Types
<1>3. CASE Takes(u)
  <2>1. <<>> \in Seq(Frames)
    OBVIOUS
  <2> QED BY <1>2, <1>3, <2>1, TakenFacts DEF Takes
<1>4. ASSUME NEW step \in {"close", "await"}, ~Idle(u), Then(u, <<Step(step)>>),
             Head(stack[u]).step \in {"lock", "members"}
      PROVE  Holds(stack'[u], A)
  <2>1. <<Step(step)>> \in Seq(Frames) /\ Head(stack[u]) \notin A
    BY <1>4, StepFacts, TakenFacts DEF Closing
  <2> QED BY <1>2, <1>4, <2>1
<1>5. CASE stack'[u] = stack[u]
  BY <1>5
<1> QED BY <1>1, <1>3, <1>4, <1>5, MovesOn DEF Lock, At

LEMMA MoveEmplacing ==
  ASSUME Types, Moves, NEW u \in Threads, NEW c \in Conns,
         Behind(stack[u], Emplacing(c), Unlinking(c)), c \notin channels'
  PROVE  \/ Behind(stack'[u], Emplacing(c), Unlinking(c))
         \/ Touch(u) /\ Head(stack[u]).step = "unlink" /\ Current(u) = c /\ ~Idle(u)
<1> DEFINE A == Emplacing(c)
<1> DEFINE B == Unlinking(c)
<1>1. ASSUME NEW p \in Seq(Frames), First(u, p), PushedOn(u, p)
      PROVE  Behind(stack'[u], A, B)
  <2>1. ~Holds(p, A)
    BY <1>1, PushedFacts
  <2> QED BY <1>1, <2>1, FirstFacts, Lacking DEF Types
<1>2. ASSUME NEW p \in Seq(Frames), Behind(p, A, B), ~Idle(u), Then(u, p), Head(stack[u]) \notin B
      PROVE  Behind(stack'[u], A, B)
  BY <1>2, ThenFacts DEF Types
<1>3. CASE Takes(u)
  <2>1. <<>> \in Seq(Frames) /\ Behind(<<>>, A, B)
    BY Short
  <2>2. Head(stack[u]) \in B =>
          Touch(u) /\ Head(stack[u]).step = "unlink" /\ Current(u) = c /\ ~Idle(u)
    BY <1>3, TakenFacts DEF Takes
  <2> QED BY <1>2, <1>3, <2>1, <2>2 DEF Takes
<1>4. ASSUME NEW step \in {"close", "await"}, ~Idle(u), Then(u, <<Step(step)>>),
             Head(stack[u]).step \in {"lock", "members"}
      PROVE  Behind(stack'[u], A, B)
  <2>1. <<Step(step)>> \in Seq(Frames) /\ ~Holds(<<Step(step)>>, A)
    BY StepFacts DEF Closing
  <2>2. Behind(<<Step(step)>>, A, B) /\ Head(stack[u]) \notin B
    BY <1>4, <2>1, Lacking, TakenFacts
  <2> QED BY <1>2, <1>4, <2>1, <2>2
<1>5. CASE stack'[u] = stack[u]
  BY <1>5
<1> QED BY <1>1, <1>3, <1>4, <1>5, MovesOn DEF Lock, At

\* conns_ grows in OnConnect, and shrinks in OnClose and at the end of Close.
LEMMA ConnsMove ==
  ASSUME Types, ShapeInv, BeginInv, Next
  PROVE  /\ conns' \subseteq conns \/ \E t \in Threads : Emplace(t)
         /\ conns \subseteq conns' \/ \E t \in Threads : Erase(t) \/ Unlock(t)
         /\ UNCHANGED <<mu, todo>> \/ \E t \in Threads :
              Lock(t) \/ Unlock(t) \/ \E c \in Conns : CloseOne(t, c)
<1> DEFINE Same == UNCHANGED lockVars
<1> DEFINE Goal ==
      /\ conns' \subseteq conns \/ \E t \in Threads : Emplace(t)
      /\ conns \subseteq conns' \/ \E t \in Threads : Erase(t) \/ Unlock(t)
      /\ UNCHANGED <<mu, todo>> \/ \E t \in Threads :
           Lock(t) \/ Unlock(t) \/ \E c \in Conns : CloseOne(t, c)
<1>a. ASSUME Same PROVE Goal
  BY <1>a DEF lockVars
<1>1. ASSUME NEW t \in Threads,
             Start(t) \/ HandlerReturns(t) \/ Touch(t) \/ Await(t) \/ DestroyAcceptor(t)
               \/ BeginClose(t) \/ Destroy(t)
      PROVE  Goal
  BY <1>a, <1>1 DEF Start, HandlerReturns, Touch, Await, DestroyAcceptor, BeginClose, Destroy
<1>2. ASSUME NEW c \in Conns, Arrive(c) \/ HandleEvents(c) PROVE Goal
  BY <1>a, <1>2 DEF Arrive, HandleEvents
<1>3. ASSUME HandleAccept \/ EndAccept \/ \E c \in Conns, w \in Workers : Accept(c, w) PROVE Goal
  BY <1>a, <1>3 DEF HandleAccept, EndAccept, Accept
<1>4. ASSUME NEW l \in Loops, RunClosure(l) PROVE Goal
  BY <1>a, <1>4 DEF RunClosure
<1>5. ASSUME NEW t \in Threads, Emplace(t) PROVE Goal
  <2>1. conns \subseteq conns' /\ UNCHANGED <<mu, todo>>
    BY <1>5 DEF Emplace
  <2> QED BY <1>5, <2>1
<1>6. ASSUME NEW t \in Threads, Erase(t) PROVE Goal
  <2>1. conns' \subseteq conns /\ UNCHANGED <<mu, todo>>
    BY <1>6 DEF Erase
  <2> QED BY <1>6, <2>1
<1>7. ASSUME NEW t \in Threads, Lock(t) PROVE Goal
  <2>1. conns' = conns
    BY <1>7 DEF Lock
  <2> QED BY <1>7, <2>1
<1>8. ASSUME NEW t \in Threads, Unlock(t) PROVE Goal
  <2>1. conns' \subseteq conns
    BY <1>8 DEF Unlock
  <2> QED BY <1>8, <2>1
<1>9. ASSUME NEW t \in Threads, NEW c \in Conns, CloseOne(t, c) PROVE Goal
  <2>1. conns' = conns
    BY <1>9 DEF CloseOne
  <2> QED BY <1>9, <2>1
<1>10. ASSUME NEW t \in Threads, HandlerEnds(t) PROVE Goal
  BY <1>a, <1>10 DEF HandlerEnds
<1>11. ASSUME NEW t \in Threads, NEW c \in Conns, UserEnds(t, c) PROVE Goal
  BY <1>a, <1>11 DEF UserEnds
<1> QED BY <1>1, <1>2, <1>3, <1>4, <1>5, <1>6, <1>7, <1>8, <1>9, <1>10, <1>11
        DEF Next, AcceptStep, ThreadStep

\* What happens to one connection.  It becomes connected on its loop, with the
\* frames of its Start; its channel is removed there, with those of its end.
OnItsLoop(c) == \E l \in Threads : l = loop'[c] /\ First(l, ConnectFrames(c))

EndsOnItsLoop(c) ==
  \E l \in Threads, p \in Seq(Frames) :
    /\ l = loop[c] /\ l = loop'[c]
    /\ First(l, p) /\ Marks(p) /\ Holds(p, Erasing(c)) /\ Holds(p, Unlinking(c))

Fate(c) ==
  /\ state'[c] = "connected" /\ state[c] # "connected" =>
       state[c] \in {"none", "connecting"} /\ c \in channels' /\ OnItsLoop(c)
  /\ c \in channels \ channels' => EndsOnItsLoop(c)
  /\ c \in context' \ context => state'[c] = "connecting" \/ c \in channels'
  /\ state'[c] = "disconnecting" => state[c] \in {"connected", "disconnecting"}
  /\ state'[c] = "disconnected" => state[c] \in Begun

LEMMA EndFate ==
  ASSUME Types, BeginInv, NEW t \in Threads, NEW c \in Conns, Ends(t, c),
         UNCHANGED <<loop, context>>, NEW d \in Conns
  PROVE  Fate(d)
<1>1. d \in channels \ channels' => EndsOnItsLoop(d)
  <2> SUFFICES ASSUME d \in channels \ channels' PROVE EndsOnItsLoop(d)
    OBVIOUS
  <2>1. d = c /\ t = loop[c] /\ First(t, EndFrames(c, TRUE))
    BY EndConnFacts
  <2>2. TRUE \in BOOLEAN /\ <<>> \in Writes(c)
    BY DEF Writes
  <2>3. /\ EndFrames(c, TRUE) \in Seq(Frames) /\ Marks(EndFrames(c, TRUE))
        /\ Holds(EndFrames(c, TRUE), Erasing(c)) /\ Holds(EndFrames(c, TRUE), Unlinking(c))
    BY <2>2, EndFacts, Zenon
  <2> QED BY <2>1, <2>3 DEF EndsOnItsLoop
<1>2. /\ state'[d] # "connected" \/ state[d] = "connected"
      /\ state'[d] = "disconnecting" => state[d] \in {"connected", "disconnecting"}
      /\ state'[d] = "disconnected" => state[d] \in Begun
  BY EndConnFacts
<1> QED BY <1>1, <1>2 DEF Fate

LEMMA FateStep ==
  ASSUME Types, ShapeInv, BeginInv, Next, NEW d \in Conns
  PROVE  Fate(d)
<1> USE DEF connVars
<1>a. ASSUME UNCHANGED <<state, channels>>, context' \subseteq context PROVE Fate(d)
  BY <1>a DEF Fate
<1>1. ASSUME NEW t \in Threads,
             Start(t) \/ HandlerReturns(t) \/ Emplace(t) \/ Erase(t) \/ Touch(t) \/ Await(t)
               \/ Lock(t) \/ Unlock(t) \/ DestroyAcceptor(t) \/ BeginClose(t) \/ Destroy(t)
      PROVE  Fate(d)
  <2>1. UNCHANGED <<state, channels>> /\ context' \subseteq context
    BY <1>1 DEF Start, HandlerReturns, Emplace, Erase, Touch, Await, Lock, Unlock, DestroyAcceptor,
                BeginClose, Destroy
  <2> QED BY <1>a, <2>1
<1>2. ASSUME NEW c \in Conns, Arrive(c) PROVE Fate(d)
  BY <1>a, <1>2 DEF Arrive
<1>3. ASSUME HandleAccept \/ EndAccept PROVE Fate(d)
  BY <1>a, <1>3 DEF HandleAccept, EndAccept
<1>4. ASSUME NEW c \in Conns, NEW w \in Workers, Accept(c, w) PROVE Fate(d)
  <2>1. /\ state[c] = "none" /\ loop'[c] = w /\ context' = context \cup {c}
        /\ channels \subseteq channels' /\ \A e \in Conns : e # c => state'[e] = state[e]
    BY <1>4 DEF Accept, Connected, BeginInv, Types
  <2>2. CASE w = Boss
    <3>1. /\ state'[c] = "connected" /\ c \in channels' /\ Boss \in Threads
          /\ First(Boss, ConnectFrames(c))
      BY <1>4, <2>2 DEF Accept, Connected, Types, Threads, Loops
    <3>2. OnItsLoop(c)
      BY <2>1, <2>2, <3>1 DEF OnItsLoop
    <3> QED BY <2>1, <3>1, <3>2 DEF Fate
  <2>3. CASE w # Boss
    <3>1. state'[c] = "connecting"
      BY <1>4, <2>3 DEF Accept, Types
    <3> QED BY <2>1, <3>1 DEF Fate
  <2> QED BY <2>2, <2>3
<1>5. ASSUME NEW l \in Loops, RunClosure(l) PROVE Fate(d)
  <2>1. l \in Threads
    BY <1>5, RunFacts
  <2>2. CASE RunsListen(l) \/ RunsRemove(l)
    BY <1>a, <2>2 DEF RunsListen, Listen, RunsRemove, RemoveAcceptor
  <2>3. ASSUME NEW c \in Conns, RunsConnect(l, c) PROVE Fate(d)
    <3>1. /\ state[c] = "connecting" /\ state'[c] = "connected" /\ c \in channels'
          /\ loop'[c] = l /\ First(l, ConnectFrames(c)) /\ channels \subseteq channels'
          /\ UNCHANGED context /\ \A e \in Conns : e # c => state'[e] = state[e]
      BY <2>3 DEF RunsConnect, RunConnect, Connected, Types
    <3>2. OnItsLoop(c)
      BY <2>1, <3>1 DEF OnItsLoop
    <3> QED BY <3>1, <3>2 DEF Fate
  <2>4. ASSUME NEW c \in Conns, RunsEnd(l, c) PROVE Fate(d)
    <3>1. UNCHANGED <<state, context, loop>> /\ loop[c] = l
      BY <2>4 DEF RunsEnd, RunEnd
    <3>2. d \in channels \ channels' => d = c /\ First(l, EndFrames(c, FALSE))
      BY <2>4 DEF RunsEnd, RunEnd
    <3>3. FALSE \in BOOLEAN /\ <<>> \in Writes(c)
      BY DEF Writes
    <3>4. /\ EndFrames(c, FALSE) \in Seq(Frames) /\ Marks(EndFrames(c, FALSE))
          /\ Holds(EndFrames(c, FALSE), Erasing(c)) /\ Holds(EndFrames(c, FALSE), Unlinking(c))
      BY <3>3, EndFacts, Zenon
    <3>5. d \in channels \ channels' => EndsOnItsLoop(d)
      BY <2>1, <3>1, <3>2, <3>4 DEF EndsOnItsLoop
    <3> QED BY <3>1, <3>5 DEF Fate
  <2> QED BY <1>5, <2>2, <2>3, <2>4, RunFacts
<1>6. ASSUME NEW c \in Conns, HandleEvents(c) PROVE Fate(d)
  <2>1. UNCHANGED <<loop, context>> /\ loop[c] \in Threads
    BY <1>6, EventFacts
  <2>2. CASE Reads(c) \/ FindsItGone(c)
    BY <1>a, <2>1, <2>2 DEF Reads, FindsItGone
  <2>3. CASE EndsByPeer(c)
    <3>1. PICK more \in Writes(c) : First(loop[c], EndFrames(c, TRUE) \o more)
      BY <2>3 DEF EndsByPeer
    <3>2. TRUE \in BOOLEAN
      OBVIOUS
    <3>3. /\ EndFrames(c, TRUE) \o more \in Seq(Frames) /\ Marks(EndFrames(c, TRUE) \o more)
          /\ Holds(EndFrames(c, TRUE) \o more, Erasing(c))
          /\ Holds(EndFrames(c, TRUE) \o more, Unlinking(c))
      BY <3>2, EndFacts, Zenon
    <3>4. EndsOnItsLoop(c)
      BY <2>1, <3>1, <3>3 DEF EndsOnItsLoop
    <3>5. /\ state[c] \in {"connected", "disconnecting"}
          /\ state'[c] = "disconnected" /\ channels' = channels \ {c}
          /\ \A e \in Conns : e # c => state'[e] = state[e]
      BY <2>3 DEF EndsByPeer, Open, Types
    <3> QED BY <2>1, <3>4, <3>5 DEF Fate
  <2> QED BY <1>6, <2>2, <2>3, EventFacts
<1>7. ASSUME NEW t \in Threads, NEW c \in Conns, CloseOne(t, c) PROVE Fate(d)
  BY <1>a, <1>7, CloseOneFacts, EndFate
<1>8. ASSUME NEW t \in Threads, HandlerEnds(t) PROVE Fate(d)
  BY <1>8, HandlerFacts, EndFate
<1>9. ASSUME NEW t \in Threads, NEW c \in Conns, UserEnds(t, c) PROVE Fate(d)
  BY <1>9, UserEndsFacts, EndFate
<1> QED BY <1>1, <1>2, <1>3, <1>4, <1>5, <1>6, <1>7, <1>8, <1>9 DEF Next, AcceptStep, ThreadStep

-----------------------------------------------------------------------------
(* LockInv, OwnInv and TrackInv.                                            *)

LEMMA LockStep ==
  ASSUME IInv, Next
  PROVE  LockInv'
<1>0. /\ Types /\ ShapeInv /\ BeginInv /\ LockInv
      /\ Moves
      /\ \A c \in Conns : Fate(c)
      /\ None \notin Threads
  BY MovesStep, FateStep, ThreadsAssumption DEF IInv
<1>1. \A t \in Threads : Lock(t) => mu = None /\ mu' = t /\ todo' = conns /\ conns' = conns
  BY DEF Lock
<1>2. \A t \in Threads : Unlock(t) =>
        /\ ~Idle(t) /\ Head(stack[t]) \in With("close") /\ Then(t, <<>>) /\ mu' = None
  BY <1>0, TakenFacts DEF Unlock, At
<1>3. ASSUME NEW t \in Threads, Holds(stack'[t], With("close"))
      PROVE  mu' = t
  <2>1. CASE Lock(t)
    BY <1>1, <2>1
  <2>2. CASE ~Lock(t)
    <3>1. Holds(stack[t], With("close")) /\ mu = t
      BY <1>0, <1>3, <2>2, MoveClose DEF LockInv
    <3>2. \A u \in Threads : ~Lock(u)
      BY <1>0, <1>1, <3>1
    <3>3. ASSUME NEW u \in Threads, Unlock(u) PROVE FALSE
      <4>1. /\ Holds(stack[u], With("close")) /\ Once(stack[u], With("close"))
            /\ ~Holds(stack'[u], With("close"))
        <5>1. ~Idle(u) /\ Head(stack[u]) \in With("close") /\ Then(u, <<>>) /\ <<>> \in Seq(Frames)
          BY <1>2, <3>3
        <5>2. /\ Holds(stack[u], With("close"))
              /\ Once(stack[u], With("close")) => ~Holds(Tail(stack[u]), With("close"))
              /\ Holds(stack'[u], With("close")) =>
                   Holds(<<>>, With("close")) \/ Holds(Tail(stack[u]), With("close"))
          BY <1>0, <5>1, ThenFacts DEF Types
        <5> QED BY <1>0, <5>2, Short DEF LockInv
      <4>2. u = t
        BY <1>0, <3>1, <4>1 DEF LockInv
      <4> QED BY <1>3, <4>1, <4>2
    <3>4. mu' = mu
      BY <1>0, <3>2, <3>3, ConnsMove DEF CloseOne
    <3> QED BY <3>1, <3>4
  <2> QED BY <2>1, <2>2
<1>4. ASSUME NEW t \in Threads
      PROVE  Once(stack'[t], With("close"))
  <2>1. Lock(t) => ~Holds(stack[t], With("close"))
    BY <1>0, <1>1 DEF LockInv
  <2> QED BY <1>0, <2>1, MoveClose DEF LockInv
<1>5. ASSUME mu' # None, NEW c \in conns' \ todo'
      PROVE  state'[c] # "connected"
  <2>1. \A t \in Threads : ~Lock(t) /\ ~Unlock(t)
    BY <1>1, <1>2, <1>5
  <2>2. CASE UNCHANGED <<mu, todo>>
    <3>1. \A t \in Threads : ~Emplace(t)
      BY <1>5, <2>2 DEF Emplace
    <3>2. c \in conns \ todo /\ c \in Conns
      BY <1>0, <1>5, <2>2, <3>1, ConnsMove DEF Types
    <3>3. state[c] # "connected" /\ state[c] \in Begun
      BY <1>0, <1>5, <2>2, <3>2 DEF LockInv, BeginInv
    <3> QED BY <1>0, <3>2, <3>3 DEF Fate
  <2>3. ASSUME NEW t \in Threads, NEW d \in Conns, CloseOne(t, d)
        PROVE  state'[c] # "connected"
    <3>1. /\ todo' = todo \ {d} /\ mu' = mu /\ conns' = conns
          /\ Ends(t, d) \/ (state[d] # "connected" /\ UNCHANGED state)
      BY <1>0, <2>3, CloseOneFacts
    <3>2. c \in Conns /\ (c = d \/ state[c] # "connected")
      BY <1>0, <1>5, <3>1 DEF LockInv, Types
    <3>3. CASE Ends(t, d)
      <4>1. state'[d] # "connected" /\ \A e \in Conns : e # d => state'[e] = state[e]
        BY <1>0, <2>3, <3>3, EndConnFacts
      <4> QED BY <3>2, <4>1
    <3>4. CASE state[d] # "connected" /\ UNCHANGED state
      BY <3>2, <3>4
    <3> QED BY <3>1, <3>3, <3>4
  <2> QED BY <1>0, <2>1, <2>2, <2>3, ConnsMove
<1> QED BY <1>3, <1>4, <1>5 DEF LockInv

\* A connection that is not yet connected has nothing to do.
LEMMA FreshFacts ==
  ASSUME Types, ShapeInv, NEW t \in Threads, NEW c \in Conns, state[c] \in {"none", "connecting"}
  PROVE  ~Holds(stack[t], Readable(c)) /\ ~Holds(stack[t], Emplacing(c))
<1> SUFFICES ASSUME NEW i \in Places(stack[t]), stack[t][i].conn = c,
                    stack[t][i].step \in {"readable", "emplace"}
             PROVE  FALSE
  BY DEF Holds, Readable, Emplacing
<1>1. stack[t][i] \in FramesOf(t)
  BY DEF ShapeInv, Places
<1> QED BY <1>1 DEF FramesOf, Opening

\* Nothing takes the return of a Close back.
LEMMA ClosedStays ==
  ASSUME Next, closed
  PROVE  closed'
<1>1. ASSUME NEW t \in Threads, ThreadStep(t) PROVE closed'
  BY <1>1 DEF ThreadStep, HandlerReturns, Emplace, Erase, Touch, Await, Lock, Unlock, DestroyAcceptor,
              CloseOne, histVars
<1>2. ASSUME NEW t \in Threads, Start(t) \/ BeginClose(t) \/ Destroy(t) \/ HandlerEnds(t) PROVE closed'
  BY <1>2 DEF Start, BeginClose, Destroy, HandlerEnds, histVars
<1>3. ASSUME NEW t \in Threads, NEW c \in Conns, UserEnds(t, c) PROVE closed'
  BY <1>3 DEF UserEnds, histVars
<1>4. ASSUME NEW c \in Conns, Arrive(c) \/ HandleEvents(c) PROVE closed'
  BY <1>4 DEF Arrive, HandleEvents, histVars
<1>5. ASSUME AcceptStep \/ \E l \in Loops : RunClosure(l) PROVE closed'
  BY <1>5 DEF AcceptStep, HandleAccept, EndAccept, Accept, RunClosure, histVars
<1> QED BY <1>1, <1>2, <1>3, <1>4, <1>5 DEF Next

LEMMA OwnStep ==
  ASSUME IInv, Next
  PROVE  OwnInv'
<1>0. /\ Types /\ ShapeInv /\ BeginInv /\ LockInv /\ OwnInv
      /\ Moves /\ Onward /\ crashed = "no"
  BY MovesStep, ConnStep DEF IInv, Next
<1> SUFFICES ASSUME NEW c \in Conns, Needed(c)', c \notin conns'
             PROVE  /\ Holds(stack'[loop'[c]], Readable(c))
                    /\ crashed' = "no" => Behind(stack'[loop'[c]], Readable(c), Emplacing(c))
  BY DEF OwnInv, Needed, Readable, Emplacing
<1>1. CASE Needed(c)
  <2>1. loop'[c] = loop[c] /\ loop[c] \in Threads
    BY <1>0, <1>1 DEF Needed, Onward, BeginInv, Threads, Loops
  <2>2. c \notin conns
    <3>1. ASSUME NEW t \in Threads, Erase(t), c \in conns
          PROVE  FALSE
      <4>1. c = Current(t)
        BY <3>1 DEF Erase
      <4> QED BY <1>0, <1>1, <3>1, <4>1, EraseFacts DEF Needed
    <3>2. ASSUME NEW t \in Threads, Unlock(t), c \in conns
          PROVE  FALSE
      <4>1. ~Idle(t) /\ Head(stack[t]) \in With("close") /\ todo = {}
        BY <1>0, <3>2, TakenFacts DEF Unlock, At
      <4>2. Holds(stack[t], With("close"))
        BY <1>0, <4>1, TailFacts DEF Types, Idle
      <4>3. mu # None
        BY <1>0, <4>2, ThreadsAssumption DEF LockInv
      <4>4. closed' = TRUE /\ UNCHANGED state
        BY <3>2 DEF Unlock, connVars
      <4> QED BY <1>0, <3>2, <4>1, <4>3, <4>4 DEF LockInv, Needed
    <3> QED BY <1>0, <3>1, <3>2, ConnsMove
  <2>3. /\ Holds(stack[loop[c]], Readable(c))
        /\ Behind(stack[loop[c]], Readable(c), Emplacing(c))
    BY <1>0, <1>1, <2>2 DEF OwnInv
  <2>4. /\ Holds(stack'[loop[c]], Readable(c))
        /\ \/ Behind(stack'[loop[c]], Readable(c), Emplacing(c))
           \/ Emplace(loop[c]) /\ Current(loop[c]) = c
    BY <1>0, <2>1, <2>3, MoveReadable
  <2>5. Emplace(loop[c]) /\ Current(loop[c]) = c => crashed' = "null"
    BY DEF Emplace
  <2> QED BY <2>1, <2>4, <2>5
<1>2. CASE ~Needed(c)
  <2>0. state[c] # "connected" /\ state'[c] = "connected" /\ Fate(c)
    BY <1>0, <1>2, FateStep, ClosedStays DEF Fate, Needed
  <2>1. PICK l \in Threads : l = loop'[c] /\ First(l, ConnectFrames(c))
    BY <2>0 DEF Fate, OnItsLoop
  <2>2. ~Holds(stack[l], Readable(c))
    BY <1>0, <2>0, FreshFacts DEF Fate
  <2>3. /\ Holds(stack'[l], Readable(c))
        /\ Behind(stack'[l], Readable(c), Emplacing(c))
    BY <1>0, <2>1, <2>2, FirstFacts, ConnectFacts, Lacking DEF Types
  <2> QED BY <2>1, <2>3
<1> QED BY <1>1, <1>2

LEMMA TrackStep ==
  ASSUME IInv, Next
  PROVE  TrackInv'
<1>0. /\ Types /\ ShapeInv /\ BeginInv /\ TrackInv /\ Types'
      /\ Moves /\ Onward /\ crashed = "no"
  BY MovesStep, ConnStep, TypesShapeStep DEF IInv, Next
<1> SUFFICES ASSUME crashed' = "no"
             PROVE  /\ \A c \in conns' : c \in channels' \/ Holds(stack'[loop'[c]], Erasing(c))
                    /\ \A c \in context' \ channels' : state'[c] \in Begun =>
                         Behind(stack'[loop'[c]], Emplacing(c), Unlinking(c))
  BY DEF TrackInv, Erasing, Emplacing, Unlinking
<1>1. ASSUME NEW c \in conns', c \notin channels'
      PROVE  Holds(stack'[loop'[c]], Erasing(c))
  <2>1. CASE c \in channels
    <3>1. PICK l \in Threads, p \in Seq(Frames) :
            l = loop'[c] /\ First(l, p) /\ Holds(p, Erasing(c))
      BY <1>0, <1>1, <2>1, FateStep DEF Fate, EndsOnItsLoop, Types
    <3> QED BY <1>0, <3>1, FirstFacts DEF Types
  <2>2. CASE c \in conns /\ c \notin channels
    <3>1. loop'[c] = loop[c] /\ loop[c] \in Threads
      BY <1>0, <2>2 DEF Onward, BeginInv, Types, Threads, Loops
    <3>2. Holds(stack[loop[c]], Erasing(c))
      BY <1>0, <2>2 DEF TrackInv
    <3>3. ~(Erase(loop[c]) /\ Current(loop[c]) = c)
      BY <1>1 DEF Erase
    <3> QED BY <1>0, <2>2, <3>1, <3>2, <3>3, MoveErasing DEF Types
  <2>3. CASE c \notin conns /\ c \notin channels
    <3>1. PICK t \in Threads : Emplace(t)
      BY <1>0, <1>1, <2>3, ConnsMove
    <3>2. c = Current(t) /\ c \in context
      BY <1>1, <2>3, <3>1 DEF Emplace
    <3>3. Behind(stack[t], Emplacing(c), Unlinking(c)) /\ Head(stack[t]) \in Emplacing(c)
      BY <1>0, <2>3, <3>1, <3>2, EmplaceFacts, TakenFacts DEF TrackInv
    <3>4. ~Idle(t) /\ stack[t] \in Seq(Frames) /\ stack[t] # <<>>
      BY <1>0, <3>1, EmplaceFacts DEF Types, Idle
    <3> QED BY <3>3, <3>4, TailFacts
  <2> QED BY <2>1, <2>2, <2>3
<1>2. ASSUME NEW c \in context' \ channels', state'[c] \in Begun
      PROVE  Behind(stack'[loop'[c]], Emplacing(c), Unlinking(c))
  <2>0. c \in Conns /\ Fate(c) /\ c \in context
    BY <1>0, <1>2, FateStep DEF Fate, Types
  <2>1. CASE c \in channels
    <3>1. PICK l \in Threads, p \in Seq(Frames) :
            l = loop'[c] /\ First(l, p) /\ Marks(p) /\ Holds(p, Unlinking(c))
      BY <1>2, <2>0, <2>1 DEF Fate, EndsOnItsLoop
    <3>2. ~Holds(p, Emplacing(c))
      BY <2>0, <3>1 DEF Marks
    <3> QED BY <1>0, <3>1, <3>2, FirstFacts, Lacking DEF Types
  <2>2. CASE c \notin channels
    <3>1. state[c] \in Begun
      BY <1>2, <2>0 DEF Fate
    <3>2. loop'[c] = loop[c] /\ loop[c] \in Threads
      BY <1>0, <2>0, <3>1 DEF Onward, BeginInv, Threads, Loops
    <3>3. Behind(stack[loop[c]], Emplacing(c), Unlinking(c))
      BY <1>0, <2>0, <2>2, <3>1 DEF TrackInv
    <3>4. ASSUME Touch(loop[c]), Head(stack[loop[c]]).step = "unlink", Current(loop[c]) = c,
                 ~Idle(loop[c])
          PROVE  FALSE
      BY <1>0, <1>2, <3>4 DEF Touch, At
    <3> QED BY <1>0, <1>2, <2>0, <3>2, <3>3, <3>4, MoveEmplacing
  <2> QED BY <2>1, <2>2
<1> QED BY <1>1, <1>2

-----------------------------------------------------------------------------
(* ListenInv.                                                               *)

\* What a step may do to the acceptor.
Listening ==
  /\ started => started'
  /\ listening = "no" => listening' = "no" \/ (started /\ ~Holds(queue'[Boss], Listens))
  /\ listening # "no" => listening' # "no"
  /\ listening = "removed" => listening' = "removed"
  /\ listening' = "removed" /\ listening # "removed" =>
       (Idle(Boss) /\ UNCHANGED stack) \/ Boss \in closers'
  /\ counted' \subseteq counted \/ listening' = "removed"
  /\ closers \subseteq closers'
  /\ closed' => closed \/ \E t \in Threads : Unlock(t)
  /\ Holds(queue'[Boss], Listens) =>
       Holds(queue[Boss], Listens) \/ (~started /\ started' /\ UNCHANGED listening)
  /\ Once(queue'[Boss], Listens)

\* Closures other than the one of Listen may come and go.
LEMMA ListensRules ==
  ASSUME Types, ListenInv
  PROVE  LET Kept == /\ Holds(queue'[Boss], Listens) => Holds(queue[Boss], Listens)
                     /\ Once(queue'[Boss], Listens)
         IN  /\ queue' = queue => Kept
             /\ \A l \in Loops, q \in Closures : q[1] # "listen" /\ Push(l, q) => Kept
             /\ \A l \in Loops : queue[l] # <<>> /\ queue' = [queue EXCEPT ![l] = Tail(@)] => Kept
<1> DEFINE Kept == /\ Holds(queue'[Boss], Listens) => Holds(queue[Boss], Listens)
                   /\ Once(queue'[Boss], Listens)
<1>0. Boss \in Loops /\ Once(queue[Boss], Listens)
  BY DEF Loops, ListenInv
<1>1. queue' = queue => Kept
  BY <1>0
<1>2. ASSUME NEW l \in Loops, NEW q \in Closures, q[1] # "listen", Push(l, q) PROVE Kept
  <2>1. q \notin Listens
    BY <1>2 DEF Listens
  <2> QED BY <1>0, <1>2, <2>1, PushFacts DEF Types
<1>3. ASSUME NEW l \in Loops, queue[l] # <<>>, queue' = [queue EXCEPT ![l] = Tail(@)] PROVE Kept
  BY <1>0, <1>3, PullFacts DEF Types
<1> QED BY <1>1, <1>2, <1>3

LEMMA EndListening ==
  ASSUME Types, BeginInv, ListenInv, NEW t \in Threads, NEW c \in Conns, Ends(t, c),
         UNCHANGED <<serverVars, histVars>>
  PROVE  Listening
<1>1. <<"end", c>> \in Closures /\ <<"end", c>>[1] # "listen"
  BY DEF Closures
<1>2. /\ Holds(queue'[Boss], Listens) => Holds(queue[Boss], Listens)
      /\ Once(queue'[Boss], Listens)
  BY <1>1, EndConnFacts, ListensRules
<1> QED BY <1>2 DEF Listening, serverVars, histVars

LEMMA CloseAcceptorListening ==
  ASSUME Types, ListenInv, NEW t \in Threads, CloseAcceptor(t), UNCHANGED <<started, closed>>,
         t = Boss => Boss \in closers', closers \subseteq closers'
  PROVE  Listening
<1>1. <<"remove", t>> \in Closures /\ <<"remove", t>>[1] # "listen" /\ Boss \in Loops
  BY DEF Closures, Loops
<1>2. /\ Holds(queue'[Boss], Listens) => Holds(queue[Boss], Listens)
      /\ Once(queue'[Boss], Listens)
  BY <1>1, CloseAcceptorFacts, ListensRules
<1>3. listening # "no" => listening' # "no"
  BY DEF CloseAcceptor, RemoveNow
<1> QED BY <1>2, <1>3, CloseAcceptorFacts DEF Listening

LEMMA ListeningStep ==
  ASSUME IInv, Next
  PROVE  Listening
<1> USE DEF serverVars, histVars
<1>0. Types /\ ShapeInv /\ BeginInv /\ ListenInv /\ Boss \in Loops /\ Boss \notin Users
  BY ThreadsAssumption DEF IInv, Loops
<1>a. ASSUME UNCHANGED <<started, listening, closed>>, counted' \subseteq counted,
             closers' = closers,
             Holds(queue'[Boss], Listens) => Holds(queue[Boss], Listens), Once(queue'[Boss], Listens)
      PROVE  Listening
  BY <1>a DEF Listening
<1>b. ASSUME UNCHANGED <<started, listening, closed, closers, queue>>, counted' \subseteq counted
      PROVE  Listening
  BY <1>0, <1>b, <1>a DEF ListenInv
<1>1. ASSUME NEW t \in Threads, Start(t) PROVE Listening
  <2>1. /\ ~started /\ started' = TRUE /\ UNCHANGED <<listening, counted, histVars>>
        /\ Push(Boss, <<"listen", None>>)
    BY <1>1 DEF Start
  <2>2. ~Holds(queue[Boss], Listens) /\ listening = "no"
    BY <1>0, <2>1 DEF ListenInv
  <2>3. <<"listen", None>> \in Closures
    BY DEF Closures
  <2>4. Once(queue'[Boss], Listens)
    BY <1>0, <2>1, <2>2, <2>3, PushFacts DEF Types, ListenInv
  <2> QED BY <2>1, <2>2, <2>4 DEF Listening
<1>2. ASSUME NEW c \in Conns, Arrive(c) PROVE Listening
  BY <1>b, <1>2 DEF Arrive
<1>3. ASSUME HandleAccept \/ EndAccept PROVE Listening
  BY <1>b, <1>3 DEF HandleAccept, EndAccept
<1>4. ASSUME NEW c \in Conns, NEW w \in Workers, Accept(c, w) PROVE Listening
  <2>1. UNCHANGED <<started, listening, counted, histVars>>
    BY <1>4 DEF Accept
  <2>2. queue' = queue \/ Push(w, <<"connect", c>>)
    BY <1>4 DEF Accept
  <2>3. w \in Loops /\ <<"connect", c>> \in Closures /\ <<"connect", c>>[1] # "listen"
    BY DEF Loops, Closures
  <2>4. /\ Holds(queue'[Boss], Listens) => Holds(queue[Boss], Listens)
        /\ Once(queue'[Boss], Listens)
    BY <1>0, <2>2, <2>3, ListensRules
  <2> QED BY <1>a, <2>1, <2>4
<1>5. ASSUME NEW l \in Loops, RunClosure(l) PROVE Listening
  <2>1. /\ queue[l] # <<>> /\ queue' = [queue EXCEPT ![l] = Tail(@)]
        /\ UNCHANGED histVars /\ Idle(l)
    BY <1>0, <1>5, RunFacts
  <2>2. /\ Holds(queue'[Boss], Listens) => Holds(queue[Boss], Listens)
        /\ Once(queue'[Boss], Listens)
    BY <1>0, <2>1, ListensRules
  <2>3. CASE RunsListen(l)
    <3>1. Head(queue[Boss]) \in Listens /\ l = Boss
      BY <1>0, <2>1, <2>3, PullFacts DEF RunsListen, Listens, Types
    <3>2. Holds(queue[Boss], Listens) /\ ~Holds(queue'[Boss], Listens)
      BY <1>0, <2>1, <3>1, PullFacts DEF Types, ListenInv
    <3>3. started /\ listening = "no"
      BY <1>0, <3>2 DEF ListenInv
    <3>4. listening' = "yes" /\ UNCHANGED <<started, counted>>
      BY <2>3 DEF RunsListen, Listen
    <3> QED BY <2>1, <2>2, <3>2, <3>3, <3>4 DEF Listening
  <2>4. CASE RunsRemove(l)
    <3>1. PICK t \in Threads : RemoveNow(t) /\ UNCHANGED <<started, stack>>
      BY <2>4 DEF RunsRemove, RemoveAcceptor
    <3>2. \/ listening = "yes" /\ listening' = "removed"
          \/ UNCHANGED <<listening, counted>>
      BY <3>1 DEF RemoveNow
    <3>3. l = Boss
      BY <2>4 DEF RunsRemove
    <3> QED BY <2>1, <2>2, <3>1, <3>2, <3>3 DEF Listening
  <2>5. ASSUME NEW c \in Conns, RunsConnect(l, c) \/ RunsEnd(l, c) PROVE Listening
    <3>1. UNCHANGED serverVars
      BY <2>5 DEF RunsConnect, RunConnect, RunsEnd, RunEnd
    <3> QED BY <1>a, <2>1, <2>2, <3>1
  <2> QED BY <1>0, <1>5, <2>3, <2>4, <2>5, RunFacts
<1>6. ASSUME NEW c \in Conns, HandleEvents(c) PROVE Listening
  BY <1>b, <1>6 DEF HandleEvents
<1>7. ASSUME NEW t \in Threads, HandlerReturns(t) \/ Emplace(t) \/ Erase(t) \/ Touch(t) \/ Lock(t)
      PROVE  Listening
  BY <1>b, <1>7 DEF HandlerReturns, Emplace, Erase, Touch, Lock
<1>8. ASSUME NEW t \in Threads, Await(t) PROVE Listening
  <2>1. UNCHANGED <<started, listening, closed, closers, queue>> /\ counted' \subseteq counted
    BY <1>8 DEF Await
  <2> QED BY <1>b, <2>1
<1>9. ASSUME NEW t \in Threads, Unlock(t) PROVE Listening
  <2>1. UNCHANGED <<serverVars, closers, queue>>
    BY <1>9 DEF Unlock
  <2> QED BY <1>0, <1>9, <2>1 DEF Listening, ListenInv
<1>10. ASSUME NEW t \in Threads, DestroyAcceptor(t) PROVE Listening
  <2>1. t \in Users
    BY <1>0, <1>10, HeadFacts DEF DestroyAcceptor, At, FramesOf
  <2>2. CloseAcceptor(t) /\ UNCHANGED <<started, closed, closers>>
    BY <1>10 DEF DestroyAcceptor
  <2> QED BY <1>0, <2>1, <2>2, CloseAcceptorListening
<1>11. ASSUME NEW t \in Threads, Destroy(t) PROVE Listening
  <2>1. CloseAcceptor(t) /\ UNCHANGED <<started, closed, closers>> /\ t \in Users
    BY <1>11 DEF Destroy
  <2> QED BY <1>0, <2>1, CloseAcceptorListening
<1>12. ASSUME NEW t \in Threads, BeginClose(t) PROVE Listening
  <2>1. CloseAcceptor(t) /\ UNCHANGED <<started, closed>> /\ closers' = closers \cup {t}
    BY <1>12 DEF BeginClose
  <2> QED BY <1>0, <2>1, CloseAcceptorListening
<1>13. ASSUME NEW t \in Threads, NEW c \in Conns, CloseOne(t, c) PROVE Listening
  <2>1. UNCHANGED <<serverVars, histVars>> /\ (Ends(t, c) \/ UNCHANGED queue)
    BY <1>0, <1>13, CloseOneFacts
  <2> QED BY <1>0, <1>b, <2>1, EndListening
<1>14. ASSUME NEW t \in Threads, HandlerEnds(t) PROVE Listening
  <2>1. Current(t) \in Conns /\ Ends(t, Current(t)) /\ UNCHANGED <<serverVars, histVars>>
    BY <1>0, <1>14, HandlerFacts
  <2> QED BY <1>0, <2>1, EndListening
<1>15. ASSUME NEW t \in Threads, NEW c \in Conns, UserEnds(t, c) PROVE Listening
  <2>1. Ends(t, c) /\ UNCHANGED <<serverVars, histVars>>
    BY <1>15, UserEndsFacts
  <2> QED BY <1>0, <2>1, EndListening
<1> QED BY <1>1, <1>2, <1>3, <1>4, <1>5, <1>6, <1>7, <1>8, <1>9, <1>10, <1>11, <1>12, <1>13, <1>14,
           <1>15
        DEF Next, AcceptStep, ThreadStep

LEMMA ListenStep ==
  ASSUME IInv, Next
  PROVE  ListenInv'
<1>0. /\ Types /\ Types' /\ ShapeInv /\ BeginInv /\ ListenInv /\ Moves /\ Listening
      /\ Boss \in Threads
  BY MovesStep, TypesShapeStep, ListeningStep DEF IInv, Threads, Loops
<1>1. ~started' => listening' = "no"
  BY <1>0 DEF Listening, ListenInv, Types
<1>2. Holds(queue'[Boss], Listens) => started' /\ listening' = "no"
  BY <1>0 DEF Listening, ListenInv
<1>3. Once(queue'[Boss], Listens)
  BY <1>0 DEF Listening
<1>4. counted' # {} => listening' = "removed"
  BY <1>0 DEF Listening, ListenInv
<1>5. ASSUME NEW t \in Threads, Unlock(t) PROVE listening = "removed"
  <2>1. ~Idle(t) /\ Head(stack[t]) \in With("close")
    BY <1>0, <1>5, TakenFacts DEF Unlock, At
  <2>2. Holds(stack[t], With("close"))
    BY <1>0, <2>1, TailFacts DEF Types, Idle
  <2> QED BY <1>0, <2>2 DEF ListenInv
<1>6. closed' => listening' = "removed"
  BY <1>0, <1>5 DEF Listening, ListenInv
<1>7. ASSUME listening' = "removed", Boss \notin closers', Holds(stack'[Boss], With("accept"))
      PROVE  FALSE
  <2>1. Boss \notin closers /\ ~PushesAccept
    BY <1>0, <1>7 DEF Listening, PushesAccept
  <2>2. Holds(stack[Boss], With("accept"))
    BY <1>0, <1>7, <2>1, MoveAccept
  <2>3. listening # "removed"
    BY <1>0, <2>1, <2>2 DEF ListenInv
  <2>4. stack[Boss] = <<>>
    BY <1>0, <1>7, <2>3 DEF Listening, Idle
  <2> QED BY <2>2, <2>4, Short
<1>8. ASSUME NEW t \in Threads, Holds(stack'[t], With("close")) PROVE listening' = "removed"
  <2>1. CASE Lock(t)
    <3>1. ~Idle(t) /\ Head(stack[t]) \in With("lock")
      BY <1>0, <2>1, TakenFacts DEF Lock, At
    <3>2. ~Behind(stack[t], With("lock"), With("await"))
      BY <1>0, <3>1, TailFacts DEF Types, Idle
    <3> QED BY <1>0, <3>2 DEF ListenInv, Listening
  <2>2. CASE Holds(stack[t], With("close"))
    BY <1>0, <2>2 DEF ListenInv, Listening
  <2> QED BY <1>0, <1>8, <2>1, <2>2, MoveClose
<1>9. ASSUME NEW t \in Threads
      PROVE  listening' = "removed" \/ Behind(stack'[t], With("lock"), With("await"))
  <2>1. CASE Await(t)
    <3>1. listening = "removed"
      BY <1>0, <2>1 DEF Await, ListenInv
    <3> QED BY <1>0, <3>1 DEF Listening
  <2>2. CASE ~Await(t)
    BY <1>0, <2>2, MoveLock DEF ListenInv, Listening
  <2> QED BY <2>1, <2>2
<1> QED BY <1>1, <1>2, <1>3, <1>4, <1>6, <1>7, <1>8, <1>9 DEF ListenInv, Listens, With

-----------------------------------------------------------------------------
(* The theorems.                                                            *)

LEMMA InitInv ==
  ASSUME Init
  PROVE  IInv
<1>1. /\ \A t \in Threads : stack[t] = <<>>
      /\ \A l \in Loops : queue[l] = <<>>
      /\ Boss \in Loops /\ Boss \in Threads
  BY DEF Init, Loops, Threads
<1>2. Types
  <2>1. \A S : <<>> \in Seq(S)
    OBVIOUS
  <2>2. stack \in [Threads -> Seq(Frames)] /\ queue \in [Loops -> Seq(Closures)]
    BY <2>1 DEF Init
  <2>3. /\ loop \in [Conns -> Workers \cup {None}]
        /\ state \in [Conns -> {"none", "connecting", "connected", "disconnecting", "disconnected"}]
    BY DEF Init
  <2>4. calls \in 0 .. MaxCloses /\ files \in 1 .. MaxFiles
    BY BoundsAssumption DEF Init
  <2>5. /\ backlog \subseteq Conns /\ channels \subseteq Conns /\ context \subseteq Conns
        /\ conns \subseteq Conns /\ todo \subseteq Conns
        /\ mu \in Threads \cup {None} /\ counted \subseteq Threads /\ closers \subseteq Threads
    BY DEF Init
  <2>6. /\ started \in BOOLEAN /\ closed \in BOOLEAN /\ destroying \in BOOLEAN
        /\ listening \in {"no", "yes", "removed"}
        /\ crashed \in {"no", "null", "closure", "event"}
    BY DEF Init
  <2> QED BY <2>2, <2>3, <2>4, <2>5, <2>6 DEF Types
<1>3. ShapeInv
  <2>1. \A S : <<>> \in Seq(S)
    OBVIOUS
  <2> QED BY <1>1, <2>1 DEF ShapeInv
<1>4. BeginInv
  BY <1>1, Short DEF Init, BeginInv
<1>5. LockInv
  BY <1>1, Short DEF Init, LockInv
<1>6. OwnInv /\ TrackInv
  BY DEF Init, OwnInv, Needed, TrackInv
<1>7. ListenInv
  <2>1. \A t \in Threads : \A A, B : ~Holds(stack[t], A) /\ Behind(stack[t], A, B)
    BY <1>1, Short
  <2>2. \A A : ~Holds(queue[Boss], A) /\ Once(queue[Boss], A)
    BY <1>1, Short
  <2> QED BY <1>1, <2>1, <2>2 DEF Init, ListenInv
<1> QED BY <1>2, <1>3, <1>4, <1>5, <1>6, <1>7 DEF IInv

LEMMA StepInv ==
  ASSUME IInv, [Next]_vars
  PROVE  IInv'
<1>1. CASE Next
  BY <1>1, TypesShapeStep, BeginStep, LockStep, OwnStep, TrackStep, ListenStep DEF IInv
<1>2. CASE UNCHANGED vars
  BY <1>2 DEF vars, serverVars, connVars, lockVars, histVars, IInv, Types, ShapeInv, BeginInv, LockInv,
              OwnInv, Needed, TrackInv, ListenInv, FramesOf, ClosuresOf
<1> QED BY <1>1, <1>2

\* The server starts in the inductive invariant and every step of its threads
\* and loops keeps it: who may do what to a connection, what mu_ protects, who
\* holds a connection that is open, and what the acceptor has been told.
THEOREM Invariant == Spec => []IInv
<1>1. Init => IInv
  BY InitInv
<1>2. IInv /\ [Next]_vars => IInv'
  BY StepInv
<1> QED BY <1>1, <1>2, PTL DEF Spec

LEMMA OwnedFact ==
  ASSUME Types, NEW l \in Threads, NEW c \in Conns, Holds(stack[l], Readable(c))
  PROVE  Owned(l, c)
<1>1. PICK i \in Places(stack[l]) : stack[l][i] \in Readable(c)
  BY DEF Holds
<1>2. stack[l][i].conn = c /\ stack[l][i].own = TRUE
  BY <1>1 DEF Readable
<1> QED BY <1>2 DEF Owned, Places

\* A connection whose channel is in a selector and that nobody has ended is
\* alive: conns_ or the closure of its Start has it, so that HandleEvents and
\* the closures that hold a plain this find it.  Once it is being shut down this
\* goes for it until a TcpServer::Close has returned, and no longer.
THEOREM OpenStaysAlive == Spec => []OpenIsAlive
<1>1. IInv => OpenIsAlive
  <2> SUFFICES ASSUME IInv, NEW c \in channels, Needed(c), c \notin conns
               PROVE  Alive(c)
    BY DEF OpenIsAlive, Needed, Alive
  <2>1. c \in Conns /\ loop[c] \in Threads
    BY DEF IInv, Types, BeginInv, Threads, Loops
  <2>2. Holds(stack[loop[c]], Readable(c))
    BY <2>1 DEF IInv, OwnInv
  <2>3. Owned(loop[c], c)
    BY <2>1, <2>2, OwnedFact DEF IInv
  <2> QED BY <2>1, <2>3 DEF Alive
<1> QED BY <1>1, Invariant, PTL

\* conns_ does not keep connections that have ended: OnClose has still to erase
\* one whose channel is no longer registered, in whatever order the handlers,
\* the peer and TcpServer::Close have ended it.
THEOREM TrackedStaysOpen == Spec => []TrackedIsOpen
<1>1. IInv => TypeOK
  <2> SUFFICES ASSUME Types PROVE TypeOK
    BY DEF IInv
  <2>1. {started, closed, destroying} \subseteq BOOLEAN
    BY DEF Types
  <2>2. UNION {backlog, channels, context, conns, todo} \subseteq Conns
    BY DEF Types
  <2> QED BY <2>1, <2>2 DEF Types, TypeOK
<1>2. IInv => (crashed = "no" => \A c \in conns : c \in channels \/ Pending(c, "erase"))
  <2> SUFFICES ASSUME IInv, crashed = "no", NEW c \in conns, c \notin channels
               PROVE  Pending(c, "erase")
    OBVIOUS
  <2>1. c \in Conns /\ loop[c] \in Threads
    BY DEF IInv, Types, BeginInv, Threads, Loops
  <2>2. PICK i \in Places(stack[loop[c]]) : stack[loop[c]][i] \in Erasing(c)
    BY DEF IInv, TrackInv, Holds
  <2>3. stack[loop[c]][i] = Frame("erase", c, FALSE)
    BY <2>2 DEF Erasing
  <2> QED BY <2>1, <2>3, Zenon DEF Pending, Places
<1> QED BY <1>1, <1>2, Invariant, PTL DEF TrackedIsOpen

\* A connection is begun by the accept loop alone.
LEMMA BegunByAccept ==
  ASSUME IInv, Next, NEW d \in Conns, state[d] = "none", state'[d] # "none"
  PROVE  ~Idle(Boss) /\ Head(stack[Boss]).step = "accept"
<1>0. Types /\ ShapeInv /\ BeginInv
  BY DEF IInv
<1>1. ASSUME NEW t \in Threads, NEW c \in Conns, Ends(t, c) PROVE FALSE
  BY <1>0, <1>1, EndConnFacts
<1>2. ASSUME NEW t \in Threads, Start(t) PROVE FALSE
  BY <1>2 DEF Start, connVars
<1>3. ASSUME NEW c \in Conns, Arrive(c) PROVE FALSE
  BY <1>3 DEF Arrive, connVars
<1>4. ASSUME HandleAccept \/ EndAccept PROVE FALSE
  BY <1>4 DEF HandleAccept, EndAccept, connVars
<1>5. ASSUME NEW l \in Loops, RunClosure(l) PROVE FALSE
  <2>1. CASE RunsListen(l) \/ RunsRemove(l) \/ \E c \in Conns : RunsEnd(l, c)
    BY <2>1 DEF RunsListen, Listen, RunsRemove, RemoveAcceptor, RunsEnd, RunEnd, connVars
  <2>2. ASSUME NEW c \in Conns, RunsConnect(l, c) PROVE FALSE
    BY <1>0, <2>2 DEF RunsConnect, RunConnect, Connected, Types
  <2> QED BY <1>0, <1>5, <2>1, <2>2, RunFacts
<1>6. ASSUME NEW c \in Conns, HandleEvents(c) PROVE FALSE
  BY <1>0, <1>6 DEF HandleEvents, Open, Types
<1>7. ASSUME NEW t \in Threads,
             HandlerReturns(t) \/ Emplace(t) \/ Erase(t) \/ Touch(t) \/ Await(t) \/ Lock(t)
               \/ Unlock(t) \/ DestroyAcceptor(t) \/ BeginClose(t) \/ Destroy(t)
      PROVE  FALSE
  BY <1>7 DEF HandlerReturns, Emplace, Erase, Touch, Await, Lock, Unlock, DestroyAcceptor, BeginClose,
              Destroy, connVars
<1>8. ASSUME NEW t \in Threads, NEW c \in Conns, CloseOne(t, c) PROVE FALSE
  BY <1>0, <1>1, <1>8, CloseOneFacts
<1>9. ASSUME NEW t \in Threads, HandlerEnds(t) PROVE FALSE
  BY <1>0, <1>1, <1>9, HandlerFacts
<1>10. ASSUME NEW t \in Threads, NEW c \in Conns, UserEnds(t, c) PROVE FALSE
  BY <1>1, <1>10, UserEndsFacts
<1>11. PICK c \in Conns, w \in Workers : Accept(c, w)
  BY <1>2, <1>3, <1>4, <1>5, <1>6, <1>7, <1>8, <1>9, <1>10 DEF Next, AcceptStep, ThreadStep
<1> QED BY <1>11 DEF Accept, At

\* Once a TcpServer::Close has returned the acceptor is removed, and unless the
\* boss loop itself has closed the server its accept loop is not running: no
\* connection is accepted any more.
THEOREM ClosedAcceptsNothing == Spec => NoAcceptAfterClose
<1> DEFINE Held == closed /\ Boss \notin closers =>
                     \A c \in Conns : state[c] = "none" => state'[c] = "none"
<1>1. IInv /\ [Next]_vars => [Held]_vars
  <2> SUFFICES ASSUME IInv, Next, closed, Boss \notin closers,
                      NEW c \in Conns, state[c] = "none", state'[c] # "none"
               PROVE  FALSE
    OBVIOUS
  <2>1. ~Idle(Boss) /\ Head(stack[Boss]).step = "accept"
    BY BegunByAccept
  <2>2. Types /\ Boss \in Threads /\ ~Holds(stack[Boss], With("accept"))
    BY DEF IInv, ListenInv, Threads, Loops
  <2>3. Head(stack[Boss]) \in With("accept")
    BY <2>1, <2>2, TakenFacts
  <2> QED BY <2>1, <2>2, <2>3, TailFacts DEF Types, Idle
<1> QED BY <1>1, Invariant, PTL DEF Spec, NoAcceptAfterClose

-----------------------------------------------------------------------------
(* The first Close of a user thread: what its steps wait for, and who brings *)
(* it.                                                                      *)

\* The steps of Close and the destructor, and the closures of the acceptor's
\* Remove for the latches of the threads in T.
Serving == {f \in Frames : f.step \in {"await", "lock", "close", "members"}}
Removes(T) == {q \in Closures : q[1] = "remove" /\ q[2] \in T}

\* Nobody but t is inside Close or the destructor, or has left anything there.
OthersAway(t) ==
  /\ \A u \in Threads \ {t} : ~Holds(stack[u], Serving)
  /\ ~Holds(queue[Boss], Removes(Threads \ {t}))
  /\ counted \subseteq {t} /\ mu \in {None, t}

\* The closure of Start, which is ahead of the one that counts the latch of t
\* down, makes sure that there is a channel to remove.
LatchComes(t) ==
  /\ Holds(queue[Boss], Removes({t}))
  /\ listening = "yes" \/ Behind(queue[Boss], Removes({t}), Listens)

FirstClose(t) ==
  /\ stack[t] \in {<<>>, CloseFrames, <<Step("lock")>>, <<Step("close")>>}
  /\ mu = t <=> stack[t] = <<Step("close")>>
  /\ Once(queue[Boss], Removes({t}))
  /\ Holds(queue[Boss], Removes({t})) => LatchComes(t)
  /\ stack[t] = CloseFrames => t \in counted \/ LatchComes(t)

ListenComes == started /\ listening = "no" => Holds(queue[Boss], Listens)

FirstInv ==
  /\ ListenComes
  /\ calls = 0 => closers = {}
  /\ calls = 0 /\ ~destroying => OthersAway(None) /\ listening # "removed"
  /\ \A t \in Users : closers = {t} /\ calls = 1 /\ ~destroying => OthersAway(t) /\ FirstClose(t)

\* Who is closing goes on by itself, or waits for what is about to come: the
\* latch for its closure, mu_ for nobody.
CloseGoesOn ==
  \A t \in Users : closers = {t} /\ calls = 1 /\ ~destroying =>
    \/ Idle(t)
    \/ At(t, "await") /\ (t \in counted \/ LatchComes(t))
    \/ At(t, "lock") /\ mu = None
    \/ At(t, "close") /\ mu = t

LEMMA QueueBehind ==
  ASSUME NEW S, NEW s \in Seq(S), NEW x \in S, NEW A, NEW B, Behind(s, A, B),
         x \notin A \/ Holds(s, B)
  PROVE  Behind(Append(s, x), A, B)
<1>1. Append(s, x) = s \o <<x>> /\ <<x>> \in Seq(S)
  BY AppendIsConcat
<1>2. x \notin A => Behind(<<x>>, A, B)
  BY Short, Lacking
<1>3. Behind(s \o <<x>>, A, B)
  BY <1>1, <1>2, BehindConcat
<1> QED BY <1>1, <1>3

\* What the closures on the boss loop say of the acceptor stays.
Kept ==
  /\ Holds(queue'[Boss], Listens) <=> Holds(queue[Boss], Listens)
  /\ \A T : /\ Holds(queue'[Boss], Removes(T)) <=> Holds(queue[Boss], Removes(T))
            /\ Once(queue[Boss], Removes(T)) => Once(queue'[Boss], Removes(T))
            /\ Behind(queue[Boss], Removes(T), Listens) => Behind(queue'[Boss], Removes(T), Listens)

LEMMA KeptRules ==
  ASSUME Types
  PROVE  /\ queue'[Boss] = queue[Boss] => Kept
         /\ \A l \in Loops, q \in Closures : q[1] \notin {"listen", "remove"} /\ Push(l, q) => Kept
         /\ \A l \in Loops :
              /\ queue[l] # <<>> /\ queue' = [queue EXCEPT ![l] = Tail(@)]
              /\ l = Boss => Head(queue[l])[1] \notin {"listen", "remove"}
              => Kept
<1>0. Boss \in Loops /\ queue[Boss] \in Seq(Closures)
  BY DEF Loops, Types
<1>1. queue'[Boss] = queue[Boss] => Kept
  BY DEF Kept
<1>2. ASSUME NEW l \in Loops, NEW q \in Closures, q[1] \notin {"listen", "remove"}, Push(l, q)
      PROVE  Kept
  <2>1. q \notin Listens /\ \A T : q \notin Removes(T)
    BY <1>2 DEF Listens, Removes
  <2>2. CASE l = Boss
    <3>1. queue'[Boss] = Append(queue[Boss], q)
      BY <1>0, <1>2, <2>2, PushFacts DEF Types
    <3>2. \A A : Holds(Append(queue[Boss], q), A) <=> Holds(queue[Boss], A) \/ q \in A
      BY <1>0, AppendFacts
    <3>3. \A A : Once(queue[Boss], A) /\ q \notin A => Once(Append(queue[Boss], q), A)
      BY <1>0, AppendFacts
    <3>4. \A A, B : Behind(queue[Boss], A, B) /\ q \notin A => Behind(Append(queue[Boss], q), A, B)
      BY <1>0, QueueBehind
    <3> QED BY <2>1, <3>1, <3>2, <3>3, <3>4 DEF Kept
  <2>3. CASE l # Boss
    <3>1. queue'[Boss] = queue[Boss]
      BY <1>0, <1>2, <2>3, PushFacts DEF Types
    <3> QED BY <1>1, <3>1
  <2> QED BY <2>2, <2>3
<1>3. ASSUME NEW l \in Loops, queue[l] # <<>>, queue' = [queue EXCEPT ![l] = Tail(@)],
             l = Boss => Head(queue[l])[1] \notin {"listen", "remove"}
      PROVE  Kept
  <2>1. CASE l = Boss
    <3> DEFINE s == queue[Boss]
    <3>1. queue'[Boss] = Tail(s) /\ s \in Seq(Closures) /\ s # <<>>
      BY <1>0, <1>3, <2>1, PullFacts DEF Types
    <3>2. Head(s) \notin Listens /\ \A T : Head(s) \notin Removes(T)
      BY <1>3, <2>1 DEF Listens, Removes
    <3> HIDE DEF s
    <3>3. \A A : /\ Holds(s, A) <=> Head(s) \in A \/ Holds(Tail(s), A)
                 /\ Once(s, A) => Once(Tail(s), A)
      BY <3>1, TailFacts
    <3>4. \A A, B : Behind(s, A, B) /\ Head(s) \notin B => Behind(Tail(s), A, B)
      BY <3>1, TailFacts
    <3>5. /\ Holds(Tail(s), Listens) <=> Holds(s, Listens)
          /\ \A T : /\ Holds(Tail(s), Removes(T)) <=> Holds(s, Removes(T))
                    /\ Once(s, Removes(T)) => Once(Tail(s), Removes(T))
                    /\ Behind(s, Removes(T), Listens) => Behind(Tail(s), Removes(T), Listens)
      BY <3>2, <3>3, <3>4
    <3> QED BY <3>1, <3>5 DEF Kept, s
  <2>2. CASE l # Boss
    <3>1. queue'[Boss] = queue[Boss]
      BY <1>0, <1>3, <2>2, PullFacts DEF Types
    <3> QED BY <1>1, <3>1
  <2> QED BY <2>1, <2>2
<1> QED BY <1>1, <1>2, <1>3

\* Close and the destructor come to a stack only when somebody calls them.
LEMMA ServingMove ==
  ASSUME Types, Moves, NEW u \in Threads, ~Holds(stack[u], Serving), ~BeginClose(u), ~Destroy(u)
  PROVE  ~Holds(stack'[u], Serving)
<1>1. \A p : (\A step \in {"await", "lock", "close", "members"} : ~Holds(p, With(step))) =>
               ~Holds(p, Serving)
  BY DEF Holds, Serving, With
<1>2. ASSUME NEW p \in Seq(Frames), First(u, p), PushedOn(u, p)
      PROVE  ~Holds(stack'[u], Serving)
  <2>1. CASE Marks(p)
    <3>1. ~Holds(p, Serving)
      BY <1>1, <2>1 DEF Marks, Closing
    <3> QED BY <1>2, <3>1, FirstFacts DEF Types
  <2>2. ASSUME NEW c \in Conns, p = ConnectFrames(c) PROVE ~Holds(stack'[u], Serving)
    <3>1. \A step \in Closing : ~Holds(p, With(step))
      BY <2>2, ConnectFacts
    <3>2. ~Holds(p, Serving)
      BY <1>1, <3>1 DEF Closing
    <3> QED BY <1>2, <3>2, FirstFacts DEF Types
  <2>3. CASE p = <<Step("accept")>>
    <3>1. Step("accept") \notin Serving
      BY FrameFacts DEF Serving, Closing
    <3>2. ~Holds(p, Serving)
      BY <2>3, <3>1, Short
    <3> QED BY <1>2, <3>2, FirstFacts DEF Types
  <2> QED BY <1>2, <2>1, <2>2, <2>3 DEF PushedOn
<1>3. ~Idle(u) => Head(stack[u]) \notin Serving
  <2>1. ~Idle(u) => (Holds(stack[u], Serving) <=> Head(stack[u]) \in Serving \/ Holds(Tail(stack[u]), Serving))
    BY TailFacts DEF Types, Idle
  <2> QED BY <2>1
<1>4. CASE Takes(u)
  <2>1. ~Idle(u) /\ Then(u, <<>>)
    BY <1>4 DEF Takes
  <2>2. <<>> \in Seq(Frames)
    OBVIOUS
  <2>3. ~Holds(<<>>, Serving)
    BY Short
  <2> QED BY <2>1, <2>2, <2>3, ThenFacts DEF Types
<1>5. ~Lock(u) /\ ~(~Idle(u) /\ Head(stack[u]).step = "members")
  <2>1. ASSUME ~Idle(u) PROVE Head(stack[u]) \in Frames
    BY <2>1, BehindFirst DEF Types, Idle
  <2> QED BY <1>3, <2>1 DEF Lock, At, Serving
<1> QED BY <1>2, <1>4, <1>5, MovesOn

\* A user thread does nothing but call, close and destroy.
LEMMA UserStack ==
  ASSUME Types, ShapeInv, BeginInv, Next, NEW t \in Users
  PROVE  \/ stack'[t] = stack[t]
         \/ Await(t) \/ Lock(t) \/ Unlock(t) \/ DestroyAcceptor(t) \/ BeginClose(t) \/ Destroy(t)
<1>0. t \in Threads /\ t \notin Loops /\ Boss \in Loops /\ Boss # t
      /\ \A c \in Conns : state[c] # "none" => loop[c] # t /\ loop[c] \in Loops
  BY ThreadsAssumption DEF Threads, Loops, BeginInv
<1>1. ASSUME NEW u, u # t, NEW p, First(u, p) \/ Then(u, p) PROVE stack'[t] = stack[t]
  BY <1>0, <1>1 DEF First, Then, Types
<1>2. ASSUME ~Idle(t) PROVE Head(stack[t]).step \in Closing
  <2>1. Head(stack[t]) \in FramesOf(t)
    BY <1>0, <1>2, HeadFacts
  <2>2. Head(stack[t]).step \notin Opening \cup Ending
    <3>1. ASSUME Head(stack[t]).step \in Opening \cup Ending PROVE FALSE
      <4>1. Head(stack[t]).conn \in Conns /\ loop[Head(stack[t]).conn] = t
            /\ state[Head(stack[t]).conn] # "none"
        BY <2>1, <3>1 DEF FramesOf
      <4> QED BY <1>0, <4>1
    <3> QED BY <3>1
  <2> QED BY <2>1, <2>2 DEF FramesOf, Frames
<1>3. ASSUME NEW u \in Threads, NEW c \in Conns, Ends(u, c) PROVE stack'[t] = stack[t]
  BY <1>0, <1>1, <1>3, EndConnFacts
<1>4. ASSUME NEW u \in Threads, Start(u) PROVE stack'[t] = stack[t]
  BY <1>4 DEF Start
<1>5. ASSUME NEW c \in Conns, Arrive(c) PROVE stack'[t] = stack[t]
  BY <1>5 DEF Arrive
<1>6. ASSUME HandleAccept \/ EndAccept PROVE stack'[t] = stack[t]
  BY <1>0, <1>1, <1>6 DEF HandleAccept, EndAccept
<1>7. ASSUME NEW c \in Conns, NEW w \in Workers, Accept(c, w) PROVE stack'[t] = stack[t]
  BY <1>0, <1>1, <1>7 DEF Accept
<1>8. ASSUME NEW l \in Loops, RunClosure(l) PROVE stack'[t] = stack[t]
  <2>1. l # t
    BY <1>0
  <2>2. CASE RunsListen(l) \/ RunsRemove(l)
    BY <2>2 DEF RunsListen, Listen, RunsRemove, RemoveAcceptor
  <2>3. ASSUME NEW c \in Conns, RunsConnect(l, c) \/ RunsEnd(l, c) PROVE stack'[t] = stack[t]
    BY <1>1, <2>1, <2>3 DEF RunsConnect, RunConnect, RunsEnd, RunEnd
  <2> QED BY <1>8, <2>2, <2>3, RunFacts
<1>9. ASSUME NEW c \in Conns, HandleEvents(c) PROVE stack'[t] = stack[t]
  <2>1. loop[c] # t
    BY <1>0, <1>9 DEF HandleEvents, BeginInv
  <2> QED BY <1>1, <1>9, <2>1 DEF HandleEvents
<1>10. ASSUME NEW u \in Threads, HandlerReturns(u) \/ Emplace(u) \/ Erase(u) \/ Touch(u)
       PROVE  stack'[t] = stack[t]
  <2>1. ~Idle(u) /\ Head(stack[u]).step \notin Closing /\ Then(u, <<>>)
    BY <1>10 DEF HandlerReturns, InHandler, Emplace, Erase, Touch, At, Closing
  <2> QED BY <1>1, <1>2, <2>1
<1>11. ASSUME NEW u \in Threads, u # t,
              Await(u) \/ Lock(u) \/ Unlock(u) \/ DestroyAcceptor(u) \/ BeginClose(u) \/ Destroy(u)
       PROVE  stack'[t] = stack[t]
  BY <1>1, <1>11 DEF Await, Lock, Unlock, DestroyAcceptor, BeginClose, Destroy
<1>12. ASSUME NEW u \in Threads, NEW c \in Conns, CloseOne(u, c) PROVE stack'[t] = stack[t]
  BY <1>3, <1>12, CloseOneFacts
<1>13. ASSUME NEW u \in Threads, HandlerEnds(u) PROVE stack'[t] = stack[t]
  BY <1>3, <1>13, HandlerFacts
<1>14. ASSUME NEW u \in Threads, NEW c \in Conns, UserEnds(u, c) PROVE stack'[t] = stack[t]
  BY <1>3, <1>14, UserEndsFacts
<1> QED BY <1>4, <1>5, <1>6, <1>7, <1>8, <1>9, <1>10, <1>11, <1>12, <1>13, <1>14
        DEF Next, AcceptStep, ThreadStep

\* Where a user thread is that nobody disturbs.
LEMMA Stages ==
  ASSUME NEW t \in Users, FirstClose(t)
  PROVE  /\ t \in Threads /\ t # None /\ t # Boss
         /\ At(t, "await") => stack[t] = CloseFrames
         /\ At(t, "lock") => stack[t] = <<Step("lock")>>
         /\ At(t, "close") => stack[t] = <<Step("close")>>
         /\ ~At(t, "members")
         /\ Idle(t) \/ At(t, "await") \/ At(t, "lock") \/ At(t, "close")
<1>0. t \in Threads /\ t # None /\ t # Boss
  BY ThreadsAssumption DEF Threads, Loops
<1>1. stack[t] \in {<<>>, CloseFrames, <<Step("lock")>>, <<Step("close")>>}
  BY DEF FirstClose
<1>2. stack[t] = CloseFrames => ~Idle(t) /\ Head(stack[t]).step = "await"
  BY DEF CloseFrames, Idle, Step, Frame
<1>3. stack[t] = <<Step("lock")>> => ~Idle(t) /\ Head(stack[t]).step = "lock"
  BY DEF Idle, Step, Frame
<1>4. stack[t] = <<Step("close")>> => ~Idle(t) /\ Head(stack[t]).step = "close"
  BY DEF Idle, Step, Frame
<1> QED BY <1>0, <1>1, <1>2, <1>3, <1>4 DEF At, Idle

\* A step that has nothing to do with Close.
Quiet ==
  /\ UNCHANGED <<started, listening, counted, mu, closers, calls, destroying>>
  /\ Kept

LEMMA QuietStep ==
  ASSUME IInv, FirstInv, Next, Quiet
  PROVE  FirstInv'
<1>0. /\ Types /\ ShapeInv /\ BeginInv /\ LockInv /\ Moves /\ Kept
      /\ UNCHANGED <<started, listening, counted, mu, closers, calls, destroying>>
  BY MovesStep DEF IInv, Quiet
<1>1. ASSUME NEW u \in Threads PROVE ~BeginClose(u) /\ ~Destroy(u)
  <2>1. calls \in Nat
    BY <1>0, BoundsAssumption DEF Types
  <2>2. ~BeginClose(u)
    BY <1>0, <2>1 DEF BeginClose
  <2>3. ~Destroy(u)
    BY <1>0 DEF Destroy, MayCall
  <2> QED BY <2>2, <2>3
<1>2. ListenComes' /\ (calls' = 0 => closers' = {})
  BY <1>0 DEF FirstInv, ListenComes, Kept, Listens
<1>3. ASSUME NEW x \in Users \cup {None}, OthersAway(x) PROVE OthersAway(x)'
  <2>1. \A u \in Threads \ {x} : ~Holds(stack'[u], Serving)
    BY <1>0, <1>1, <1>3, ServingMove DEF OthersAway
  <2>2. ~Holds(queue'[Boss], Removes(Threads \ {x}))
    BY <1>0, <1>3 DEF OthersAway, Kept
  <2> QED BY <1>0, <1>3, <2>1, <2>2 DEF OthersAway, Serving, Removes
<1>4. ASSUME NEW t \in Users, FirstClose(t) PROVE FirstClose(t)'
  <2>0. t \in Threads /\ t # None
    BY <1>4, Stages
  <2>1. ~Await(t) /\ ~Lock(t)
    BY <1>0, <2>0 DEF Await, Lock
  <2>2. ~Unlock(t)
    <3>1. ASSUME Unlock(t) PROVE stack[t] = <<Step("close")>> /\ mu' = None
      BY <1>4, <3>1, Stages DEF Unlock
    <3> QED BY <1>0, <1>4, <2>0, <3>1 DEF FirstClose
  <2>3. ~DestroyAcceptor(t)
    BY <1>4, Stages DEF DestroyAcceptor
  <2>4. stack'[t] = stack[t]
    BY <1>0, <1>1, <2>0, <2>1, <2>2, <2>3, UserStack
  <2>5. LatchComes(t) => LatchComes(t)'
    BY <1>0 DEF LatchComes, Kept, Removes, Listens
  <2>6. Once(queue'[Boss], Removes({t})) /\ (Holds(queue'[Boss], Removes({t})) <=> Holds(queue[Boss], Removes({t})))
    BY <1>0, <1>4 DEF FirstClose, Kept
  <2> QED BY <1>0, <1>4, <2>4, <2>5, <2>6 DEF FirstClose, Removes
<1> QED BY <1>0, <1>2, <1>3, <1>4 DEF FirstInv


\* Whoever is inside Close, before the destructor, is the one that closes.
LEMMA WhoServes ==
  ASSUME Types, FirstInv, ~destroying, NEW u \in Threads,
         \E step \in {"await", "lock", "close", "members"} : At(u, step)
  PROVE  /\ calls # 0
         /\ \A t \in Users : closers = {t} /\ calls = 1 => u = t
<1>1. Head(stack[u]) \in Serving /\ ~Idle(u)
  BY TakenFacts DEF At, Serving
<1>2. Holds(stack[u], Serving)
  BY <1>1, TailFacts DEF Types, Idle
<1> QED BY <1>2, ThreadsAssumption DEF FirstInv, OthersAway

\* The steps of Close itself.
LEMMA ServeStep ==
  ASSUME IInv, FirstInv, NEW u \in Threads, Await(u) \/ Lock(u) \/ Unlock(u)
  PROVE  FirstInv'
<1>0. Types /\ LockInv
  BY DEF IInv
<1>1. UNCHANGED <<started, listening, closers, calls, destroying, queue>>
  BY DEF Await, Lock, Unlock, serverVars, histVars
<1>2. ~destroying =>
        calls # 0 /\ \A t \in Users : closers = {t} /\ calls = 1 => u = t
  BY <1>0, WhoServes DEF Await, Lock, Unlock
<1>3. ASSUME NEW t \in Users, closers = {t}, calls = 1, ~destroying
      PROVE  OthersAway(t)' /\ FirstClose(t)'
  <2>1. u = t /\ OthersAway(t) /\ FirstClose(t)
    BY <1>2, <1>3 DEF FirstInv
  <2>2. /\ t \in Threads /\ t # None
        /\ At(t, "await") => stack[t] = CloseFrames
        /\ At(t, "lock") => stack[t] = <<Step("lock")>>
        /\ At(t, "close") => stack[t] = <<Step("close")>>
    BY <2>1, Stages
  <2>3. \A v \in Threads \ {t} : stack'[v] = stack[v]
    BY <1>0, <2>1 DEF Await, Lock, Unlock, Then, Types
  <2>4. counted' \subseteq counted /\ mu' \in {None, t}
    <3>1. CASE Await(t)
      BY <2>1, <3>1 DEF Await, lockVars, OthersAway
    <3>2. CASE Lock(t) \/ Unlock(t)
      BY <3>2 DEF Lock, Unlock, serverVars
    <3> QED BY <2>1, <3>1, <3>2
  <2>5. OthersAway(t)'
    BY <1>1, <2>1, <2>3, <2>4 DEF OthersAway, Serving, Removes
  <2>6. Once(queue'[Boss], Removes({t})) /\ (Holds(queue'[Boss], Removes({t})) => LatchComes(t)')
    BY <1>1, <2>1 DEF FirstClose, LatchComes, Removes, Listens
  <2>7. stack \in [Threads -> Seq(Frames)] /\ stack' = [stack EXCEPT ![t] = stack'[t]]
    BY <1>0, <2>1, <2>2 DEF Await, Lock, Unlock, Then, Types
  <2>8. Step("lock") # Step("close") /\ CloseFrames # <<Step("close")>> /\ CloseFrames # <<Step("lock")>>
        /\ <<Step("lock")>> # <<Step("close")>> /\ <<>> # <<Step("close")>>
        /\ CloseFrames # <<>>
    <3>1. Step("lock").step # Step("close").step
      BY FrameFacts DEF Closing
    <3>2. Step("lock") # Step("close")
      BY <3>1
    <3> QED BY <3>2 DEF CloseFrames
  <2> DEFINE lk == <<Step("lock")>>
             cl == <<Step("close")>>
  <2>9. ASSUME stack'[t] \in {<<>>, lk, cl}, mu' = t <=> stack'[t] = cl PROVE FirstClose(t)'
    <3>1. stack'[t] # CloseFrames
      BY <2>8, <2>9
    <3> QED BY <2>6, <2>9, <3>1 DEF FirstClose, Step, Frame, CloseFrames
  <2>10. CASE Await(t)
    <3>1. stack[t] = CloseFrames /\ UNCHANGED mu
      BY <2>2, <2>10 DEF Await, lockVars
    <3>2. stack'[t] = <<Step("lock")>>
      BY <2>2, <2>7, <2>10, <3>1 DEF Await, Then, CloseFrames
    <3>3. mu # t
      BY <2>1, <2>8, <3>1 DEF FirstClose
    <3> QED BY <2>5, <2>8, <2>9, <3>1, <3>2, <3>3
  <2>11. CASE Lock(t)
    <3>1. stack[t] = <<Step("lock")>> /\ mu' = t
      BY <2>2, <2>11 DEF Lock
    <3>2. stack'[t] = <<Step("close")>>
      BY <2>2, <2>7, <2>11, <3>1 DEF Lock, Then
    <3> QED BY <2>5, <2>9, <3>1, <3>2
  <2>12. CASE Unlock(t)
    <3>1. stack[t] = <<Step("close")>> /\ mu' = None
      BY <2>2, <2>12 DEF Unlock
    <3>2. stack'[t] = <<>>
      BY <2>2, <2>7, <2>12, <3>1 DEF Unlock, Then
    <3> QED BY <2>2, <2>5, <2>8, <2>9, <3>1, <3>2
  <2> QED BY <2>1, <2>10, <2>11, <2>12
<1>4. ListenComes' /\ (calls' = 0 => closers' = {})
  BY <1>1 DEF FirstInv, ListenComes, Listens
<1> QED BY <1>1, <1>2, <1>3, <1>4 DEF FirstInv

\* The closure of Start is pushed, and runs.
LEMMA ListenStarts ==
  ASSUME IInv, FirstInv, NEW u \in Threads, Start(u)
  PROVE  FirstInv'
<1>0. Types /\ Boss \in Loops /\ queue[Boss] \in Seq(Closures)
  BY DEF IInv, Types, Loops
<1> DEFINE q == <<"listen", None>>
<1>1. q \in Closures /\ q \in Listens /\ \A T : q \notin Removes(T)
  BY DEF Closures, Listens, Removes
<1>2. Push(Boss, q) /\ UNCHANGED <<listening, counted, mu, stack, closers, calls, destroying>>
  BY DEF Start, lockVars, histVars
<1> HIDE DEF q
<1>3. queue'[Boss] = Append(queue[Boss], q)
  BY <1>0, <1>1, <1>2, PushFacts DEF Types
<1>4. \A A : /\ Holds(Append(queue[Boss], q), A) <=> Holds(queue[Boss], A) \/ q \in A
             /\ Once(queue[Boss], A) /\ q \notin A => Once(Append(queue[Boss], q), A)
  BY <1>0, <1>1, AppendFacts
<1>5. \A A, B : Behind(queue[Boss], A, B) /\ q \notin A => Behind(Append(queue[Boss], q), A, B)
  BY <1>0, <1>1, QueueBehind
<1>6. /\ Holds(queue'[Boss], Listens)
      /\ \A T : /\ Holds(queue'[Boss], Removes(T)) <=> Holds(queue[Boss], Removes(T))
                /\ Once(queue[Boss], Removes(T)) => Once(queue'[Boss], Removes(T))
                /\ Behind(queue[Boss], Removes(T), Listens) => Behind(queue'[Boss], Removes(T), Listens)
  BY <1>1, <1>3, <1>4, <1>5
<1>7. ListenComes'
  BY <1>6 DEF ListenComes, Listens
<1>8. \A x : OthersAway(x) => OthersAway(x)'
  BY <1>2, <1>6 DEF OthersAway, Serving, Removes
<1>9. \A t \in Users : FirstClose(t) => FirstClose(t)'
  BY <1>2, <1>6 DEF FirstClose, LatchComes, Removes, Listens
<1> QED BY <1>2, <1>7, <1>8, <1>9 DEF FirstInv

LEMMA ListenRuns ==
  ASSUME IInv, FirstInv, RunClosure(Boss), Head(queue[Boss])[1] = "listen"
  PROVE  FirstInv'
<1>0. /\ Types /\ ShapeInv /\ BeginInv /\ ListenInv /\ Boss \in Loops
      /\ queue[Boss] \in Seq(Closures)
  BY DEF IInv, Types, Loops
<1>1. /\ Idle(Boss) /\ queue[Boss] # <<>> /\ queue' = [queue EXCEPT ![Boss] = Tail(@)]
      /\ UNCHANGED <<mu, closers, calls, destroying>>
  BY <1>0, RunFacts DEF lockVars, histVars
<1>2. listening' = "yes" /\ UNCHANGED <<counted, stack>>
  BY DEF RunClosure, Listen
<1>3. Head(queue[Boss]) \in Listens /\ \A T : Head(queue[Boss]) \notin Removes(T)
  BY <1>0, <1>1, PullFacts DEF Types, Listens, Removes
<1>4. Holds(queue[Boss], Listens)
  BY <1>0, <1>1, <1>3, TailFacts
<1>5. listening = "no"
  BY <1>0, <1>4 DEF ListenInv
<1>6. queue'[Boss] = Tail(queue[Boss])
  BY <1>0, <1>1, PullFacts DEF Types
<1>7. \A T : /\ Holds(queue'[Boss], Removes(T)) <=> Holds(queue[Boss], Removes(T))
             /\ Once(queue[Boss], Removes(T)) => Once(queue'[Boss], Removes(T))
  BY <1>0, <1>1, <1>3, <1>6, TailFacts
<1>8. ListenComes'
  BY <1>2 DEF ListenComes
<1>9. \A x : OthersAway(x) => OthersAway(x)'
  BY <1>1, <1>2, <1>7 DEF OthersAway, Serving, Removes
<1>10. \A t \in Users : FirstClose(t) => FirstClose(t)'
  <2> SUFFICES ASSUME NEW t \in Users, FirstClose(t) PROVE FirstClose(t)'
    OBVIOUS
  <2>1. LatchComes(t) => LatchComes(t)'
    BY <1>2, <1>7 DEF LatchComes, Removes
  <2> QED BY <1>1, <1>2, <1>7, <2>1 DEF FirstClose, Removes
<1> QED BY <1>1, <1>2, <1>8, <1>9, <1>10 DEF FirstInv

\* The closure of Remove finds the channel of the acceptor, and counts down.
LEMMA RemoveRuns ==
  ASSUME IInv, FirstInv, RunClosure(Boss), Head(queue[Boss])[1] = "remove"
  PROVE  FirstInv'
<1>0. /\ Types /\ ShapeInv /\ BeginInv /\ ListenInv /\ Boss \in Loops
      /\ queue[Boss] \in Seq(Closures)
  BY DEF IInv, Types, Loops
<1>1. /\ Idle(Boss) /\ queue[Boss] # <<>> /\ queue' = [queue EXCEPT ![Boss] = Tail(@)]
      /\ UNCHANGED <<mu, closers, calls, destroying>>
  BY <1>0, RunFacts DEF lockVars, histVars
<1> DEFINE s == Head(queue[Boss])[2]
<1>2. RemoveNow(s) /\ UNCHANGED <<started, stack>>
  BY DEF RunClosure, RemoveAcceptor
<1>3. /\ s \in Threads
      /\ Head(queue[Boss]) \notin Listens
      /\ \A T : Head(queue[Boss]) \in Removes(T) <=> s \in T
  BY <1>0, <1>1, QueueHeadFacts DEF ClosuresOf, Listens, Removes
<1> HIDE DEF s
<1>4. queue'[Boss] = Tail(queue[Boss])
  BY <1>0, <1>1, PullFacts DEF Types
<1>5. \A A : /\ Holds(queue[Boss], A) <=> Head(queue[Boss]) \in A \/ Holds(queue'[Boss], A)
             /\ Once(queue[Boss], A) => Once(queue'[Boss], A)
             /\ Once(queue[Boss], A) /\ Head(queue[Boss]) \in A => ~Holds(queue'[Boss], A)
             /\ \A B : Behind(queue[Boss], A, B) => Head(queue[Boss]) \notin A
  BY <1>0, <1>1, <1>4, TailFacts
<1>6. ListenComes'
  BY <1>2, <1>3, <1>5 DEF FirstInv, ListenComes, RemoveNow, Listens
<1>7. calls # 0 \/ destroying
  BY <1>3, <1>5, ThreadsAssumption DEF FirstInv, OthersAway
<1>8. ASSUME NEW t \in Users, closers = {t}, calls = 1, ~destroying
      PROVE  OthersAway(t)' /\ FirstClose(t)'
  <2>1. OthersAway(t) /\ FirstClose(t)
    BY <1>8 DEF FirstInv
  <2>2. s = t
    BY <1>3, <1>5, <2>1 DEF OthersAway
  <2>3. LatchComes(t) /\ Head(queue[Boss]) \in Removes({t})
    BY <1>3, <1>5, <2>1, <2>2 DEF FirstClose
  <2>4. listening = "yes"
    BY <1>5, <2>3 DEF LatchComes
  <2>5. counted' = counted \cup {t}
    BY <1>2, <2>2, <2>4 DEF RemoveNow
  <2>6. ~Holds(queue'[Boss], Removes({t})) /\ Once(queue'[Boss], Removes({t}))
    BY <1>5, <2>1, <2>3 DEF FirstClose
  <2>7. OthersAway(t)'
    BY <1>1, <1>2, <1>5, <2>1, <2>5 DEF OthersAway, Serving, Removes
  <2>8. FirstClose(t)'
    BY <1>1, <1>2, <2>1, <2>5, <2>6 DEF FirstClose, Removes
  <2> QED BY <2>7, <2>8
<1> QED BY <1>1, <1>6, <1>7, <1>8 DEF FirstInv


LEMMA CloseKeepsListen ==
  ASSUME Types, ListenComes, NEW u \in Threads, CloseAcceptor(u), UNCHANGED started
  PROVE  ListenComes'
<1>1. CASE u = Boss
  BY <1>1 DEF CloseAcceptor, RemoveNow, ListenComes, Listens
<1>2. CASE u # Boss
  <2>1. Push(Boss, <<"remove", u>>) /\ UNCHANGED listening
    BY <1>2 DEF CloseAcceptor
  <2>2. <<"remove", u>> \in Closures /\ Boss \in Loops
    BY DEF Closures, Loops
  <2>3. Holds(queue[Boss], Listens) => Holds(queue'[Boss], Listens)
    BY <2>1, <2>2, PushFacts DEF Types
  <2> QED BY <2>1, <2>3 DEF ListenComes, Listens
<1> QED BY <1>1, <1>2

LEMMA DestroyStep ==
  ASSUME IInv, FirstInv, NEW u \in Threads, Destroy(u) \/ DestroyAcceptor(u)
  PROVE  FirstInv'
<1>0. Types /\ ListenComes
  BY DEF IInv, FirstInv
<1>1. CloseAcceptor(u) /\ UNCHANGED <<started, calls, closers>>
  BY DEF Destroy, DestroyAcceptor, histVars
<1>2. ListenComes'
  BY <1>0, <1>1, CloseKeepsListen
<1>3. CASE Destroy(u)
  <2>1. destroying' = TRUE
    BY <1>3 DEF Destroy
  <2> QED BY <1>1, <1>2, <2>1 DEF FirstInv
<1>4. CASE DestroyAcceptor(u)
  <2>1. UNCHANGED destroying /\ At(u, "members")
    BY <1>4 DEF DestroyAcceptor, histVars
  <2>2. ~destroying =>
          calls # 0 /\ \A t \in Users : closers = {t} /\ calls = 1 => u = t
    BY <1>0, <2>1, WhoServes
  <2>3. \A t \in Users : closers = {t} /\ calls = 1 => destroying
    BY <2>1, <2>2, Stages DEF FirstInv
  <2> QED BY <1>1, <1>2, <2>1, <2>2, <2>3 DEF FirstInv
<1> QED BY <1>3, <1>4

\* The first Close asks for the latch, behind the closure of Start if that has
\* not run.
LEMMA FirstBegins ==
  ASSUME IInv, FirstInv, NEW u \in Threads, BeginClose(u)
  PROVE  FirstInv'
<1>0. Types /\ ListenComes /\ calls \in Nat /\ Boss \in Loops /\ queue[Boss] \in Seq(Closures)
  BY BoundsAssumption DEF IInv, FirstInv, Types, Loops
<1>1. /\ MayCall(u) /\ started /\ calls' = calls + 1 /\ closers' = closers \cup {u}
      /\ CloseAcceptor(u) /\ First(u, CloseFrames)
      /\ UNCHANGED <<started, mu, destroying>>
  BY DEF BeginClose, lockVars
<1>2. ListenComes'
  BY <1>0, <1>1, CloseKeepsListen
<1>3. ASSUME NEW t \in Users, closers' = {t}, calls' = 1, ~destroying'
      PROVE  OthersAway(t)' /\ FirstClose(t)'
  <2>1. calls = 0 /\ ~destroying
    BY <1>0, <1>1, <1>3
  <2>2. /\ closers = {} /\ OthersAway(None) /\ listening # "removed"
    BY <2>1 DEF FirstInv
  <2>3. u = t /\ t \in Threads /\ t # None /\ t # Boss
    BY <1>1, <1>3, <2>2, ThreadsAssumption DEF Threads, Loops
  <2>4. stack[t] = <<>>
    BY <1>1, <2>3 DEF MayCall, Idle
  <2> DEFINE q == <<"remove", t>>
  <2>5. Push(Boss, q) /\ UNCHANGED <<listening, counted>>
    BY <1>1, <2>3 DEF CloseAcceptor
  <2>6. /\ q \in Closures /\ q \in Removes({t}) /\ q \notin Removes(Threads \ {t})
        /\ q \notin Listens
    BY <2>3 DEF Closures, Removes, Listens
  <2> HIDE DEF q
  <2>7. queue'[Boss] = Append(queue[Boss], q)
    BY <1>0, <2>5, <2>6, PushFacts DEF Types
  <2>8. \A A : ~Holds(queue[Boss], A) => Once(queue[Boss], A) /\ \A B : Behind(queue[Boss], A, B)
    BY DEF Holds, Once, Behind
  <2>9. ~Holds(queue[Boss], Removes({t})) /\ ~Holds(queue[Boss], Removes(Threads \ {t}))
    BY <2>2, <2>3, ThreadsAssumption DEF OthersAway, Holds, Removes
  <2>10. \A A : /\ Holds(queue'[Boss], A) <=> Holds(queue[Boss], A) \/ q \in A
                /\ Once(queue[Boss], A) /\ ~Holds(queue[Boss], A) => Once(queue'[Boss], A)
    BY <1>0, <2>6, <2>7, AppendFacts
  <2>11. listening' = "yes" \/ Behind(queue'[Boss], Removes({t}), Listens)
    <3>1. CASE listening = "yes"
      BY <2>5, <3>1
    <3>2. CASE listening = "no"
      <4>1. Holds(queue[Boss], Listens)
        BY <1>0, <1>1, <3>2 DEF ListenComes
      <4>2. Behind(queue[Boss], Removes({t}), Listens)
        BY <2>8, <2>9
      <4> QED BY <1>0, <2>6, <2>7, <4>1, <4>2, QueueBehind
    <3> QED BY <1>0, <2>2, <3>1, <3>2 DEF Types
  <2>12. LatchComes(t)'
    BY <2>6, <2>10, <2>11 DEF LatchComes, Removes, Listens
  <2>13. stack'[t] = CloseFrames
    BY <1>0, <1>1, <2>3, <2>4 DEF First, Types, CloseFrames
  <2>14. \A v \in Threads \ {t} : stack'[v] = stack[v]
    BY <1>0, <1>1, <2>3 DEF First, Types
  <2>15. OthersAway(t)'
    <3>1. \A v \in Threads \ {t} : ~Holds(stack'[v], Serving)
      BY <2>2, <2>14, ThreadsAssumption DEF OthersAway
    <3>2. ~Holds(queue'[Boss], Removes(Threads \ {t}))
      BY <2>6, <2>9, <2>10
    <3>3. counted' \subseteq {t} /\ mu' \in {None, t}
      <4>1. None \notin counted
        BY <1>0, ThreadsAssumption DEF Types
      <4> QED BY <1>1, <2>2, <2>5, <4>1 DEF OthersAway
    <3> QED BY <3>1, <3>2, <3>3 DEF OthersAway, Serving, Removes
  <2>16. CloseFrames # <<Step("close")>> /\ mu' # t
    BY <1>1, <2>2, <2>3 DEF OthersAway, CloseFrames
  <2>17. Once(queue'[Boss], Removes({t}))
    BY <2>8, <2>9, <2>10
  <2>18. FirstClose(t)'
    BY <2>12, <2>13, <2>16, <2>17 DEF FirstClose, CloseFrames, Step, Frame, Removes
  <2> QED BY <2>15, <2>18
<1>4. calls' # 0
  BY <1>0, <1>1
<1> QED BY <1>2, <1>3, <1>4 DEF FirstInv


\* The other steps of the server have nothing to do with Close.
LEMMA OtherSteps ==
  ASSUME IInv, Next
  PROVE  \/ Quiet
         \/ RunClosure(Boss) /\ Head(queue[Boss])[1] \in {"listen", "remove"}
         \/ \E u \in Threads : \/ Start(u) \/ BeginClose(u) \/ Destroy(u) \/ DestroyAcceptor(u)
                               \/ Await(u) \/ Lock(u) \/ Unlock(u)
<1> DEFINE Plain == UNCHANGED <<started, listening, counted, mu, closers, calls, destroying>>
<1>0. Types /\ ShapeInv /\ BeginInv
  BY DEF IInv
<1>1. ASSUME Plain, UNCHANGED queue PROVE Quiet
  BY <1>0, <1>1, KeptRules DEF Quiet
<1>2. ASSUME NEW t \in Threads, NEW c \in Conns, Ends(t, c), Plain PROVE Quiet
  <2>1. loop[c] \in Loops /\ (queue' = queue \/ Push(loop[c], <<"end", c>>))
    BY <1>0, <1>2, EndConnFacts
  <2>2. <<"end", c>> \in Closures /\ <<"end", c>>[1] \notin {"listen", "remove"}
    BY DEF Closures
  <2> QED BY <1>0, <1>1, <1>2, <2>1, <2>2, KeptRules DEF Quiet
<1>3. ASSUME NEW c \in Conns, Arrive(c) PROVE Quiet
  BY <1>1, <1>3 DEF Arrive, lockVars, histVars
<1>4. ASSUME HandleAccept \/ EndAccept PROVE Quiet
  BY <1>1, <1>4 DEF HandleAccept, EndAccept, serverVars, lockVars, histVars
<1>5. ASSUME NEW c \in Conns, NEW w \in Workers, Accept(c, w) PROVE Quiet
  <2>1. Plain
    BY <1>5 DEF Accept, lockVars, histVars
  <2>2. queue' = queue \/ Push(w, <<"connect", c>>)
    BY <1>5 DEF Accept
  <2>3. /\ w \in Loops /\ <<"connect", c>> \in Closures
        /\ <<"connect", c>>[1] \notin {"listen", "remove"}
    BY DEF Loops, Closures
  <2> QED BY <1>0, <2>1, <2>2, <2>3, KeptRules DEF Quiet
<1>6. ASSUME NEW l \in Loops, RunClosure(l),
             l = Boss => Head(queue[Boss])[1] \notin {"listen", "remove"}
      PROVE  Quiet
  <2>1. /\ queue[l] # <<>> /\ queue' = [queue EXCEPT ![l] = Tail(@)]
        /\ UNCHANGED <<mu, closers, calls, destroying>>
    BY <1>0, <1>6, RunFacts DEF lockVars, histVars
  <2>2. Head(queue[l])[1] \notin {"listen", "remove"}
    <3>1. Head(queue[l]) \in ClosuresOf(l)
      BY <1>0, <2>1, QueueHeadFacts
    <3> QED BY <1>6, <3>1 DEF ClosuresOf
  <2>3. UNCHANGED serverVars
    BY <1>6, <2>2 DEF RunClosure, RunConnect, RunEnd
  <2>4. Kept
    BY <1>0, <2>1, <2>2, KeptRules
  <2> QED BY <2>1, <2>3, <2>4 DEF Quiet, serverVars
<1>7. ASSUME NEW c \in Conns, HandleEvents(c) PROVE Quiet
  BY <1>1, <1>7 DEF HandleEvents, serverVars, lockVars, histVars
<1>8. ASSUME NEW t \in Threads, HandlerReturns(t) \/ Emplace(t) \/ Erase(t) \/ Touch(t) PROVE Quiet
  BY <1>1, <1>8 DEF HandlerReturns, Emplace, Erase, Touch, serverVars, lockVars, histVars
<1>9. ASSUME NEW t \in Threads, NEW c \in Conns, CloseOne(t, c) PROVE Quiet
  <2>1. Plain
    BY <1>9 DEF CloseOne, serverVars, histVars
  <2> QED BY <1>0, <1>1, <1>2, <1>9, <2>1, CloseOneFacts
<1>10. ASSUME NEW t \in Threads, HandlerEnds(t) PROVE Quiet
  <2>1. Plain
    BY <1>10 DEF HandlerEnds, serverVars, lockVars, histVars
  <2> QED BY <1>0, <1>2, <1>10, <2>1, HandlerFacts
<1>11. ASSUME NEW t \in Threads, NEW c \in Conns, UserEnds(t, c) PROVE Quiet
  <2>1. Plain
    BY <1>11 DEF UserEnds, serverVars, lockVars, histVars
  <2> QED BY <1>2, <1>11, <2>1, UserEndsFacts
<1> HIDE DEF Plain
<1> QED BY <1>3, <1>4, <1>5, <1>6, <1>7, <1>8, <1>9, <1>10, <1>11 DEF Next, AcceptStep, ThreadStep

\* The first Close of a server that has been started gets on, before anybody
\* closes again or destroys the server: its thread never waits for a latch that
\* nobody is going to count down, nor for a mutex that somebody else has.  This
\* is what CloseReturns rests on.
THEOREM FirstCloseGoesOn == Spec => []CloseGoesOn
<1>1. Init => FirstInv
  <2> SUFFICES ASSUME Init PROVE FirstInv
    OBVIOUS
  <2>1. /\ ~started /\ calls = 0 /\ closers = {} /\ listening = "no" /\ counted = {} /\ mu = None
        /\ queue[Boss] = <<>> /\ \A t \in Threads : stack[t] = <<>>
    BY DEF Init, Loops
  <2>2. \A A : (\A t \in Threads : ~Holds(stack[t], A)) /\ ~Holds(queue[Boss], A)
    BY <2>1, Short
  <2>3. OthersAway(None)
    BY <2>1, <2>2 DEF OthersAway
  <2>4. ListenComes
    BY <2>1 DEF ListenComes
  <2>5. ASSUME calls = 1 PROVE FALSE
    BY <2>1, <2>5
  <2> QED BY <2>1, <2>3, <2>4, <2>5 DEF FirstInv
<1>2. IInv /\ FirstInv /\ [Next]_vars => FirstInv'
  <2> SUFFICES ASSUME IInv, FirstInv, [Next]_vars PROVE FirstInv'
    OBVIOUS
  <2>1. CASE UNCHANGED vars
    BY <2>1 DEF vars, serverVars, lockVars, histVars, FirstInv, ListenComes, OthersAway, FirstClose,
                LatchComes, Listens, Removes, Serving, CloseFrames, Step, Frame
  <2>2. CASE Next
    BY <2>2, OtherSteps, QuietStep, ListenRuns, RemoveRuns, ListenStarts, FirstBegins, DestroyStep,
       ServeStep
  <2> QED BY <2>1, <2>2
<1>3. FirstInv => CloseGoesOn
  <2> SUFFICES ASSUME FirstInv, NEW t \in Users, closers = {t}, calls = 1, ~destroying
               PROVE  \/ Idle(t)
                      \/ At(t, "await") /\ (t \in counted \/ LatchComes(t))
                      \/ At(t, "lock") /\ mu = None
                      \/ At(t, "close") /\ mu = t
    BY DEF CloseGoesOn
  <2>1. FirstClose(t) /\ OthersAway(t)
    BY DEF FirstInv
  <2>2. /\ At(t, "await") => stack[t] = CloseFrames
        /\ At(t, "lock") => stack[t] = <<Step("lock")>>
        /\ At(t, "close") => stack[t] = <<Step("close")>>
        /\ Idle(t) \/ At(t, "await") \/ At(t, "lock") \/ At(t, "close")
    BY <2>1, Stages
  <2>3. CASE At(t, "await")
    BY <2>1, <2>2, <2>3 DEF FirstClose
  <2>4. CASE At(t, "lock")
    <3>1. stack[t] = <<Step("lock")>>
      BY <2>2, <2>4
    <3>2. stack[t] # <<Step("close")>>
      BY <3>1 DEF Step, Frame
    <3> QED BY <2>1, <2>4, <3>2 DEF FirstClose, OthersAway
  <2>5. CASE At(t, "close")
    BY <2>1, <2>2, <2>5 DEF FirstClose
  <2> QED BY <2>2, <2>3, <2>4, <2>5
<1> QED BY <1>1, <1>2, <1>3, Invariant, PTL DEF Spec
=============================================================================

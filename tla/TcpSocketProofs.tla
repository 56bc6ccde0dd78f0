--------------------------- MODULE TcpSocketProofs ---------------------------
(***************************************************************************)
(* The flags of a TCP socket tell the truth of what is posted and under    *)
(* way, no wake-up is lost and no ALOG_ASSERT on the main thread fails,    *)
(* for any number of threads and any size of the buffers.                  *)
(***************************************************************************)
EXTENDS TcpSocket, FiniteSetTheorems, TLAPS

Closes == {"closeWrite", "closeTask"}

\* One thread closes the socket.  Until it has posted Close it may look at the
\* write under way; once Close has run nothing is left for the main thread.
CloseSound ==
    /\ closed => tasks = << >> /\ pending = {}
    /\ closed \/ Posted("Close") > 0 =>
         ~hasFd /\ \A t \in Thread : call[t].at # "closeWrite"
    /\ \A t \in Thread : call[t].at \in Closes => ~hasFd
    /\ \A t, u \in Thread : call[t].at \in Closes /\ call[u].at \in Closes => t = u

\* A socket that is being connected has one Connect posted or under way.
ConnectSound ==
    ~closed => Posted("Connect") + UnderWay("Connect") =
                 IF state = "CONNECTING" THEN 1 ELSE 0

\* Bytes are read and written only on what is, or was, a connection.
FreshSound ==
    state \notin {"CONNECTED", "ERROR"} =>
      /\ inBuf = 0 /\ eof = FALSE /\ readSent = FALSE
      /\ outBuf = 0 /\ writeBuf = 0 /\ writeSent = FALSE
      /\ Posted("Write") = 0

\* What a read brings has room in in_buf_.
ReaderSound == ReaderArmed /\ (~closed /\ readSent => inBuf < BufSize \div 2)

\* The Writes that were posted before the first of them ran do nothing before
\* its OnWrite; a Write that has something to do finds bytes.
WritesFirst ==
    \A i, j \in 1 .. Len(tasks) : tasks[i] = "OnWrite" /\ tasks[j] = "Write" => j < i
WriterSound ==
    /\ WriterArmed
    /\ ~closed => WritesFirst
    /\ ~closed /\ IsConnected /\ Posted("Write") > 0 => outBuf + writeBuf > 0

\* At most one accept is posted, under way or done, or about to be posted by
\* listen, and only on a listening socket.
Listeners == {t \in Thread : call[t].at = "listen"}
Accepts == Posted("Accept") + UnderWay("Accept") + (IF accepted THEN 1 ELSE 0)
AcceptSound ==
    /\ \A t, u \in Listeners : t = u
    /\ ~closed /\ state = "LISTENING" /\ "Accept" \notin ignored =>
         Listeners # {} \/ Accepts = 1
    /\ ~closed /\ Listeners # {} => Accepts = 0 /\ state = "LISTENING"
    /\ ~closed => Accepts <= 1 /\ (Accepts = 1 => state = "LISTENING")

\* A thread in poll waits for one of the events.
PollSound == \A t \in Thread : call[t].at = "poll" => call[t].event \in {"in", "out"}

\* The inductive invariant.
Inv ==
    /\ TypeOK /\ PollSound /\ CloseSound /\ ConnectSound /\ FreshSound /\ ReaderSound
    /\ WriterSound /\ AcceptSound /\ NoLostWakeup /\ NoAssertFails

-----------------------------------------------------------------------------
(* Counting tasks *)

Task == Operations \cup {"Close"} \cup {Callback[op] : op \in Operations}

Places(s, k) == {i \in 1 .. Len(s) : s[i] = k}
Count(s, k) == Cardinality(Places(s, k))

\* How often a task is posted is a number, 0 if it is nowhere.
LEMMA CountType ==
  ASSUME NEW s \in Seq(Task), NEW k
  PROVE  /\ IsFiniteSet(Places(s, k)) /\ Count(s, k) \in Nat
         /\ Count(s, k) = 0 <=> \A i \in 1 .. Len(s) : s[i] # k
<1>1. IsFiniteSet(1 .. Len(s)) /\ Places(s, k) \in SUBSET (1 .. Len(s))
  BY FS_Interval DEF Places
<1>2. IsFiniteSet(Places(s, k))
  BY <1>1, FS_Subset
<1>3. Count(s, k) \in Nat /\ (Count(s, k) = 0 <=> Places(s, k) = {})
  BY <1>2, FS_CardinalityType, FS_EmptySet DEF Count
<1> QED
  BY <1>2, <1>3 DEF Places

\* Nothing is posted in an empty queue.
LEMMA CountEmpty ==
  ASSUME NEW k
  PROVE  Count(<< >>, k) = 0
<1>1. << >> \in Seq(Task) /\ \A i \in 1 .. Len(<< >>) : << >>[i] # k
  OBVIOUS
<1> QED
  BY <1>1, CountType

\* A task that is posted counts once.
LEMMA CountAppend ==
  ASSUME NEW s \in Seq(Task), NEW x \in Task, NEW k
  PROVE  Count(Append(s, x), k) = Count(s, k) + (IF k = x THEN 1 ELSE 0)
<1>1. /\ Len(s) \in Nat /\ Len(Append(s, x)) = Len(s) + 1
      /\ \A i \in 1 .. Len(s) + 1 : Append(s, x)[i] = IF i = Len(s) + 1 THEN x ELSE s[i]
  OBVIOUS
<1>2. IsFiniteSet(Places(s, k)) /\ Count(s, k) \in Nat /\ Len(s) + 1 \notin Places(s, k)
  BY <1>1, CountType DEF Places
<1>3. CASE k = x
  <2>1. Places(Append(s, x), k) = Places(s, k) \cup {Len(s) + 1}
    BY <1>1, <1>3 DEF Places
  <2> QED
    BY <1>2, <1>3, <2>1, FS_AddElement DEF Count
<1>4. CASE k # x
  <2>1. Places(Append(s, x), k) = Places(s, k)
    BY <1>1, <1>4 DEF Places
  <2> QED
    BY <1>2, <1>4, <2>1 DEF Count
<1> QED
  BY <1>3, <1>4

\* A task that is taken counts no more.
LEMMA CountTail ==
  ASSUME NEW s \in Seq(Task), s # << >>, NEW k
  PROVE  Count(Tail(s), k) = Count(s, k) - (IF k = Head(s) THEN 1 ELSE 0)
<1> DEFINE A == Places(Tail(s), k)
           B == Places(s, k) \ {1}
           f == [i \in A |-> i + 1]
<1>1. /\ Len(s) \in Nat /\ Len(s) >= 1 /\ Len(Tail(s)) = Len(s) - 1
      /\ Head(s) = s[1] /\ Tail(s) \in Seq(Task)
      /\ \A i \in 1 .. Len(s) - 1 : Tail(s)[i] = s[i + 1]
  OBVIOUS
<1>2. f \in [A -> B]
  BY <1>1 DEF Places
<1>3. \A a, b \in A : f[a] = f[b] => a = b
  BY <1>1 DEF Places
<1>4. \A b \in B : b - 1 \in A /\ f[b - 1] = b
  BY <1>1 DEF Places
<1>5. f \in Bijection(A, B)
  <2> HIDE DEF f, A, B
  <2>1. f \in Injection(A, B)
    BY <1>2, <1>3 DEF Injection, IsInjective
  <2>2. f \in Surjection(A, B)
    BY <1>2, <1>4 DEF Surjection
  <2> QED
    BY <2>1, <2>2 DEF Bijection
<1>6. IsFiniteSet(A) /\ IsFiniteSet(Places(s, k)) /\ Count(s, k) \in Nat
  BY <1>1, CountType
<1>7. Cardinality(B) = Cardinality(A)
  <2>1. ExistsBijection(A, B)
    <3> HIDE DEF f, A, B
    <3> QED
      BY <1>5 DEF ExistsBijection
  <2> HIDE DEF A, B
  <2> QED
    BY <2>1, <1>6, FS_Bijection
<1>8. Cardinality(B) = IF 1 \in Places(s, k) THEN Count(s, k) - 1 ELSE Count(s, k)
  BY <1>6, FS_RemoveElement DEF Count
<1>9. 1 \in Places(s, k) <=> k = Head(s)
  BY <1>1 DEF Places
<1> QED
  BY <1>6, <1>7, <1>8, <1>9 DEF Count

-----------------------------------------------------------------------------
(* Types, calls and the queue *)

Call == [at : {"idle", "connect", "listen", "accept", "recv", "send", "poll",
               "closeWrite", "closeTask"},
         event : {"none", "in", "out"},
         asleep : BOOLEAN]

\* The types that every step uses.
LEMMA Types ==
  ASSUME TypeOK
  PROVE  /\ call \in [Thread -> Call] /\ tasks \in Seq(Task) /\ pending \subseteq Operations
         /\ inBuf \in Nat /\ outBuf \in Nat /\ writeBuf \in Nat
         /\ \A k : Posted(k) \in Nat
<1>1. call \in [Thread -> Call] /\ tasks \in Seq(Task) /\ pending \subseteq Operations
  BY DEF TypeOK, Call, Task
<1>2. inBuf \in Nat /\ outBuf \in Nat /\ writeBuf \in Nat
  BY DEF TypeOK
<1>3. \A k : Posted(k) \in Nat
  BY <1>1, CountType DEF Posted, Count, Places
<1> QED
  BY <1>1, <1>2, <1>3

LEMMA Callbacks ==
  /\ Callback["Accept"] = "OnAccept" /\ Callback["Connect"] = "OnConnect"
  /\ Callback["Read"] = "OnRead" /\ Callback["Write"] = "OnWrite"
BY DEF Callback

\* What is under way, name by name.
LEMMA UnderWays ==
  /\ UnderWay("Accept") = Posted("OnAccept") + (IF "Accept" \in pending THEN 1 ELSE 0)
  /\ UnderWay("Connect") = Posted("OnConnect") + (IF "Connect" \in pending THEN 1 ELSE 0)
  /\ UnderWay("Read") = Posted("OnRead") + (IF "Read" \in pending THEN 1 ELSE 0)
  /\ UnderWay("Write") = Posted("OnWrite") + (IF "Write" \in pending THEN 1 ELSE 0)
  /\ UnderWay("Accept")' = Posted("OnAccept")' + (IF "Accept" \in pending' THEN 1 ELSE 0)
  /\ UnderWay("Connect")' = Posted("OnConnect")' + (IF "Connect" \in pending' THEN 1 ELSE 0)
  /\ UnderWay("Read")' = Posted("OnRead")' + (IF "Read" \in pending' THEN 1 ELSE 0)
  /\ UnderWay("Write")' = Posted("OnWrite")' + (IF "Write" \in pending' THEN 1 ELSE 0)
BY Callbacks DEF UnderWay

\* A step that starts no accept and runs none leaves those under way.
LEMMA AcceptsUnderWay ==
  ASSUME TypeOK, UNCHANGED pending, Posted("OnAccept")' = Posted("OnAccept")
  PROVE  UnderWay("Accept")' = UnderWay("Accept") /\ UnderWay("Accept") \in Nat
<1>1. Posted("OnAccept") \in Nat
  BY Types
<1>2. /\ UnderWay("Accept") = Posted("OnAccept") + (IF "Accept" \in pending THEN 1 ELSE 0)
      /\ UnderWay("Accept")' = Posted("OnAccept")' + (IF "Accept" \in pending' THEN 1 ELSE 0)
  BY UnderWays
<1> QED
  BY <1>1, <1>2

\* The names of the tasks.
LEMMA TaskNames ==
  Task = {"Accept", "Connect", "Read", "Write", "Close",
          "OnAccept", "OnConnect", "OnRead", "OnWrite"}
BY Callbacks DEF Task, Operations

\* The queue after a step that does not touch it.
LEMMA Keeps ==
  ASSUME TypeOK, UNCHANGED tasks
  PROVE  /\ \A k : Posted(k)' = Posted(k)
         /\ WritesFirst => WritesFirst'
BY DEF Posted, WritesFirst

\* The queue after a task is posted.
LEMMA Posts ==
  ASSUME TypeOK, NEW x \in Task, Post(x)
  PROVE  /\ tasks' \in Seq(Task)
         /\ \A k : Posted(k)' = Posted(k) + (IF k = x THEN 1 ELSE 0)
         /\ \A k : k # x => Posted(k)' = Posted(k)
         /\ WritesFirst /\ (x # "Write" \/ Posted("OnWrite") = 0) => WritesFirst'
<1>1. tasks \in Seq(Task)
  BY Types
<1>2. tasks' \in Seq(Task)
  BY <1>1 DEF Post
<1>3. ASSUME NEW k PROVE Posted(k)' = Posted(k) + (IF k = x THEN 1 ELSE 0)
  <2>1. Posted(k) = Count(tasks, k) /\ Posted(k)' = Count(tasks', k)
    BY DEF Posted, Count, Places
  <2>2. tasks' = Append(tasks, x)
    BY DEF Post
  <2> QED
    BY <1>1, <2>1, <2>2, CountAppend
<1>4. ASSUME WritesFirst, x # "Write" \/ Posted("OnWrite") = 0 PROVE WritesFirst'
  <2>1. /\ Len(tasks) \in Nat /\ Len(tasks') = Len(tasks) + 1
        /\ \A i \in 1 .. Len(tasks) + 1 :
             tasks'[i] = IF i = Len(tasks) + 1 THEN x ELSE tasks[i]
    BY <1>1 DEF Post
  <2>2. x # "Write" \/ \A i \in 1 .. Len(tasks) : tasks[i] # "OnWrite"
    BY <1>1, <1>4, CountType DEF Posted, Count, Places
  <2> QED
    BY <1>4, <2>1, <2>2 DEF WritesFirst
<1> QED
  BY <1>2, <1>3, <1>4, Types

\* The queue after the main thread has taken a task.
LEMMA Takes ==
  ASSUME TypeOK, NEW x, Runs(x), tasks' = Tail(tasks)
  PROVE  /\ tasks' \in Seq(Task)
         /\ \A k : Posted(k)' = Posted(k) - (IF k = x THEN 1 ELSE 0)
         /\ \A k : k # x => Posted(k)' = Posted(k)
         /\ Posted(x) > 0
         /\ WritesFirst => WritesFirst' /\ (x = "OnWrite" => Posted("Write") = 0)
<1>1. tasks \in Seq(Task) /\ tasks # << >> /\ x = Head(tasks)
  BY Types DEF Runs
<1>2. tasks' \in Seq(Task)
  BY <1>1
<1>3. ASSUME NEW k PROVE Posted(k)' = Posted(k) - (IF k = x THEN 1 ELSE 0)
  <2>1. Posted(k) = Count(tasks, k) /\ Posted(k)' = Count(tasks', k)
    BY DEF Posted, Count, Places
  <2> QED
    BY <1>1, <2>1, CountTail
<1>4. /\ Len(tasks) \in Nat /\ Len(tasks) >= 1 /\ Len(tasks') = Len(tasks) - 1
      /\ tasks[1] = x
      /\ \A i \in 1 .. Len(tasks) - 1 : tasks'[i] = tasks[i + 1]
  BY <1>1
<1>5. Posted(x) > 0
  <2>1. Posted(x) \in Nat
    BY Types
  <2>2. Posted(x) # 0
    <3>1. Posted(x) = Count(tasks, x)
      BY DEF Posted, Count, Places
    <3>2. 1 \in 1 .. Len(tasks) /\ tasks[1] = x
      BY <1>4
    <3> QED
      BY <1>1, <3>1, <3>2, CountType
  <2> QED
    BY <2>1, <2>2
<1>6. WritesFirst => WritesFirst'
  BY <1>4 DEF WritesFirst
<1>7. ASSUME WritesFirst, x = "OnWrite" PROVE Posted("Write") = 0
  <2>1. \A i \in 1 .. Len(tasks) : tasks[i] # "Write"
    BY <1>4, <1>7 DEF WritesFirst
  <2> QED
    BY <1>1, <2>1, CountType DEF Posted, Count, Places
<1> QED
  BY <1>2, <1>3, <1>5, <1>6, <1>7, Types

\* Two names for the number of listeners: it is 0 or 1.
LEMMA OneListener ==
  ASSUME NEW S, \A t, u \in S : t = u
  PROVE  Cardinality(S) = IF S = {} THEN 0 ELSE 1
<1>1. CASE S = {}
  BY <1>1, FS_EmptySet
<1>2. CASE S # {}
  <2>1. PICK t : t \in S
    BY <1>2
  <2>2. S = {t}
    BY <2>1
  <2> QED
    BY <2>2, <1>2, FS_Singleton
<1> QED
  BY <1>1, <1>2

\* The calls after a thread goes on.
LEMMA Going ==
  ASSUME TypeOK, NEW t \in Thread, NEW c \in Call, Goes(t, c)
  PROVE  /\ call' \in [Thread -> Call]
         /\ call'[t] = c
         /\ \A u \in Thread : u # t => call'[u] = call[u]
BY Types DEF Goes

\* The calls after a broadcast: nobody sleeps.
LEMMA Woken ==
  ASSUME TypeOK, call' = Broadcast
  PROVE  /\ call' \in [Thread -> Call]
         /\ \A u \in Thread : call'[u].at = call[u].at /\ call'[u].asleep = FALSE
         /\ PollSound => PollSound'
         /\ NoLostWakeup'
<1>1. call \in [Thread -> Call]
  BY Types
<1>2. /\ call' \in [Thread -> Call]
      /\ \A u \in Thread : /\ call'[u].at = call[u].at /\ call'[u].asleep = FALSE
                            /\ call'[u].event = call[u].event
  BY <1>1 DEF Broadcast, Call
<1> QED
  BY <1>2 DEF PollSound, NoLostWakeup

\* A task that runs is posted, and the socket is not closed.
LEMMA Running1 ==
  ASSUME TypeOK, CloseSound, NEW x, Runs(x)
  PROVE  Posted(x) > 0 /\ closed = FALSE
<1>1. tasks \in Seq(Task) /\ tasks # << >> /\ x = Head(tasks)
  BY Types DEF Runs
<1>2. 1 \in 1 .. Len(tasks) /\ tasks[1] = x
  BY <1>1
<1>3. Posted(x) = Count(tasks, x)
  BY DEF Posted, Count, Places
<1>4. Count(tasks, x) \in Nat /\ Count(tasks, x) # 0
  BY <1>1, <1>2, CountType
<1>5. closed \in BOOLEAN
  BY DEF TypeOK
<1> QED
  BY <1>1, <1>3, <1>4, <1>5 DEF CloseSound

-----------------------------------------------------------------------------
(* What a step leaves alone *)

\* The step changes neither how often the operation is posted nor whether it is
\* under way.
Spares(op) == Posted(op)' = Posted(op) /\ UnderWay(op)' = UnderWay(op)

\* A step that does not touch the queue and the operation.
LEMMA SparesKeep ==
  ASSUME TypeOK, UNCHANGED tasks, NEW op \in Operations, op \in pending' <=> op \in pending
  PROVE  Spares(op)
BY Keeps DEF Spares, UnderWay

\* A step that posts another task.
LEMMA SparesPost ==
  ASSUME TypeOK, NEW x \in Task, Post(x), NEW op \in Operations,
         op # x, Callback[op] # x, op \in pending' <=> op \in pending
  PROVE  Spares(op)
<1>1. \A k : Posted(k) \in Nat
  BY Types
<1>2. Posted(op)' = Posted(op) /\ Posted(Callback[op])' = Posted(Callback[op])
  BY <1>1, Posts
<1> QED
  BY <1>2 DEF Spares, UnderWay

\* A step that takes another task.
LEMMA SparesTake ==
  ASSUME TypeOK, NEW x, Runs(x), tasks' = Tail(tasks), NEW op \in Operations,
         op # x, Callback[op] # x, op \in pending' <=> op \in pending
  PROVE  Spares(op)
<1>1. \A k : Posted(k) \in Nat
  BY Types
<1>2. Posted(op)' = Posted(op) /\ Posted(Callback[op])' = Posted(Callback[op])
  BY <1>1, Takes
<1> QED
  BY <1>2 DEF Spares, UnderWay

\* Nobody enters listen or close, and nobody leaves listen.
SameCalls ==
    /\ call' \in [Thread -> Call]
    /\ \A u \in Thread :
         \/ call'[u].at = call[u].at
         \/ call[u].at # "listen" /\ call'[u].at \notin Closes \cup {"listen"}

LEMMA SameListeners ==
  ASSUME SameCalls
  PROVE  Listeners' = Listeners
BY DEF SameCalls, Listeners

LEMMA CloseFrame ==
  ASSUME CloseSound, UNCHANGED <<closed, hasFd>>, SameCalls,
         closed = FALSE \/ UNCHANGED <<tasks, pending>>,
         Posted("Close")' = Posted("Close")
  PROVE  CloseSound'
<1>1. closed' => tasks' = << >> /\ pending' = {}
  BY DEF CloseSound
<1>2. \A u \in Thread : /\ call'[u].at \in Closes => call[u].at \in Closes
                        /\ call'[u].at = "closeWrite" => call[u].at = "closeWrite"
  BY DEF SameCalls, Closes
<1> QED
  BY <1>1, <1>2 DEF CloseSound

LEMMA ConnectFrame ==
  ASSUME ConnectSound, UNCHANGED closed, Spares("Connect"),
         state' = state \/ (state # "CONNECTING" /\ state' # "CONNECTING")
  PROVE  ConnectSound'
BY DEF ConnectSound, Spares

LEMMA FreshFrame ==
  ASSUME FreshSound, UNCHANGED incoming, UNCHANGED outgoing, Posted("Write")' = Posted("Write"),
         state' = state \/ state' \in {"CONNECTED", "ERROR"}
                        \/ state \notin {"CONNECTED", "ERROR"}
  PROVE  FreshSound'
BY DEF FreshSound, incoming, outgoing

LEMMA ReaderFrame ==
  ASSUME ReaderSound, UNCHANGED <<closed, incoming>>, Spares("Read"),
         state' = state \/ state' # "CONNECTED"
  PROVE  ReaderSound'
<1>1. UNCHANGED <<closed, inBuf, eof, readSent>>
  BY DEF incoming
<1>2. IsConnected' => IsConnected
  BY DEF IsConnected
<1> QED
  BY <1>1, <1>2 DEF ReaderSound, ReaderArmed, Spares

LEMMA WriterFrame ==
  ASSUME WriterSound, UNCHANGED <<closed, outgoing>>, Spares("Write"), WritesFirst => WritesFirst',
         state' = state \/ state' # "CONNECTED"
  PROVE  WriterSound'
<1>1. UNCHANGED <<closed, outBuf, writeBuf, writeSent>>
  BY DEF outgoing
<1>2. IsConnected' => IsConnected
  BY DEF IsConnected
<1> QED
  BY <1>1, <1>2 DEF WriterSound, WriterArmed, Spares

LEMMA AcceptFrame ==
  ASSUME AcceptSound, UNCHANGED <<closed, accepted, ignored>>, Spares("Accept"),
         Listeners' = Listeners,
         state' = state \/ (state # "LISTENING" /\ state' # "LISTENING")
  PROVE  AcceptSound'
<1>1. Accepts' = Accepts
  BY DEF Accepts, Spares
<1> QED
  BY <1>1 DEF AcceptSound

\* Nothing that a thread may sleep for happens, except that room is made in
\* out_buf_ by a write that has begun.
Quiet ==
    /\ closed' = closed
    /\ hasFd' => hasFd
    /\ accepted' => accepted
    /\ inBuf' > 0 => inBuf > 0
    /\ eof' = eof
    /\ state' = state \/ state = "NEW"
    /\ writeSent => writeSent'
    /\ writeSent' \/ outBuf' >= outBuf
    /\ ignored \subseteq ignored'

\* What a quiet step lets go on could go on before.
LEMMA QuietSteps ==
  ASSUME TypeOK, TypeOK', FreshSound, Quiet, NEW c, CanProceed(c)',
         c.at = "poll" => c.event \in {"in", "out"}
  PROVE  CanProceed(c)
<1>1. /\ BufSize \in Nat /\ outBuf \in Nat /\ outBuf' \in Nat
      /\ inBuf \in Nat /\ inBuf' \in Nat
  BY ConstantsAssumption, Types DEF TypeOK
<1>2. CASE state = "NEW"
  BY <1>2 DEF CanProceed, Quiet, IsSelectReadReady, IsSelectWriteReady, PollReady,
              IsTerminated, RoomPending, IsConnected
<1>3. CASE state # "NEW"
  <2>1. state' = state
    BY <1>3 DEF Quiet
  <2>2. IsSelectReadReady' => IsSelectReadReady
    BY <1>1, <2>1 DEF Quiet, IsSelectReadReady, IsConnected
  <2>3. IsTerminated' => IsTerminated
    BY <2>1 DEF Quiet, IsTerminated
  <2>4. (~Full \/ ~IsConnected)' /\ ~RoomPending' =>
          (~Full \/ ~IsConnected) /\ ~RoomPending
    BY <1>1, <2>1 DEF Quiet, Full, RoomPending, IsConnected
  <2>5. IsSelectWriteReady' /\ ~RoomPending' => IsSelectWriteReady /\ ~RoomPending
    BY <1>1, <2>1 DEF Quiet, IsSelectWriteReady, RoomPending, IsConnected
  <2>6. ~(writeSent' /\ IsConnected') => ~(writeSent /\ IsConnected)
    BY <2>1 DEF Quiet, IsConnected
  <2>7. closed' = closed /\ (accepted' => accepted) /\ (hasFd' => hasFd)
    BY DEF Quiet
  <2>8. CASE /\ c.at = "poll" /\ hasFd' /\ PollReady(c.event)'
             /\ ~(c.event = "out" /\ RoomPending')
    <3>1. PollReady(c.event) /\ ~(c.event = "out" /\ RoomPending)
      <4>1. CASE c.event = "out"
        BY <4>1, <2>5, <2>8 DEF PollReady
      <4>2. CASE c.event = "in"
        BY <4>2, <2>2, <2>8 DEF PollReady
      <4> QED
        BY <4>1, <4>2, <2>8
    <3> QED
      BY <2>7, <2>8, <3>1 DEF CanProceed
  <2>9. CASE ~(/\ c.at = "poll" /\ hasFd' /\ PollReady(c.event)'
               /\ ~(c.event = "out" /\ RoomPending'))
    BY <2>1, <2>2, <2>3, <2>4, <2>6, <2>7, <2>9 DEF CanProceed
  <2> QED
    BY <2>8, <2>9
<1> QED
  BY <1>2, <1>3

\* After a quiet step a thread sleeps that slept before, or one that may sleep.
LEMMA WakeFrame ==
  ASSUME TypeOK, TypeOK', PollSound, FreshSound, NoLostWakeup, Quiet,
         \A u \in Thread : call'[u].asleep =>
           \/ call'[u] = call[u]
           \/ ~CanProceed(call[u])'
  PROVE  NoLostWakeup'
<1> SUFFICES ASSUME "Listen" \notin ignored', NEW u \in Thread, call'[u].asleep,
                    CanProceed(call[u])'
             PROVE  FALSE
  BY DEF NoLostWakeup
<1>1. call'[u] = call[u] /\ "Listen" \notin ignored
  BY DEF Quiet
<1> DEFINE c == call[u]
<1>2. ~CanProceed(c)
  BY <1>1 DEF NoLostWakeup
<1> QED
  BY <1>1, <1>2, QuietSteps DEF CanProceed, PollSound

\* The calls after a step of the main thread.
LEMMA MainCalls ==
  ASSUME TypeOK, PollSound, call' = Broadcast \/ call' = call
  PROVE  SameCalls /\ PollSound' /\ Listeners' = Listeners
<1>1. call \in [Thread -> Call]
  BY Types
<1>2. SameCalls /\ PollSound'
  BY <1>1, Woken DEF SameCalls, PollSound
<1> QED
  BY <1>2, SameListeners

-----------------------------------------------------------------------------
(* The main thread *)

\* Read is never refused.
LEMMA RunReadInv ==
  ASSUME Inv, Running, RunRead
  PROVE  Inv'
<1>0. /\ TypeOK /\ PollSound /\ CloseSound /\ ConnectSound /\ FreshSound /\ ReaderSound
      /\ WriterSound /\ AcceptSound /\ NoLostWakeup /\ NoAssertFails
  BY DEF Inv
<1>1. Posted("Read") > 0 /\ closed = FALSE
  BY <1>0, Running1 DEF RunRead
<1>2. Posted("Read") = 1 /\ Posted("OnRead") = 0 /\ "Read" \notin pending /\ readSent = TRUE
  BY <1>0, <1>1, UnderWays, Types DEF ReaderSound, ReaderArmed, TypeOK
<1>3. /\ tasks' = Tail(tasks)
      /\ IF IsTerminated
           THEN readSent' = FALSE /\ call' = Broadcast /\ UNCHANGED pending
           ELSE pending' = pending \cup {"Read"} /\ UNCHANGED <<readSent, call>>
      /\ UNCHANGED <<state, hasFd, closed, inBuf, eof, outgoing, accepted, ignored, aborted>>
  BY <1>2 DEF RunRead
<1>4. /\ tasks' \in Seq(Task) /\ Posted("Read")' = 0 /\ Posted("OnRead")' = 0
      /\ Posted("Close")' = Posted("Close") /\ Posted("Write")' = Posted("Write")
      /\ WritesFirst => WritesFirst'
  BY <1>0, <1>2, <1>3, Takes DEF RunRead
<1>5. Spares("Accept") /\ Spares("Connect") /\ Spares("Write")
  BY <1>0, <1>3, SparesTake, Callbacks DEF RunRead, Operations
<1>6. SameCalls /\ PollSound' /\ Listeners' = Listeners
  BY <1>0, <1>3, MainCalls
<1>7. TypeOK'
  BY <1>0, <1>3, <1>4, <1>6 DEF TypeOK, Task, Call, outgoing, Operations, SameCalls
<1>8. CloseSound'
  BY <1>0, <1>1, <1>3, <1>4, <1>6, CloseFrame
<1>9. ConnectSound' /\ WriterSound' /\ AcceptSound'
  BY <1>0, <1>3, <1>4, <1>5, <1>6, ConnectFrame, WriterFrame, AcceptFrame
<1>10. FreshSound'
  BY <1>0, <1>2, <1>3, <1>4 DEF FreshSound, outgoing
<1>11. ReaderSound'
  <2>1. Posted("Read")' + UnderWay("Read")' = IF readSent' THEN 1 ELSE 0
    <3>1. CASE IsTerminated
      BY <1>2, <1>3, <1>4, <3>1, UnderWays
    <3>2. CASE ~IsTerminated
      BY <1>2, <1>3, <1>4, <3>2, UnderWays
    <3> QED
      BY <3>1, <3>2
  <2> QED
    BY <1>0, <1>1, <1>2, <1>3, <2>1 DEF ReaderSound, ReaderArmed, IsTerminated, IsConnected
<1>12. NoLostWakeup'
  <2>1. CASE IsTerminated
    BY <1>0, <1>3, <2>1, Woken
  <2>2. CASE ~IsTerminated
    <3>1. Quiet
      BY <1>0, <1>3, <2>2, Types DEF Quiet, outgoing
    <3> QED
      BY <1>0, <1>3, <1>7, <2>2, <3>1, WakeFrame
  <2> QED
    BY <2>1, <2>2
<1>13. NoAssertFails'
  BY <1>0, <1>3 DEF NoAssertFails
<1> QED
  BY <1>6, <1>7, <1>8, <1>9, <1>10, <1>11, <1>12, <1>13 DEF Inv

\* After the bytes, the end of the stream or an error one read is under way, or
\* none.
LEMMA OnReadInv ==
  ASSUME Inv, Running, OnRead
  PROVE  Inv'
<1>0. /\ TypeOK /\ PollSound /\ CloseSound /\ ConnectSound /\ FreshSound /\ ReaderSound
      /\ WriterSound /\ AcceptSound /\ NoLostWakeup /\ NoAssertFails
  BY DEF Inv
<1>1. Posted("OnRead") > 0 /\ closed = FALSE
  BY <1>0, Running1 DEF OnRead
<1>2. Posted("Read") = 0 /\ Posted("OnRead") = 1 /\ "Read" \notin pending /\ readSent = TRUE
  BY <1>0, <1>1, UnderWays, Types DEF ReaderSound, ReaderArmed, TypeOK
<1>3. /\ tasks' = Tail(tasks) /\ call' = Broadcast
      /\ UNCHANGED <<hasFd, closed, outgoing, accepted, ignored, aborted>>
  BY DEF OnRead
<1>4. /\ state \in {"CONNECTED", "ERROR"} /\ state' \in {"CONNECTED", "ERROR"}
      /\ state' = state \/ state' = "ERROR"
      /\ pending' \in {pending, pending \cup {"Read"}}
  BY <1>0, <1>1, <1>2 DEF FreshSound, OnRead, ReadBytes, MarkAsError, TypeOK, IsTerminated
<1>5. /\ tasks' \in Seq(Task) /\ Posted("Read")' = 0 /\ Posted("OnRead")' = 0
      /\ Posted("Close")' = Posted("Close") /\ Posted("Write")' = Posted("Write")
      /\ WritesFirst => WritesFirst'
  BY <1>0, <1>2, <1>3, Takes DEF OnRead
<1>6. Spares("Accept") /\ Spares("Connect") /\ Spares("Write")
  BY <1>0, <1>3, <1>4, SparesTake, Callbacks DEF OnRead, Operations
<1>7. SameCalls /\ PollSound' /\ Listeners' = Listeners
  BY <1>0, <1>3, MainCalls
<1>8. /\ inBuf' \in 0 .. BufSize + BufSize \div 2 /\ readSent' \in BOOLEAN /\ eof' \in BOOLEAN
      /\ "Read" \in pending' <=> readSent' = TRUE
      /\ state' = "CONNECTED" /\ ~eof' /\ inBuf' < BufSize \div 2 => readSent' = TRUE
      /\ readSent' => inBuf' < BufSize \div 2
  <2>1. CASE ~IsTerminated /\ \E n \in 1 .. BufSize : ReadBytes(n)
    <3>1. PICK n \in 1 .. BufSize : ReadBytes(n)
      BY <2>1
    <3>2. inBuf \in Nat /\ inBuf < BufSize \div 2 /\ BufSize \div 2 \in Nat /\ BufSize \in Nat
      BY <1>0, <1>1, <1>2, Types, ConstantsAssumption DEF ReaderSound
    <3>3. inBuf' \in 0 .. BufSize + BufSize \div 2
      BY <3>1, <3>2 DEF ReadBytes
    <3>4. readSent' = (IsConnected /\ inBuf' < BufSize \div 2 /\ ~eof) /\ eof' = eof /\ state' = state
      BY <3>1 DEF ReadBytes, WantsRead
    <3>5. "Read" \in pending' <=> readSent' = TRUE
      BY <1>2, <3>1 DEF ReadBytes
    <3>6. eof \in BOOLEAN
      BY <1>0 DEF TypeOK
    <3> QED
      BY <3>3, <3>4, <3>5, <3>6 DEF IsConnected
  <2>2. CASE /\ ~IsTerminated
             /\ eof' = TRUE /\ readSent' = FALSE
             /\ UNCHANGED <<state, inBuf, pending>>
    BY <1>0, <1>2, <2>2 DEF TypeOK
  <2>3. CASE /\ ~IsTerminated /\ "Read" \in Errors
             /\ state' = MarkAsError /\ readSent' = FALSE
             /\ UNCHANGED <<inBuf, eof, pending>>
    BY <1>0, <1>1, <1>2, <2>3 DEF TypeOK, MarkAsError
  <2>4. CASE /\ IsTerminated
             /\ readSent' = FALSE
             /\ UNCHANGED <<state, inBuf, eof, pending>>
    BY <1>0, <1>1, <1>2, <2>4 DEF TypeOK, IsTerminated
  <2> QED
    BY <2>1, <2>2, <2>3, <2>4 DEF OnRead
<1>9. TypeOK'
  BY <1>0, <1>3, <1>4, <1>5, <1>7, <1>8 DEF TypeOK, Task, Call, outgoing, Operations, SameCalls
<1>10. CloseSound'
  BY <1>0, <1>1, <1>3, <1>5, <1>7, CloseFrame
<1>11. ConnectSound' /\ WriterSound' /\ AcceptSound'
  BY <1>0, <1>3, <1>4, <1>5, <1>6, <1>7, ConnectFrame, WriterFrame, AcceptFrame
<1>12. FreshSound'
  BY <1>4 DEF FreshSound
<1>13. ReaderSound'
  <2>1. Posted("Read")' + UnderWay("Read")' = IF readSent' THEN 1 ELSE 0
    <3>1. CASE readSent' = TRUE
      BY <1>5, <1>8, <3>1, UnderWays
    <3>2. CASE readSent' = FALSE
      BY <1>5, <1>8, <3>2, UnderWays
    <3> QED
      BY <1>8, <3>1, <3>2
  <2> QED
    BY <1>8, <2>1 DEF ReaderSound, ReaderArmed, IsConnected
<1>14. NoLostWakeup' /\ NoAssertFails'
  BY <1>0, <1>3, Woken DEF NoAssertFails
<1> QED
  BY <1>7, <1>9, <1>10, <1>11, <1>12, <1>13, <1>14 DEF Inv

\* Accept is never refused.
LEMMA RunAcceptInv ==
  ASSUME Inv, Running, RunAccept
  PROVE  Inv'
<1>0. /\ TypeOK /\ PollSound /\ CloseSound /\ ConnectSound /\ FreshSound /\ ReaderSound
      /\ WriterSound /\ AcceptSound /\ NoLostWakeup /\ NoAssertFails
  BY DEF Inv
<1>1. Posted("Accept") > 0 /\ closed = FALSE
  BY <1>0, Running1 DEF RunAccept
<1>2. Posted("Accept") = 1 /\ Posted("OnAccept") = 0 /\ "Accept" \notin pending /\ accepted = FALSE
  BY <1>0, <1>1, UnderWays, Types DEF AcceptSound, Accepts, TypeOK
<1>3. /\ tasks' = Tail(tasks) /\ pending' = pending \cup {"Accept"}
      /\ UNCHANGED <<state, hasFd, closed, incoming, outgoing, accepted, call, ignored, aborted>>
  BY <1>2 DEF RunAccept
<1>4. /\ tasks' \in Seq(Task) /\ Posted("Accept")' = 0 /\ Posted("OnAccept")' = 0
      /\ Posted("Close")' = Posted("Close") /\ Posted("Write")' = Posted("Write")
      /\ WritesFirst => WritesFirst'
  BY <1>0, <1>2, <1>3, Takes DEF RunAccept
<1>5. Spares("Read") /\ Spares("Connect") /\ Spares("Write")
  BY <1>0, <1>3, SparesTake, Callbacks DEF RunAccept, Operations
<1>6. SameCalls /\ PollSound' /\ Listeners' = Listeners
  BY <1>0, <1>3, MainCalls
<1>7. TypeOK'
  BY <1>0, <1>3, <1>4, <1>6 DEF TypeOK, Task, Call, incoming, outgoing, Operations, SameCalls
<1>8. CloseSound'
  BY <1>0, <1>1, <1>3, <1>4, <1>6, CloseFrame
<1>9. ConnectSound' /\ ReaderSound' /\ WriterSound' /\ FreshSound'
  BY <1>0, <1>3, <1>4, <1>5, ConnectFrame, WriterFrame, ReaderFrame, FreshFrame
<1>10. AcceptSound'
  <2>1. Accepts = 1 /\ Accepts' = 1
    BY <1>2, <1>3, <1>4, UnderWays DEF Accepts
  <2> QED
    BY <1>0, <1>3, <1>6, <2>1 DEF AcceptSound
<1>11. Quiet
  BY <1>0, <1>3, Types DEF Quiet, incoming, outgoing
<1>12. NoLostWakeup' /\ NoAssertFails'
  BY <1>0, <1>3, <1>7, <1>11, WakeFrame DEF NoAssertFails
<1> QED
  BY <1>6, <1>7, <1>8, <1>9, <1>10, <1>12 DEF Inv

\* OnAccept finds accepted_socket_ null.
LEMMA OnAcceptInv ==
  ASSUME Inv, Running, OnAccept
  PROVE  Inv'
<1>0. /\ TypeOK /\ PollSound /\ CloseSound /\ ConnectSound /\ FreshSound /\ ReaderSound
      /\ WriterSound /\ AcceptSound /\ NoLostWakeup /\ NoAssertFails
  BY DEF Inv
<1>1. Posted("OnAccept") > 0 /\ closed = FALSE
  BY <1>0, Running1 DEF OnAccept
<1>2. Posted("Accept") = 0 /\ Posted("OnAccept") = 1 /\ "Accept" \notin pending /\ accepted = FALSE
  BY <1>0, <1>1, UnderWays, Types DEF AcceptSound, Accepts, TypeOK
<1>3. /\ tasks' = Tail(tasks) /\ call' = Broadcast
      /\ \/ accepted' = TRUE /\ UNCHANGED ignored
         \/ accepted' = FALSE /\ ignored' = ignored \cup {"Accept"}
      /\ UNCHANGED <<state, hasFd, closed, incoming, outgoing, pending, aborted>>
  BY <1>2 DEF OnAccept
<1>4. /\ tasks' \in Seq(Task) /\ Posted("Accept")' = 0 /\ Posted("OnAccept")' = 0
      /\ Posted("Close")' = Posted("Close") /\ Posted("Write")' = Posted("Write")
      /\ WritesFirst => WritesFirst'
  BY <1>0, <1>2, <1>3, Takes DEF OnAccept
<1>5. Spares("Read") /\ Spares("Connect") /\ Spares("Write")
  BY <1>0, <1>3, SparesTake, Callbacks DEF OnAccept, Operations
<1>6. SameCalls /\ PollSound' /\ Listeners' = Listeners
  BY <1>0, <1>3, MainCalls
<1>7. TypeOK'
  BY <1>0, <1>3, <1>4, <1>6 DEF TypeOK, Task, Call, incoming, outgoing, Operations, SameCalls
<1>8. CloseSound'
  BY <1>0, <1>1, <1>3, <1>4, <1>6, CloseFrame
<1>9. ConnectSound' /\ ReaderSound' /\ WriterSound' /\ FreshSound'
  BY <1>0, <1>3, <1>4, <1>5, ConnectFrame, WriterFrame, ReaderFrame, FreshFrame
<1>10. AcceptSound'
  <2>1. Accepts = 1
    BY <1>2, UnderWays DEF Accepts
  <2>2. Accepts' = IF accepted' THEN 1 ELSE 0
    <3>1. UnderWay("Accept")' = 0
      BY <1>2, <1>3, <1>4, UnderWays
    <3> QED
      BY <1>3, <1>4, <3>1 DEF Accepts
  <2>3. state' = "LISTENING" /\ Listeners' = {}
    BY <1>0, <1>1, <1>3, <1>6, <2>1 DEF AcceptSound
  <2> QED
    BY <1>3, <2>2, <2>3 DEF AcceptSound
<1>11. NoLostWakeup' /\ NoAssertFails'
  BY <1>0, <1>3, Woken DEF NoAssertFails
<1> QED
  BY <1>6, <1>7, <1>8, <1>9, <1>10, <1>11 DEF Inv

\* Connect is never refused and finds the socket connecting.
LEMMA RunConnectInv ==
  ASSUME Inv, Running, RunConnect
  PROVE  Inv'
<1>0. /\ TypeOK /\ PollSound /\ CloseSound /\ ConnectSound /\ FreshSound /\ ReaderSound
      /\ WriterSound /\ AcceptSound /\ NoLostWakeup /\ NoAssertFails
  BY DEF Inv
<1>1. Posted("Connect") > 0 /\ closed = FALSE
  BY <1>0, Running1 DEF RunConnect
<1>2. /\ Posted("Connect") = 1 /\ Posted("OnConnect") = 0
      /\ "Connect" \notin pending /\ state = "CONNECTING"
  BY <1>0, <1>1, UnderWays, Types DEF ConnectSound
<1>3. /\ tasks' = Tail(tasks) /\ pending' = pending \cup {"Connect"}
      /\ UNCHANGED <<state, hasFd, closed, incoming, outgoing, accepted, call, ignored, aborted>>
  BY <1>2 DEF RunConnect
<1>4. /\ tasks' \in Seq(Task) /\ Posted("Connect")' = 0 /\ Posted("OnConnect")' = 0
      /\ Posted("Close")' = Posted("Close") /\ Posted("Write")' = Posted("Write")
      /\ WritesFirst => WritesFirst'
  BY <1>0, <1>2, <1>3, Takes DEF RunConnect
<1>5. Spares("Read") /\ Spares("Accept") /\ Spares("Write")
  BY <1>0, <1>3, SparesTake, Callbacks DEF RunConnect, Operations
<1>6. SameCalls /\ PollSound' /\ Listeners' = Listeners
  BY <1>0, <1>3, MainCalls
<1>7. TypeOK'
  BY <1>0, <1>3, <1>4, <1>6 DEF TypeOK, Task, Call, incoming, outgoing, Operations, SameCalls
<1>8. CloseSound'
  BY <1>0, <1>1, <1>3, <1>4, <1>6, CloseFrame
<1>9. AcceptSound' /\ ReaderSound' /\ WriterSound' /\ FreshSound'
  BY <1>0, <1>3, <1>4, <1>5, <1>6, AcceptFrame, WriterFrame, ReaderFrame, FreshFrame
<1>10. ConnectSound'
  <2>1. UnderWay("Connect")' = 1
    BY <1>2, <1>3, <1>4, UnderWays
  <2> QED
    BY <1>2, <1>3, <1>4, <2>1 DEF ConnectSound
<1>11. Quiet
  BY <1>0, <1>3, Types DEF Quiet, incoming, outgoing
<1>12. NoLostWakeup' /\ NoAssertFails'
  BY <1>0, <1>3, <1>7, <1>11, WakeFrame DEF NoAssertFails
<1> QED
  BY <1>6, <1>7, <1>8, <1>9, <1>10, <1>12 DEF Inv

\* OnConnect finds the socket connecting and starts the first read.
LEMMA OnConnectInv ==
  ASSUME Inv, Running, OnConnect
  PROVE  Inv'
<1>0. /\ TypeOK /\ PollSound /\ CloseSound /\ ConnectSound /\ FreshSound /\ ReaderSound
      /\ WriterSound /\ AcceptSound /\ NoLostWakeup /\ NoAssertFails
  BY DEF Inv
<1>1. Posted("OnConnect") > 0 /\ closed = FALSE
  BY <1>0, Running1 DEF OnConnect
<1>2. /\ Posted("Connect") = 0 /\ Posted("OnConnect") = 1
      /\ "Connect" \notin pending /\ state = "CONNECTING"
  BY <1>0, <1>1, UnderWays, Types DEF ConnectSound
<1>3. /\ inBuf = 0 /\ eof = FALSE /\ readSent = FALSE
      /\ outBuf = 0 /\ writeBuf = 0 /\ writeSent = FALSE /\ Posted("Write") = 0
  BY <1>0, <1>2 DEF FreshSound
<1>4. Posted("Read") = 0 /\ Posted("OnRead") = 0 /\ "Read" \notin pending
  BY <1>0, <1>1, <1>3, UnderWays, Types DEF ReaderSound, ReaderArmed
<1>5. /\ tasks' = Tail(tasks) /\ call' = Broadcast
      /\ \/ state' = "CONNECTED" /\ readSent' = TRUE /\ pending' = pending \cup {"Read"}
         \/ state' = "ERROR" /\ readSent' = FALSE /\ pending' = pending
      /\ UNCHANGED <<hasFd, closed, inBuf, eof, outgoing, accepted, ignored, aborted>>
  BY <1>1, <1>2, <1>3 DEF OnConnect, MarkAsError
<1>6. /\ tasks' \in Seq(Task) /\ Posted("Connect")' = 0 /\ Posted("OnConnect")' = 0
      /\ Posted("Read")' = 0 /\ Posted("OnRead")' = 0
      /\ Posted("Close")' = Posted("Close") /\ Posted("Write")' = 0
      /\ WritesFirst => WritesFirst'
  BY <1>0, <1>2, <1>3, <1>4, <1>5, Takes DEF OnConnect
<1>7. Spares("Accept") /\ Spares("Write")
  BY <1>0, <1>5, SparesTake, Callbacks DEF OnConnect, Operations
<1>8. SameCalls /\ PollSound' /\ Listeners' = Listeners
  BY <1>0, <1>5, MainCalls
<1>9. TypeOK'
  BY <1>0, <1>5, <1>6, <1>8 DEF TypeOK, Task, Call, incoming, outgoing, Operations, SameCalls
<1>10. CloseSound'
  BY <1>0, <1>1, <1>5, <1>6, <1>8, CloseFrame
<1>11. AcceptSound'
  BY <1>0, <1>2, <1>5, <1>7, <1>8, AcceptFrame
<1>12. ConnectSound' /\ FreshSound'
  <2>1. UnderWay("Connect")' = 0
    BY <1>2, <1>5, <1>6, UnderWays
  <2> QED
    BY <1>5, <1>6, <2>1 DEF ConnectSound, FreshSound
<1>13. ReaderSound'
  <2>1. UnderWay("Read")' = IF readSent' THEN 1 ELSE 0
    BY <1>4, <1>5, <1>6, UnderWays
  <2>2. inBuf' < BufSize \div 2
    BY <1>3, <1>5, ConstantsAssumption
  <2> QED
    BY <1>5, <1>6, <2>1, <2>2 DEF ReaderSound, ReaderArmed, IsConnected
<1>14. WriterSound'
  BY <1>0, <1>1, <1>3, <1>5, <1>6, <1>7 DEF WriterSound, WriterArmed, outgoing, Spares
<1>15. NoLostWakeup' /\ NoAssertFails'
  BY <1>0, <1>5, Woken DEF NoAssertFails
<1> QED
  BY <1>8, <1>9, <1>10, <1>11, <1>12, <1>13, <1>14, <1>15 DEF Inv

LEMMA SumPositive ==
  ASSUME NEW a \in Nat, NEW b \in Nat
  PROVE  a + b > 0 <=> a > 0 \/ b > 0
OBVIOUS

\* The bytes that WriteLocked moves fit, and it finds some if there are some.
LEMMA MovedBytes ==
  ASSUME TypeOK, NEW w \in 0 .. BufSize + MaxSend - 1
  PROVE  /\ Moved(w) \in 0 .. outBuf
         /\ w + Moved(w) \in 0 .. BufSize + MaxSend - 1
         /\ outBuf - Moved(w) \in 0 .. BufSize + MaxSend - 1
         /\ w > 0 \/ outBuf > 0 => w + Moved(w) > 0
<1>1. /\ BufSize \in Nat /\ MaxSend \in Nat /\ MaxSend >= 1 /\ BufSize \div 2 \in Nat
      /\ BufSize \div 2 <= BufSize
  BY ConstantsAssumption
<1>2. outBuf \in 0 .. BufSize + MaxSend - 1
  BY DEF TypeOK
<1>3. CASE w = 0
  <2>1. Moved(w) = outBuf
    BY <1>3 DEF Moved
  <2> QED
    BY <1>1, <1>2, <1>3, <2>1
<1>4. CASE w > 0 /\ w < BufSize \div 2
  <2>1. Moved(w) = IF outBuf < BufSize - w THEN outBuf ELSE BufSize - w
    BY <1>4 DEF Moved
  <2> QED
    BY <1>1, <1>2, <1>4, <2>1
<1>5. CASE w > 0 /\ ~(w < BufSize \div 2)
  <2>1. Moved(w) = 0
    BY <1>5 DEF Moved
  <2> QED
    BY <1>1, <1>2, <1>5, <2>1
<1> QED
  BY <1>1, <1>3, <1>4, <1>5

\* A Write starts one write of at least one byte, or does nothing.
LEMMA RunWriteInv ==
  ASSUME Inv, Running, RunWrite
  PROVE  Inv'
<1>0. /\ TypeOK /\ PollSound /\ CloseSound /\ ConnectSound /\ FreshSound /\ ReaderSound
      /\ WriterSound /\ AcceptSound /\ NoLostWakeup /\ NoAssertFails
  BY DEF Inv
<1>1. Posted("Write") > 0 /\ closed = FALSE
  BY <1>0, Running1 DEF RunWrite
<1>2. state \in {"CONNECTED", "ERROR"}
  BY <1>0, <1>1 DEF FreshSound
<1>3. writeSent = FALSE => Posted("OnWrite") = 0 /\ "Write" \notin pending
  BY <1>0, <1>1, UnderWays, Types DEF WriterSound, WriterArmed
<1>4. /\ tasks' = Tail(tasks)
      /\ \/ writeSent /\ UNCHANGED <<outgoing, pending, call>>
         \/ /\ ~writeSent /\ IsTerminated
            /\ call' = Broadcast
            /\ UNCHANGED <<outgoing, pending>>
         \/ ~writeSent /\ ~IsTerminated /\ WriteLocked(writeBuf) /\ UNCHANGED call
      /\ UNCHANGED <<state, hasFd, closed, incoming, accepted, ignored, aborted>>
  BY <1>0, <1>3 DEF RunWrite, TypeOK
<1>5. /\ tasks' \in Seq(Task) /\ Posted("Write")' = Posted("Write") - 1
      /\ Posted("OnWrite")' = Posted("OnWrite")
      /\ Posted("Close")' = Posted("Close")
      /\ WritesFirst => WritesFirst'
  BY <1>0, <1>1, <1>4, Takes DEF RunWrite
<1>6. pending' \in {pending, pending \cup {"Write"}}
  BY <1>4 DEF WriteLocked
<1>7. Spares("Accept") /\ Spares("Connect") /\ Spares("Read")
  BY <1>0, <1>4, <1>6, SparesTake, Callbacks DEF RunWrite, Operations
<1>8. SameCalls /\ PollSound' /\ Listeners' = Listeners
  BY <1>0, <1>4, MainCalls
<1>9. writeBuf \in 0 .. BufSize + MaxSend - 1 /\ writeSent \in BOOLEAN
  BY <1>0 DEF TypeOK
<1>10. /\ outBuf' \in 0 .. BufSize + MaxSend - 1 /\ writeBuf' \in 0 .. BufSize + MaxSend - 1
       /\ writeSent' \in BOOLEAN
  <2>1. CASE UNCHANGED outgoing
    BY <1>0, <2>1 DEF TypeOK, outgoing
  <2>2. CASE WriteLocked(writeBuf)
    BY <1>0, <1>9, <2>2, MovedBytes DEF WriteLocked
  <2> QED
    BY <1>4, <2>1, <2>2
<1>11. TypeOK'
  BY <1>0, <1>4, <1>5, <1>6, <1>8, <1>10 DEF TypeOK, Task, Call, incoming, Operations, SameCalls
<1>12. CloseSound'
  BY <1>0, <1>1, <1>4, <1>5, <1>8, CloseFrame
<1>13. AcceptSound' /\ ConnectSound' /\ ReaderSound' /\ FreshSound'
  BY <1>0, <1>2, <1>4, <1>7, <1>8, AcceptFrame, ConnectFrame, ReaderFrame DEF FreshSound
<1>14. WriterSound'
  <2>1. CASE writeSent /\ UNCHANGED <<outgoing, pending, call>>
    <3>1. UnderWay("Write")' = UnderWay("Write")
      BY <1>5, <2>1, UnderWays
    <3> QED
      BY <1>0, <1>1, <1>4, <1>5, <1>9, <2>1, <3>1, Types
         DEF WriterSound, WriterArmed, outgoing, IsConnected
  <2>2. CASE ~writeSent /\ IsTerminated /\ UNCHANGED <<outgoing, pending>>
    <3>1. UnderWay("Write")' = UnderWay("Write")
      BY <1>5, <2>2, UnderWays
    <3>2. ~IsConnected'
      BY <1>1, <1>4, <2>2 DEF IsTerminated, IsConnected
    <3> QED
      BY <1>0, <1>1, <1>4, <1>5, <2>2, <3>1, <3>2
         DEF WriterSound, WriterArmed, outgoing
  <2>3. CASE ~writeSent /\ ~IsTerminated /\ WriteLocked(writeBuf) /\ UNCHANGED call
    <3>1. UnderWay("Write")' = 1 /\ writeSent' = TRUE
      BY <1>3, <1>5, <1>9, <2>3, UnderWays DEF WriteLocked
    <3>2. writeBuf > 0 \/ outBuf > 0
      BY <1>0, <1>1, <1>2, <2>3, Types DEF WriterSound, IsTerminated, IsConnected
    <3>3. writeBuf' > 0
      BY <1>0, <1>9, <2>3, <3>2, MovedBytes DEF WriteLocked
    <3>4. outBuf' + writeBuf' > 0
      <4>1. outBuf' \in Nat /\ writeBuf' \in Nat
        BY <1>11 DEF TypeOK
      <4> QED
        BY <3>3, <4>1, SumPositive
    <3> QED
      BY <1>0, <1>1, <1>4, <1>5, <3>1, <3>3, <3>4 DEF WriterSound, WriterArmed
  <2> QED
    BY <1>4, <2>1, <2>2, <2>3
<1>15. NoLostWakeup'
  <2>1. CASE call' = Broadcast
    BY <1>0, <2>1, Woken
  <2>2. CASE UNCHANGED call
    <3>1. Quiet \/ call' = Broadcast
      BY <1>0, <1>4, Types DEF Quiet, incoming, outgoing, WriteLocked
    <3> QED
      BY <1>0, <1>11, <2>1, <2>2, <3>1, WakeFrame
  <2> QED
    BY <1>4, <2>1, <2>2
<1>16. NoAssertFails'
  BY <1>0, <1>4 DEF NoAssertFails
<1> QED
  BY <1>8, <1>11, <1>12, <1>13, <1>14, <1>15, <1>16 DEF Inv

\* After a write the next one is started, or no byte is left and no Write posted.
LEMMA OnWriteInv ==
  ASSUME Inv, Running, OnWrite
  PROVE  Inv'
<1>0. /\ TypeOK /\ PollSound /\ CloseSound /\ ConnectSound /\ FreshSound /\ ReaderSound
      /\ WriterSound /\ AcceptSound /\ NoLostWakeup /\ NoAssertFails
  BY DEF Inv
<1>1. Posted("OnWrite") > 0 /\ closed = FALSE
  BY <1>0, Running1 DEF OnWrite
<1>2. /\ Posted("OnWrite") = 1 /\ "Write" \notin pending /\ writeSent = TRUE
      /\ writeBuf > 0 /\ WritesFirst
  BY <1>0, <1>1, UnderWays, Types DEF WriterSound, WriterArmed, TypeOK
<1>3. state \in {"CONNECTED", "ERROR"}
  BY <1>0, <1>2 DEF FreshSound
<1>4. /\ tasks' = Tail(tasks) /\ call' = Broadcast
      /\ UNCHANGED <<hasFd, closed, incoming, accepted, ignored, aborted>>
  BY DEF OnWrite
<1>5. /\ tasks' \in Seq(Task) /\ Posted("OnWrite")' = 0 /\ Posted("Write")' = 0
      /\ Posted("Close")' = Posted("Close") /\ WritesFirst'
  BY <1>0, <1>2, <1>4, Takes DEF OnWrite
<1>6. writeBuf \in 0 .. BufSize + MaxSend - 1 /\ outBuf \in 0 .. BufSize + MaxSend - 1
  BY <1>0 DEF TypeOK
<1>7. /\ state' = state \/ state' = "ERROR"
      /\ pending' \in {pending, pending \cup {"Write"}}
      /\ writeSent' \in BOOLEAN
      /\ "Write" \in pending' <=> writeSent' = TRUE
      /\ outBuf' \in 0 .. BufSize + MaxSend - 1 /\ writeBuf' \in 0 .. BufSize + MaxSend - 1
      /\ writeSent' = TRUE => writeBuf' > 0
      /\ state' = "CONNECTED" /\ writeSent' = FALSE => outBuf' = 0 /\ writeBuf' = 0
  <2>1. CASE ~IsTerminated /\ (\E n \in 1 .. writeBuf : WriteEnds(n)) /\ UNCHANGED state
    <3>1. PICK n \in 1 .. writeBuf : WriteEnds(n)
      BY <2>1
    <3>2. writeBuf - n \in 0 .. BufSize + MaxSend - 1
      BY <1>6, ConstantsAssumption
    <3>3. CASE WritesOn(writeBuf - n)
      <4>1. WriteLocked(writeBuf - n)
        BY <3>1, <3>3 DEF WriteEnds
      <4>2. writeBuf - n > 0 \/ outBuf > 0
        BY <3>3 DEF WritesOn
      <4>3. /\ outBuf' \in 0 .. BufSize + MaxSend - 1 /\ writeBuf' \in 0 .. BufSize + MaxSend - 1
            /\ writeBuf' > 0
        BY <1>0, <3>2, <4>1, <4>2, MovedBytes DEF WriteLocked
      <4> QED
        BY <2>1, <4>1, <4>3 DEF WriteLocked
    <3>4. CASE ~WritesOn(writeBuf - n)
      <4>1. /\ writeBuf' = writeBuf - n /\ writeSent' = FALSE
            /\ UNCHANGED <<outBuf, pending>>
        BY <3>1, <3>4 DEF WriteEnds
      <4>2. writeBuf - n = 0 /\ outBuf = 0
        <5>1. writeBuf - n \in Nat /\ outBuf \in Nat
          BY <1>6, <3>2, ConstantsAssumption
        <5> QED
          BY <3>4, <5>1 DEF WritesOn
      <4> QED
        BY <1>2, <1>6, <2>1, <3>2, <4>1, <4>2
    <3> QED
      BY <3>3, <3>4
  <2>2. CASE /\ ~IsTerminated /\ "Write" \in Errors
             /\ state' = MarkAsError /\ writeSent' = FALSE
             /\ UNCHANGED <<outBuf, writeBuf, pending>>
    BY <1>1, <1>2, <1>6, <2>2 DEF MarkAsError
  <2>3. CASE /\ IsTerminated
             /\ writeSent' = FALSE
             /\ UNCHANGED <<state, outBuf, writeBuf, pending>>
    BY <1>1, <1>2, <1>6, <2>3 DEF IsTerminated
  <2> QED
    BY <2>1, <2>2, <2>3 DEF OnWrite
<1>8. Spares("Accept") /\ Spares("Connect") /\ Spares("Read")
  BY <1>0, <1>4, <1>7, SparesTake, Callbacks DEF OnWrite, Operations
<1>9. SameCalls /\ PollSound' /\ Listeners' = Listeners
  BY <1>0, <1>4, MainCalls
<1>10. TypeOK'
  BY <1>0, <1>3, <1>4, <1>5, <1>7, <1>9 DEF TypeOK, Task, Call, incoming, Operations, SameCalls
<1>11. CloseSound'
  BY <1>0, <1>1, <1>4, <1>5, <1>9, CloseFrame
<1>12. AcceptSound' /\ ConnectSound' /\ ReaderSound' /\ FreshSound'
  BY <1>0, <1>3, <1>4, <1>7, <1>8, <1>9, AcceptFrame, ConnectFrame, ReaderFrame DEF FreshSound
<1>13. WriterSound'
  <2>1. UnderWay("Write")' = IF writeSent' THEN 1 ELSE 0
    BY <1>5, <1>7, UnderWays
  <2>2. outBuf' \in Nat /\ writeBuf' \in Nat
    BY <1>10 DEF TypeOK
  <2>3. ASSUME state' = "CONNECTED", outBuf' + writeBuf' > 0 PROVE writeSent' = TRUE
    <3>1. ~(outBuf' = 0 /\ writeBuf' = 0)
      BY <2>3
    <3> QED
      BY <1>7, <2>3, <3>1
  <2>4. writeSent' => writeBuf' > 0
    BY <1>7
  <2>5. WriterArmed'
    BY <2>1, <2>3, <2>4 DEF WriterArmed, IsConnected
  <2>6. ~(Posted("Write")' > 0)
    BY <1>5
  <2> QED
    BY <1>5, <2>5, <2>6 DEF WriterSound
<1>14. NoLostWakeup' /\ NoAssertFails'
  BY <1>0, <1>4, Woken DEF NoAssertFails
<1> QED
  BY <1>9, <1>10, <1>11, <1>12, <1>13, <1>14 DEF Inv

\* Close leaves nothing posted, nothing under way and nobody asleep.
LEMMA RunCloseInv ==
  ASSUME Inv, Running, RunClose
  PROVE  Inv'
<1>0. /\ TypeOK /\ PollSound /\ CloseSound /\ ConnectSound /\ FreshSound /\ ReaderSound
      /\ WriterSound /\ AcceptSound /\ NoLostWakeup /\ NoAssertFails
  BY DEF Inv
<1>1. Posted("Close") > 0
  BY <1>0, Running1 DEF RunClose
<1>2. /\ closed' = TRUE /\ tasks' = << >> /\ pending' = {} /\ call' = Broadcast
      /\ UNCHANGED <<state, hasFd, incoming, outgoing, accepted, ignored, aborted>>
  BY DEF RunClose
<1>3. tasks' \in Seq(Task) /\ \A k : Posted(k)' = 0
  BY <1>2, CountEmpty DEF Posted, Count, Places
<1>4. SameCalls /\ PollSound' /\ Listeners' = Listeners
  BY <1>0, <1>2, MainCalls
<1>5. \A u \in Thread : call'[u].at = call[u].at
  BY <1>0, <1>2, Woken
<1>6. TypeOK'
  BY <1>0, <1>2, <1>3, <1>4
     DEF TypeOK, Task, Call, incoming, outgoing, Operations, SameCalls
<1>7. CloseSound'
  BY <1>0, <1>1, <1>2, <1>5 DEF CloseSound
<1>8. ConnectSound' /\ FreshSound' /\ ReaderSound' /\ WriterSound' /\ AcceptSound'
  BY <1>0, <1>2, <1>3, <1>4
     DEF ConnectSound, FreshSound, ReaderSound, ReaderArmed, WriterSound, WriterArmed,
         AcceptSound, incoming, outgoing
<1>9. NoLostWakeup' /\ NoAssertFails'
  BY <1>0, <1>2, Woken DEF NoAssertFails
<1> QED
  BY <1>4, <1>6, <1>7, <1>8, <1>9 DEF Inv

\* The end of an operation changes only where it is counted.
LEMMA CompleteInv ==
  ASSUME Inv, Running, NEW op \in Operations, Complete(op)
  PROVE  Inv'
<1>0. /\ TypeOK /\ PollSound /\ CloseSound /\ ConnectSound /\ FreshSound /\ ReaderSound
      /\ WriterSound /\ AcceptSound /\ NoLostWakeup /\ NoAssertFails
  BY DEF Inv
<1>1. /\ op \in pending /\ pending' = pending \ {op} /\ Post(Callback[op])
      /\ UNCHANGED <<state, hasFd, closed, incoming, outgoing, accepted, call, ignored, aborted>>
  BY DEF Complete
<1>2. closed = FALSE
  BY <1>0, <1>1 DEF CloseSound, TypeOK
<1>3. Callback[op] \in Task /\ Callback[op] \in {"OnAccept", "OnConnect", "OnRead", "OnWrite"}
  BY Callbacks DEF Task, Operations
<1>4. /\ tasks' \in Seq(Task)
      /\ \A k : Posted(k)' = Posted(k) + (IF k = Callback[op] THEN 1 ELSE 0)
      /\ \A k : k # Callback[op] => Posted(k)' = Posted(k)
      /\ WritesFirst => WritesFirst'
  BY <1>0, <1>1, <1>3, Posts
<1>5. ASSUME NEW o \in Operations, o # op PROVE Spares(o)
  BY <1>0, <1>1, <1>3, <1>5, SparesPost, Callbacks DEF Operations
<1>6. Spares(op)
  <2>1. Posted(op)' = Posted(op)
    BY <1>3, <1>4 DEF Operations
  <2>2. Posted(Callback[op])' = Posted(Callback[op]) + 1 /\ Posted(Callback[op]) \in Nat
    BY <1>0, <1>4, Types
  <2>3. UnderWay(op)' = UnderWay(op)
    BY <1>1, <2>2 DEF UnderWay
  <2> QED
    BY <2>1, <2>3 DEF Spares
<1>7. Spares("Accept") /\ Spares("Connect") /\ Spares("Read") /\ Spares("Write")
  BY <1>5, <1>6 DEF Operations
<1>8. Posted("Close")' = Posted("Close") /\ Posted("Write")' = Posted("Write")
  BY <1>3, <1>4
<1>9. SameCalls /\ PollSound' /\ Listeners' = Listeners
  BY <1>0, <1>1, MainCalls
<1>10. TypeOK'
  BY <1>0, <1>1, <1>4, <1>9
     DEF TypeOK, Task, Call, incoming, outgoing, Operations, SameCalls
<1>11. CloseSound'
  BY <1>0, <1>1, <1>2, <1>8, <1>9, CloseFrame
<1>12. ConnectSound' /\ FreshSound' /\ ReaderSound' /\ WriterSound' /\ AcceptSound'
  BY <1>0, <1>1, <1>4, <1>7, <1>8, <1>9, ConnectFrame, FreshFrame, ReaderFrame, WriterFrame,
     AcceptFrame
<1>13. Quiet
  BY <1>0, <1>1, Types DEF Quiet, incoming, outgoing
<1>14. NoLostWakeup' /\ NoAssertFails'
  BY <1>0, <1>1, <1>10, <1>13, WakeFrame DEF NoAssertFails
<1> QED
  BY <1>9, <1>10, <1>11, <1>12, <1>14 DEF Inv

-----------------------------------------------------------------------------
(* The calling threads *)

\* The kinds of calls that threads go on with.
LEMMA CallKinds ==
  /\ Idle \in Call /\ Idle.at = "idle" /\ Idle.asleep = FALSE
  /\ Doing("listen") \in Call /\ Doing("listen").at = "listen"
  /\ Doing("listen").asleep = FALSE
  /\ \A where \in {"connect", "accept", "recv", "send", "poll", "closeWrite", "closeTask"},
       event \in {"none", "in", "out"} :
         /\ Waiting(where, event) \in Call
         /\ Waiting(where, event).at = where /\ Waiting(where, event).event = event
BY DEF Call, Idle, Doing, Waiting

\* A thread goes on with c, which is not listen or close.
Onward(t, c) ==
    /\ c \in Call /\ Goes(t, c)
    /\ call[t].at # "listen" /\ c.at \notin Closes \cup {"listen"}
    /\ c.at = "poll" => c.event \in {"in", "out"}

LEMMA OnwardCalls ==
  ASSUME TypeOK, PollSound, NEW t \in Thread, NEW c, Onward(t, c)
  PROVE  SameCalls /\ PollSound' /\ Listeners' = Listeners
<1>1. /\ call' \in [Thread -> Call] /\ call'[t] = c
      /\ \A u \in Thread : u # t => call'[u] = call[u]
  BY Going DEF Onward
<1>2. SameCalls
  BY <1>1 DEF SameCalls, Onward
<1>3. PollSound'
  BY <1>1 DEF PollSound, Onward
<1> QED
  BY <1>2, <1>3, SameListeners

\* Thread t may sleep in c, and nothing has happened to the others.
LEMMA WakeGoes ==
  ASSUME TypeOK, TypeOK', PollSound, FreshSound, NoLostWakeup, Quiet,
         NEW t \in Thread, NEW c \in Call, Goes(t, c), c.asleep => ~CanProceed(c)'
  PROVE  NoLostWakeup'
<1>1. /\ call'[t] = c
      /\ \A u \in Thread : u # t => call'[u] = call[u]
  BY Going
<1>2. call'[t].asleep => ~CanProceed(call[t])'
  BY <1>1 DEF CanProceed
<1> QED
  BY <1>1, <1>2, WakeFrame

\* A step that changes nothing but the call.
LEMMA CallOnly ==
  ASSUME Inv, NEW t \in Thread, NEW c, Onward(t, c), c.asleep => ~CanProceed(c),
         UNCHANGED <<state, hasFd, closed, incoming, outgoing, accepted, tasks, pending,
                     ignored, aborted>>
  PROVE  Inv'
<1>0. /\ TypeOK /\ PollSound /\ CloseSound /\ ConnectSound /\ FreshSound /\ ReaderSound
      /\ WriterSound /\ AcceptSound /\ NoLostWakeup /\ NoAssertFails
  BY DEF Inv
<1>1. SameCalls /\ PollSound' /\ Listeners' = Listeners
  BY <1>0, OnwardCalls
<1>2. TypeOK'
  BY <1>0, <1>1 DEF TypeOK, Call, incoming, outgoing, SameCalls
<1>3. Posted("Close")' = Posted("Close") /\ Posted("Write")' = Posted("Write")
      /\ (WritesFirst => WritesFirst')
  BY <1>0, Keeps
<1>4. Spares("Accept") /\ Spares("Connect") /\ Spares("Read") /\ Spares("Write")
  BY <1>0, SparesKeep DEF Operations
<1>5. CloseSound'
  BY <1>0, <1>1, <1>3, CloseFrame
<1>6. ConnectSound' /\ FreshSound' /\ ReaderSound' /\ WriterSound' /\ AcceptSound'
  BY <1>0, <1>1, <1>3, <1>4, ConnectFrame, FreshFrame, ReaderFrame, WriterFrame, AcceptFrame
<1>7. Quiet
  BY <1>0, Types DEF Quiet, incoming, outgoing
<1>8. c.asleep => ~CanProceed(c)'
  BY DEF CanProceed, incoming, outgoing, IsTerminated, IsSelectReadReady, IsSelectWriteReady,
         PollReady, RoomPending, IsConnected, Full
<1>9. NoLostWakeup' /\ NoAssertFails'
  BY <1>0, <1>2, <1>7, <1>8, WakeGoes DEF NoAssertFails, Onward
<1> QED
  BY <1>1, <1>2, <1>5, <1>6, <1>9 DEF Inv

\* A thread that starts a call is in none, and the socket is not closed.
LEMMA Started ==
  ASSUME Inv, NEW t \in Thread, Starts(t)
  PROVE  closed = FALSE /\ hasFd = TRUE /\ call[t].at = "idle"
BY DEF Inv, TypeOK, CloseSound, Starts

LEMMA ConnectInv ==
  ASSUME Inv, Running, NEW t \in Thread, Connect(t)
  PROVE  Inv'
<1>0. /\ TypeOK /\ PollSound /\ CloseSound /\ ConnectSound /\ FreshSound /\ ReaderSound
      /\ WriterSound /\ AcceptSound /\ NoLostWakeup /\ NoAssertFails
  BY DEF Inv
<1>1. closed = FALSE /\ hasFd = TRUE /\ call[t].at = "idle"
  BY Started DEF Connect
<1>2. CASE state = "CONNECTING" /\ Goes(t, Waiting("connect", "none")) /\ UNCHANGED <<state, tasks>>
  <2>1. Onward(t, Waiting("connect", "none"))
    BY <1>1, <1>2, CallKinds DEF Onward, Closes
  <2>2. ~CanProceed(Waiting("connect", "none"))
    BY <1>1, <1>2, CallKinds DEF CanProceed
  <2> QED
    BY <1>2, <2>1, <2>2, CallOnly DEF Connect
<1>3. CASE /\ state = "NEW" /\ state' = "CONNECTING" /\ Post("Connect")
           /\ Goes(t, Waiting("connect", "none")) \/ UNCHANGED call
  <2>1. UNCHANGED <<hasFd, closed, incoming, outgoing, accepted, pending, ignored, aborted>>
    BY DEF Connect
  <2>2. /\ tasks' \in Seq(Task)
        /\ Posted("Connect")' = Posted("Connect") + 1
        /\ Posted("OnConnect")' = Posted("OnConnect")
        /\ Posted("Close")' = Posted("Close") /\ Posted("Write")' = Posted("Write")
        /\ WritesFirst => WritesFirst'
    BY <1>0, <1>3, Posts, TaskNames
  <2>3. Spares("Accept") /\ Spares("Read") /\ Spares("Write")
    BY <1>0, <1>3, <2>1, SparesPost, Callbacks, TaskNames DEF Operations
  <2>4. SameCalls /\ PollSound' /\ Listeners' = Listeners
    <3>1. CASE UNCHANGED call
      BY <1>0, <3>1, MainCalls
    <3>2. CASE Goes(t, Waiting("connect", "none"))
      <4>1. Onward(t, Waiting("connect", "none"))
        BY <1>1, <3>2, CallKinds DEF Onward, Closes
      <4> QED
        BY <1>0, <4>1, OnwardCalls
    <3> QED
      BY <1>3, <3>1, <3>2
  <2>5. TypeOK'
    BY <1>0, <1>3, <2>1, <2>2, <2>4 DEF TypeOK, Task, Call, incoming, outgoing, SameCalls
  <2>6. CloseSound'
    BY <1>0, <1>1, <2>1, <2>2, <2>4, CloseFrame
  <2>7. FreshSound' /\ ReaderSound' /\ WriterSound' /\ AcceptSound'
    BY <1>0, <1>3, <2>1, <2>2, <2>3, <2>4, FreshFrame, ReaderFrame, WriterFrame, AcceptFrame
  <2>8. ConnectSound'
    <3>1. Posted("Connect") = 0 /\ UnderWay("Connect") = 0
      BY <1>0, <1>1, <1>3, UnderWays, Types DEF ConnectSound
    <3>2. UnderWay("Connect")' = UnderWay("Connect")
      BY <2>1, <2>2, UnderWays
    <3> QED
      BY <1>3, <2>2, <3>1, <3>2 DEF ConnectSound
  <2>9. Quiet
    BY <1>0, <1>3, <2>1, Types DEF Quiet, incoming, outgoing
  <2>10. NoLostWakeup'
    <3>1. CASE UNCHANGED call
      BY <1>0, <2>5, <2>9, <3>1, WakeFrame
    <3>2. CASE Goes(t, Waiting("connect", "none"))
      <4>1. ~CanProceed(Waiting("connect", "none"))'
        BY <1>1, <1>3, <2>1, CallKinds DEF CanProceed
      <4> QED
        BY <1>0, <2>5, <2>9, <3>2, <4>1, CallKinds, WakeGoes
    <3> QED
      BY <1>3, <3>1, <3>2
  <2>11. NoAssertFails'
    BY <1>0, <2>1 DEF NoAssertFails
  <2> QED
    BY <2>4, <2>5, <2>6, <2>7, <2>8, <2>10, <2>11 DEF Inv
<1> QED
  BY <1>2, <1>3 DEF Connect

LEMMA ConnectResumeInv ==
  ASSUME Inv, Running, NEW t \in Thread, ConnectResume(t)
  PROVE  Inv'
<1>1. CASE state = "CONNECTING" /\ ~closed
  <2>1. Onward(t, Waiting("connect", "none"))
    BY <1>1, CallKinds DEF Onward, Closes, ConnectResume, Resumes
  <2>2. ~CanProceed(Waiting("connect", "none"))
    BY <1>1, CallKinds DEF CanProceed
  <2> QED
    BY <2>1, <2>2, CallOnly DEF ConnectResume
<1>2. CASE ~(state = "CONNECTING" /\ ~closed)
  <2>1. Onward(t, Idle)
    BY <1>2, CallKinds DEF Onward, Closes, ConnectResume, Resumes
  <2> QED
    BY <2>1, CallOnly, CallKinds DEF ConnectResume
<1> QED
  BY <1>1, <1>2

\* A new socket has no accept and nobody in listen, so that the one it gets is
\* the only one.
LEMMA ListenInv ==
  ASSUME Inv, Running, NEW t \in Thread, Listen(t)
  PROVE  Inv'
<1>0. /\ TypeOK /\ PollSound /\ CloseSound /\ ConnectSound /\ FreshSound /\ ReaderSound
      /\ WriterSound /\ AcceptSound /\ NoLostWakeup /\ NoAssertFails
  BY DEF Inv
<1>1. closed = FALSE /\ hasFd = TRUE /\ call[t].at = "idle"
  BY Started DEF Listen
<1>2. /\ state = "NEW" /\ state' = "LISTENING" /\ Goes(t, Doing("listen"))
      /\ UNCHANGED <<hasFd, closed, incoming, outgoing, accepted, tasks, pending, ignored, aborted>>
  BY DEF Listen, CanListen
<1>3. /\ call' \in [Thread -> Call] /\ call'[t] = Doing("listen")
      /\ \A u \in Thread : u # t => call'[u] = call[u]
  BY <1>0, <1>2, CallKinds, Going
<1>4. call'[t].at = "listen" /\ call'[t].asleep = FALSE
  BY <1>3, CallKinds
<1>5. PollSound'
  BY <1>0, <1>3, <1>4 DEF PollSound
<1>6. TypeOK'
  BY <1>0, <1>2, <1>3 DEF TypeOK, Call, incoming, outgoing
<1>7. /\ Posted("Close")' = Posted("Close") /\ Posted("Write")' = Posted("Write")
      /\ WritesFirst => WritesFirst'
  BY <1>0, <1>2, Keeps
<1>8. Spares("Accept") /\ Spares("Connect") /\ Spares("Read") /\ Spares("Write")
  BY <1>0, <1>2, SparesKeep DEF Operations
<1>9. CloseSound'
  <2>1. \A u \in Thread : /\ call'[u].at \in Closes => call[u].at \in Closes
                          /\ call'[u].at = "closeWrite" => call[u].at = "closeWrite"
    BY <1>3, <1>4 DEF Closes
  <2> QED
    BY <1>0, <1>1, <1>2, <1>7, <2>1 DEF CloseSound
<1>10. ConnectSound' /\ FreshSound' /\ ReaderSound' /\ WriterSound'
  BY <1>0, <1>2, <1>7, <1>8, ConnectFrame, FreshFrame, ReaderFrame, WriterFrame
<1>11. AcceptSound'
  <2>1. Listeners = {} /\ Accepts # 1 /\ Accepts <= 1
    BY <1>0, <1>1, <1>2 DEF AcceptSound
  <2>2. Accepts \in Nat
    BY <1>0, Types, UnderWays DEF Accepts
  <2>3. Accepts = 0 /\ Accepts' = Accepts
    BY <1>2, <1>8, <2>1, <2>2 DEF Accepts, Spares
  <2>4. Listeners' = {t}
    BY <1>3, <1>4, <2>1 DEF Listeners
  <2> QED
    BY <1>2, <2>3, <2>4 DEF AcceptSound
<1>12. Quiet
  BY <1>0, <1>2, Types DEF Quiet, incoming, outgoing
<1>13. NoLostWakeup' /\ NoAssertFails'
  BY <1>0, <1>2, <1>3, <1>4, <1>6, <1>12, WakeFrame DEF NoAssertFails
<1> QED
  BY <1>5, <1>6, <1>9, <1>10, <1>11, <1>13 DEF Inv

\* listen passes its turn on to the first Accept.
LEMMA ListenReturnInv ==
  ASSUME Inv, Running, NEW t \in Thread, ListenReturn(t)
  PROVE  Inv'
<1>0. /\ TypeOK /\ PollSound /\ CloseSound /\ ConnectSound /\ FreshSound /\ ReaderSound
      /\ WriterSound /\ AcceptSound /\ NoLostWakeup /\ NoAssertFails
  BY DEF Inv
<1>1. /\ call[t].at = "listen" /\ Goes(t, Idle)
      /\ UNCHANGED <<hasFd, closed, incoming, outgoing, accepted, pending, aborted>>
  BY DEF ListenReturn
<1>2. /\ call' \in [Thread -> Call] /\ call'[t] = Idle
      /\ \A u \in Thread : u # t => call'[u] = call[u]
  BY <1>0, <1>1, CallKinds, Going
<1>3. call'[t].at = "idle" /\ call'[t].asleep = FALSE
  BY <1>2, CallKinds
<1>4. PollSound'
  BY <1>0, <1>2, <1>3 DEF PollSound
<1>5. Listeners = {t} /\ Listeners' = {}
  BY <1>0, <1>1, <1>2, <1>3 DEF AcceptSound, Listeners
<1>6. \A u \in Thread : /\ call'[u].at \in Closes => call[u].at \in Closes
                        /\ call'[u].at = "closeWrite" => call[u].at = "closeWrite"
  BY <1>2, <1>3 DEF Closes
<1>7. CASE closed /\ UNCHANGED <<state, tasks, ignored>>
  <2>1. TypeOK'
    BY <1>0, <1>1, <1>2, <1>7 DEF TypeOK, Call, incoming, outgoing
  <2>2. /\ Posted("Close")' = Posted("Close") /\ Posted("Write")' = Posted("Write")
        /\ WritesFirst => WritesFirst'
    BY <1>0, <1>7, Keeps
  <2>3. Spares("Connect") /\ Spares("Read") /\ Spares("Write")
    BY <1>0, <1>1, <1>7, SparesKeep DEF Operations
  <2>4. CloseSound'
    BY <1>0, <1>1, <1>6, <1>7, <2>2 DEF CloseSound
  <2>5. ConnectSound' /\ FreshSound' /\ ReaderSound' /\ WriterSound'
    BY <1>0, <1>1, <1>7, <2>2, <2>3, ConnectFrame, FreshFrame, ReaderFrame, WriterFrame
  <2>6. AcceptSound'
    BY <1>1, <1>5, <1>7 DEF AcceptSound
  <2>7. Quiet
    BY <1>0, <1>1, <1>7, Types DEF Quiet, incoming, outgoing
  <2>8. NoLostWakeup' /\ NoAssertFails'
    BY <1>0, <1>1, <1>2, <1>3, <2>1, <2>7, WakeFrame DEF NoAssertFails
  <2> QED
    BY <1>4, <2>1, <2>4, <2>5, <2>6, <2>8 DEF Inv
<1>8. CASE ~closed /\ Post("Accept") /\ UNCHANGED <<state, ignored>>
  <2>1. /\ tasks' \in Seq(Task)
        /\ Posted("Accept")' = Posted("Accept") + 1
        /\ Posted("OnAccept")' = Posted("OnAccept")
        /\ Posted("Close")' = Posted("Close") /\ Posted("Write")' = Posted("Write")
        /\ WritesFirst => WritesFirst'
    BY <1>0, <1>8, Posts, TaskNames
  <2>2. Spares("Connect") /\ Spares("Read") /\ Spares("Write")
    BY <1>0, <1>1, <1>8, SparesPost, Callbacks, TaskNames DEF Operations
  <2>3. TypeOK'
    BY <1>0, <1>1, <1>2, <1>8, <2>1 DEF TypeOK, Task, Call, incoming, outgoing
  <2>4. CloseSound'
    BY <1>0, <1>1, <1>6, <1>8, <2>1 DEF CloseSound
  <2>5. ConnectSound' /\ FreshSound' /\ ReaderSound' /\ WriterSound'
    BY <1>0, <1>1, <1>8, <2>1, <2>2, ConnectFrame, FreshFrame, ReaderFrame, WriterFrame
  <2>6. AcceptSound'
    <3>1. Accepts = 0 /\ state = "LISTENING"
      BY <1>0, <1>5, <1>8 DEF AcceptSound
    <3>2. UnderWay("Accept")' = UnderWay("Accept") /\ UnderWay("Accept") \in Nat
      BY <1>0, <1>1, <2>1, AcceptsUnderWay
    <3>3. Accepts' = 1
      BY <1>0, <1>1, <2>1, <3>1, <3>2, Types DEF Accepts
    <3> QED
      BY <1>5, <1>8, <3>1, <3>3 DEF AcceptSound
  <2>7. Quiet
    BY <1>0, <1>1, <1>8, Types DEF Quiet, incoming, outgoing
  <2>8. NoLostWakeup' /\ NoAssertFails'
    BY <1>0, <1>1, <1>2, <1>3, <2>3, <2>7, WakeFrame DEF NoAssertFails
  <2> QED
    BY <1>4, <2>3, <2>4, <2>5, <2>6, <2>8 DEF Inv
<1>9. CASE /\ ~closed /\ "Listen" \in Errors /\ state' = MarkAsError
           /\ ignored' = ignored \cup {"Listen"} /\ UNCHANGED tasks
  <2>1. state' = "ERROR"
    BY <1>9 DEF MarkAsError
  <2>2. TypeOK'
    BY <1>0, <1>1, <1>2, <1>9, <2>1 DEF TypeOK, Call, incoming, outgoing
  <2>3. /\ Posted("Close")' = Posted("Close") /\ Posted("Write")' = Posted("Write")
        /\ WritesFirst => WritesFirst'
    BY <1>0, <1>9, Keeps
  <2>4. Spares("Accept") /\ Spares("Connect") /\ Spares("Read") /\ Spares("Write")
    BY <1>0, <1>1, <1>9, SparesKeep DEF Operations
  <2>5. Accepts = 0 /\ state = "LISTENING"
    BY <1>0, <1>5, <1>9 DEF AcceptSound
  <2>6. CloseSound'
    BY <1>0, <1>1, <1>6, <1>9, <2>3 DEF CloseSound
  <2>7. ConnectSound' /\ FreshSound' /\ ReaderSound' /\ WriterSound'
    BY <1>0, <1>1, <2>1, <2>3, <2>4, <2>5, ConnectFrame, FreshFrame, ReaderFrame, WriterFrame
  <2>8. AcceptSound'
    <3>1. Accepts' = 0
      BY <1>1, <2>4, <2>5 DEF Accepts, Spares
    <3> QED
      BY <1>5, <2>1, <3>1 DEF AcceptSound
  <2>9. NoLostWakeup' /\ NoAssertFails'
    BY <1>0, <1>1, <1>9 DEF NoLostWakeup, NoAssertFails
  <2> QED
    BY <1>4, <2>2, <2>6, <2>7, <2>8, <2>9 DEF Inv
<1> QED
  BY <1>7, <1>8, <1>9 DEF ListenReturn

\* accept exchanges the connection for the next Accept.
LEMMA FinishAcceptInv ==
  ASSUME Inv, NEW t \in Thread, call[t].at \in {"idle", "accept"}, closed = FALSE,
         FinishAccept(t),
         UNCHANGED <<state, hasFd, closed, incoming, outgoing, pending, ignored, aborted>>
  PROVE  Inv'
<1>0. /\ TypeOK /\ PollSound /\ CloseSound /\ ConnectSound /\ FreshSound /\ ReaderSound
      /\ WriterSound /\ AcceptSound /\ NoLostWakeup /\ NoAssertFails
  BY DEF Inv
<1>1. Onward(t, Idle)
  BY CallKinds DEF Onward, FinishAccept, Closes
<1>2. CASE ~accepted
  BY <1>1, <1>2, CallOnly, CallKinds DEF FinishAccept
<1>3. CASE accepted
  <2>1. accepted' = FALSE /\ Post("Accept")
    BY <1>3 DEF FinishAccept, TakeAccepted
  <2>2. /\ tasks' \in Seq(Task)
        /\ Posted("Accept")' = Posted("Accept") + 1
        /\ Posted("OnAccept")' = Posted("OnAccept")
        /\ Posted("Close")' = Posted("Close") /\ Posted("Write")' = Posted("Write")
        /\ WritesFirst => WritesFirst'
    BY <1>0, <2>1, Posts, TaskNames
  <2>3. Spares("Connect") /\ Spares("Read") /\ Spares("Write")
    BY <1>0, <2>1, SparesPost, Callbacks, TaskNames DEF Operations
  <2>4. SameCalls /\ PollSound' /\ Listeners' = Listeners
    BY <1>0, <1>1, OnwardCalls
  <2>5. TypeOK'
    BY <1>0, <2>1, <2>2, <2>4 DEF TypeOK, Task, Call, incoming, outgoing, SameCalls
  <2>6. CloseSound'
    BY <1>0, <2>2, <2>4, CloseFrame
  <2>7. ConnectSound' /\ FreshSound' /\ ReaderSound' /\ WriterSound'
    BY <1>0, <2>2, <2>3, ConnectFrame, FreshFrame, ReaderFrame, WriterFrame
  <2>8. AcceptSound'
    <3>1. UnderWay("Accept")' = UnderWay("Accept") /\ UnderWay("Accept") \in Nat
      BY <1>0, <2>2, AcceptsUnderWay
    <3>2. Accepts' = Accepts
      BY <1>0, <1>3, <2>1, <2>2, <3>1, Types DEF Accepts
    <3> QED
      BY <1>0, <2>4, <3>2 DEF AcceptSound
  <2>9. Quiet
    BY <1>0, <2>1, Types DEF Quiet, incoming, outgoing
  <2>10. NoLostWakeup' /\ NoAssertFails'
    BY <1>0, <1>1, <2>5, <2>9, CallKinds, WakeGoes DEF NoAssertFails, Onward
  <2> QED
    BY <2>4, <2>5, <2>6, <2>7, <2>8, <2>10 DEF Inv
<1> QED
  BY <1>2, <1>3

\* A thread waits for a connection.
LEMMA AcceptWaits ==
  ASSUME Inv, NEW t \in Thread, call[t].at \in {"idle", "accept"}, ~closed, ~accepted,
         Goes(t, Waiting("accept", "none")), UNCHANGED <<accepted, tasks>>,
         UNCHANGED <<state, hasFd, closed, incoming, outgoing, pending, ignored, aborted>>
  PROVE  Inv'
<1>1. Onward(t, Waiting("accept", "none"))
  BY CallKinds DEF Onward, Closes
<1>2. ~CanProceed(Waiting("accept", "none"))
  BY CallKinds DEF CanProceed
<1> QED
  BY <1>1, <1>2, CallOnly

LEMMA AcceptInv ==
  ASSUME Inv, Running, NEW t \in Thread,
         Accept(t) \/ AcceptResume(t) \/ AcceptTimeout(t)
  PROVE  Inv'
<1>0. closed \in BOOLEAN
  BY DEF Inv, TypeOK
<1>1. CASE Accept(t)
  <2>1. closed = FALSE /\ call[t].at = "idle"
    BY <1>1, Started DEF Accept
  <2> QED
    BY <1>1, <2>1, FinishAcceptInv, AcceptWaits DEF Accept
<1>2. CASE AcceptResume(t)
  <2>1. call[t].at = "accept"
    BY <1>2 DEF AcceptResume, Resumes
  <2>2. CASE closed
    <3>1. Onward(t, Idle)
      BY <1>2, <2>1, <2>2, CallKinds DEF Onward, AcceptResume, Closes
    <3> QED
      BY <1>2, <2>2, <3>1, CallOnly, CallKinds DEF AcceptResume
  <2>3. CASE ~closed
    BY <1>0, <1>2, <2>1, <2>3, FinishAcceptInv, AcceptWaits DEF AcceptResume
  <2> QED
    BY <2>2, <2>3
<1>3. CASE AcceptTimeout(t)
  BY <1>0, <1>3, FinishAcceptInv DEF AcceptTimeout, TimesOut
<1> QED
  BY <1>1, <1>2, <1>3

\* recv posts the read that its bytes made room for, unless there is one.
LEMMA FinishRecvInv ==
  ASSUME Inv, NEW t \in Thread, call[t].at \in {"idle", "recv"}, closed = FALSE,
         FinishRecv(t),
         UNCHANGED <<state, hasFd, closed, outgoing, accepted, pending, ignored, aborted>>
  PROVE  Inv'
<1>0. /\ TypeOK /\ PollSound /\ CloseSound /\ ConnectSound /\ FreshSound /\ ReaderSound
      /\ WriterSound /\ AcceptSound /\ NoLostWakeup /\ NoAssertFails
  BY DEF Inv
<1>1. Onward(t, Idle) /\ eof' = eof
  BY CallKinds DEF Onward, FinishRecv, Closes
<1>2. CASE UNCHANGED <<inBuf, readSent, tasks>>
  BY <1>1, <1>2, CallOnly, CallKinds DEF incoming
<1>3. CASE \E n \in 1 .. inBuf, peek \in BOOLEAN :
             /\ inBuf' = IF peek THEN inBuf ELSE inBuf - n
             /\ readSent' = (readSent \/ WantsRead(readSent, inBuf'))
             /\ IF WantsRead(readSent, inBuf') THEN Post("Read") ELSE UNCHANGED tasks
  <2>1. inBuf \in Nat /\ inBuf \in 0 .. BufSize + BufSize \div 2
    BY <1>0, Types DEF TypeOK
  <2>2. /\ inBuf' \in Nat /\ inBuf' <= inBuf /\ inBuf > 0
        /\ readSent' = (readSent \/ WantsRead(readSent, inBuf'))
        /\ IF WantsRead(readSent, inBuf') THEN Post("Read") ELSE UNCHANGED tasks
    BY <1>3, <2>1
  <2>3. state \in {"CONNECTED", "ERROR"}
    BY <1>0, <2>2 DEF FreshSound
  <2>4. readSent \in BOOLEAN /\ eof \in BOOLEAN
    BY <1>0 DEF TypeOK
  <2>5. SameCalls /\ PollSound' /\ Listeners' = Listeners
    BY <1>0, <1>1, OnwardCalls
  <2>6. /\ tasks' \in Seq(Task)
        /\ Posted("Close")' = Posted("Close") /\ Posted("Write")' = Posted("Write")
        /\ WritesFirst => WritesFirst'
        /\ Spares("Accept") /\ Spares("Connect") /\ Spares("Write")
    <3>1. CASE WantsRead(readSent, inBuf')
      BY <1>0, <2>2, <3>1, Posts, SparesPost, Callbacks, TaskNames DEF Operations
    <3>2. CASE ~WantsRead(readSent, inBuf')
      BY <1>0, <2>2, <3>2, Keeps, Types, SparesKeep DEF Operations
    <3> QED
      BY <3>1, <3>2
  <2>7. inBuf' \in 0 .. BufSize + BufSize \div 2
    BY <2>1, <2>2, ConstantsAssumption
  <2>8. readSent' \in BOOLEAN
    BY <2>2, <2>4 DEF WantsRead, IsConnected
  <2>9. TypeOK'
    BY <1>0, <1>1, <2>5, <2>6, <2>7, <2>8 DEF TypeOK, Task, Call, outgoing, SameCalls
  <2>10. CloseSound'
    BY <1>0, <2>5, <2>6, CloseFrame
  <2>11. ConnectSound' /\ FreshSound' /\ WriterSound' /\ AcceptSound'
    BY <1>0, <2>3, <2>5, <2>6, ConnectFrame, WriterFrame, AcceptFrame DEF FreshSound
  <2>12. ReaderSound'
    <3>1. BufSize \div 2 \in Nat
      BY ConstantsAssumption
    <3>2. CASE WantsRead(readSent, inBuf')
      <4>1. readSent = FALSE /\ inBuf' < BufSize \div 2 /\ readSent' = TRUE
        BY <2>2, <2>4, <3>2 DEF WantsRead
      <4>2. Posted("Read") = 0 /\ UnderWay("Read") = 0
        BY <1>0, <4>1, UnderWays, Types DEF ReaderSound, ReaderArmed
      <4>3. Posted("Read")' = Posted("Read") + 1 /\ Posted("OnRead")' = Posted("OnRead")
        BY <1>0, <2>2, <3>2, Posts, TaskNames
      <4>4. UnderWay("Read")' = UnderWay("Read")
        BY <4>3, UnderWays
      <4> QED
        BY <4>1, <4>2, <4>3, <4>4 DEF ReaderSound, ReaderArmed
    <3>3. CASE ~WantsRead(readSent, inBuf')
      <4>1. readSent' = readSent /\ Spares("Read")
        BY <1>0, <2>2, <2>4, <3>3, SparesKeep DEF Operations
      <4>2. readSent => inBuf' < BufSize \div 2
        BY <1>0, <2>1, <2>2, <3>1 DEF ReaderSound
      <4>3. state = "CONNECTED" /\ ~eof /\ inBuf' < BufSize \div 2 => readSent
        BY <2>4, <3>3 DEF WantsRead, IsConnected
      <4> QED
        BY <1>0, <1>1, <4>1, <4>2, <4>3 DEF ReaderSound, ReaderArmed, Spares, IsConnected
    <3> QED
      BY <3>2, <3>3
  <2>13. Quiet
    BY <1>0, <1>1, <2>2, Types DEF Quiet, outgoing
  <2>14. NoLostWakeup' /\ NoAssertFails'
    BY <1>0, <1>1, <2>9, <2>13, CallKinds, WakeGoes DEF NoAssertFails, Onward
  <2> QED
    BY <2>5, <2>9, <2>10, <2>11, <2>12, <2>14 DEF Inv
<1> QED
  BY <1>2, <1>3 DEF FinishRecv

LEMMA RecvRoundInv ==
  ASSUME Inv, NEW t \in Thread, call[t].at \in {"idle", "recv"}, closed = FALSE,
         RecvRound(t),
         UNCHANGED <<state, hasFd, closed, outgoing, accepted, pending, ignored, aborted>>
  PROVE  Inv'
<1>1. CASE IsSelectReadReady \/ IsTerminated
  BY <1>1, FinishRecvInv DEF RecvRound
<1>2. CASE ~(IsSelectReadReady \/ IsTerminated)
  <2>1. Goes(t, Waiting("recv", "none")) /\ UNCHANGED <<incoming, tasks>>
    BY <1>2 DEF RecvRound
  <2>2. Onward(t, Waiting("recv", "none"))
    BY <2>1, CallKinds DEF Onward, Closes
  <2>3. ~CanProceed(Waiting("recv", "none"))
    BY <1>2, CallKinds DEF CanProceed
  <2> QED
    BY <2>1, <2>2, <2>3, CallOnly
<1> QED
  BY <1>1, <1>2

LEMMA RecvInv ==
  ASSUME Inv, Running, NEW t \in Thread, Recv(t) \/ RecvResume(t)
  PROVE  Inv'
<1>0. closed \in BOOLEAN
  BY DEF Inv, TypeOK
<1>1. CASE Recv(t)
  <2>1. closed = FALSE /\ call[t].at = "idle"
    BY <1>1, Started DEF Recv
  <2> QED
    BY <1>1, <2>1, RecvRoundInv DEF Recv
<1>2. CASE RecvResume(t)
  <2>1. call[t].at = "recv"
    BY <1>2 DEF RecvResume, Resumes, TimesOut
  <2>2. CASE closed
    <3>1. Goes(t, Idle) /\ UNCHANGED <<incoming, tasks>>
      BY <1>2, <2>2 DEF RecvResume
    <3>2. Onward(t, Idle)
      BY <2>1, <3>1, CallKinds DEF Onward, Closes
    <3> QED
      BY <1>2, <3>1, <3>2, CallOnly, CallKinds DEF RecvResume
  <2>3. CASE ~closed
    <3>1. RecvRound(t) \/ FinishRecv(t)
      BY <1>2, <2>3 DEF RecvResume
    <3> QED
      BY <1>0, <1>2, <2>1, <2>3, <3>1, RecvRoundInv, FinishRecvInv DEF RecvResume
  <2> QED
    BY <2>2, <2>3
<1> QED
  BY <1>1, <1>2

\* send leaves its bytes to the write under way or posts one.
LEMMA EnqueueInv ==
  ASSUME Inv, NEW t \in Thread, call[t].at \in {"idle", "send"}, closed = FALSE,
         IsConnected, ~Full, Enqueue(t),
         UNCHANGED <<state, hasFd, closed, incoming, accepted, pending, ignored, aborted>>
  PROVE  Inv'
<1>0. /\ TypeOK /\ PollSound /\ CloseSound /\ ConnectSound /\ FreshSound /\ ReaderSound
      /\ WriterSound /\ AcceptSound /\ NoLostWakeup /\ NoAssertFails
  BY DEF Inv
<1>1. Onward(t, Idle)
  BY CallKinds DEF Onward, Enqueue, Closes
<1>2. BufSize \in Nat /\ MaxSend \in Nat /\ outBuf \in Nat /\ writeBuf \in Nat /\ outBuf < BufSize
  BY <1>0, Types, ConstantsAssumption DEF Full
<1>3. PICK n \in 1 .. MaxSend : outBuf' = outBuf + n
  BY DEF Enqueue
<1>4. outBuf' \in 0 .. BufSize + MaxSend - 1 /\ outBuf' >= outBuf /\ outBuf' > 0 /\ outBuf' \in Nat
  BY <1>2, <1>3
<1>5. /\ IF writeSent THEN UNCHANGED tasks ELSE Post("Write")
      /\ UNCHANGED <<writeBuf, writeSent>>
  BY DEF Enqueue
<1>6. writeSent \in BOOLEAN /\ state = "CONNECTED" /\ state' = "CONNECTED"
  BY <1>0 DEF TypeOK, IsConnected
<1>7. ~writeSent => Posted("OnWrite") = 0
  BY <1>0, UnderWays, Types DEF WriterSound, WriterArmed
<1>8. SameCalls /\ PollSound' /\ Listeners' = Listeners
  BY <1>0, <1>1, OnwardCalls
<1>9. /\ tasks' \in Seq(Task)
      /\ Posted("Close")' = Posted("Close") /\ Posted("OnWrite")' = Posted("OnWrite")
      /\ WritesFirst => WritesFirst'
      /\ Spares("Accept") /\ Spares("Connect") /\ Spares("Read")
  <2>1. CASE writeSent
    BY <1>0, <1>5, <2>1, Keeps, Types, SparesKeep DEF Operations
  <2>2. CASE ~writeSent
    <3>1. Post("Write") /\ "Write" \in Task
      BY <1>5, <2>2, TaskNames
    <3> QED
      BY <1>0, <1>7, <2>2, <3>1, Posts, SparesPost, Callbacks DEF Operations
  <2> QED
    BY <2>1, <2>2
<1>10. TypeOK'
  BY <1>0, <1>4, <1>5, <1>8, <1>9 DEF TypeOK, Task, Call, incoming, SameCalls
<1>11. CloseSound'
  BY <1>0, <1>8, <1>9, CloseFrame
<1>12. ConnectSound' /\ FreshSound' /\ ReaderSound' /\ AcceptSound'
  BY <1>0, <1>6, <1>8, <1>9, ConnectFrame, ReaderFrame, AcceptFrame DEF FreshSound
<1>13. WriterSound'
  <2>1. UnderWay("Write")' = UnderWay("Write")
    BY <1>9, UnderWays
  <2>2. outBuf' + writeBuf' > 0
    <3>1. writeBuf' \in Nat
      BY <1>2, <1>5
    <3> QED
      BY <1>4, <3>1, SumPositive
  <2>3. writeSent \/ Posted("Write")' > 0
    <3>1. CASE ~writeSent
      <4>1. Posted("Write")' = Posted("Write") + 1 /\ Posted("Write") \in Nat
        BY <1>0, <1>5, <3>1, Posts, TaskNames, Types
      <4> QED
        BY <4>1
    <3> QED
      BY <3>1
  <2>4. WriterArmed'
    BY <1>0, <1>5, <2>1, <2>3 DEF WriterSound, WriterArmed
  <2> QED
    BY <1>0, <1>9, <2>2, <2>4 DEF WriterSound
<1>14. Quiet
  BY <1>0, <1>4, <1>5, Types DEF Quiet, incoming
<1>15. NoLostWakeup' /\ NoAssertFails'
  BY <1>0, <1>1, <1>10, <1>14, CallKinds, WakeGoes DEF NoAssertFails, Onward
<1> QED
  BY <1>8, <1>10, <1>11, <1>12, <1>13, <1>15 DEF Inv

\* A thread waits for room in a full buffer.
LEMMA SendWaits ==
  ASSUME Inv, NEW t \in Thread, call[t].at \in {"idle", "send"}, closed = FALSE, IsConnected, Full,
         Goes(t, Waiting("send", "none")), UNCHANGED <<outgoing, tasks>>,
         UNCHANGED <<state, hasFd, closed, incoming, accepted, pending, ignored, aborted>>
  PROVE  Inv'
<1>1. Onward(t, Waiting("send", "none"))
  BY CallKinds DEF Onward, Closes
<1>2. ~CanProceed(Waiting("send", "none"))
  BY CallKinds DEF CanProceed
<1> QED
  BY <1>1, <1>2, CallOnly

\* A step after which the process has ended at ALOG_ASSERT(!is_blocking).
LEMMA SendAborts ==
  ASSUME Inv, aborted' = "send",
         UNCHANGED <<state, hasFd, closed, incoming, outgoing, accepted, tasks, pending,
                     call, ignored>>
  PROVE  Inv'
<1>0. /\ TypeOK /\ PollSound /\ CloseSound /\ ConnectSound /\ FreshSound /\ ReaderSound
      /\ WriterSound /\ AcceptSound /\ NoLostWakeup /\ NoAssertFails
  BY DEF Inv
<1>1. SameCalls /\ PollSound' /\ Listeners' = Listeners
  BY <1>0, MainCalls
<1>2. TypeOK'
  BY <1>0 DEF TypeOK, incoming, outgoing
<1>3. /\ Posted("Close")' = Posted("Close") /\ Posted("Write")' = Posted("Write")
      /\ WritesFirst => WritesFirst'
  BY <1>0, Keeps
<1>4. Spares("Accept") /\ Spares("Connect") /\ Spares("Read") /\ Spares("Write")
  BY <1>0, SparesKeep DEF Operations
<1>5. CloseSound'
  BY <1>0, <1>1, <1>3, CloseFrame
<1>6. ConnectSound' /\ FreshSound' /\ ReaderSound' /\ WriterSound' /\ AcceptSound'
  BY <1>0, <1>1, <1>3, <1>4, ConnectFrame, FreshFrame, ReaderFrame, WriterFrame, AcceptFrame
<1>7. Quiet
  BY <1>0, Types DEF Quiet, incoming, outgoing
<1>8. NoLostWakeup' /\ NoAssertFails'
  BY <1>0, <1>2, <1>7, WakeFrame DEF NoAssertFails
<1> QED
  BY <1>1, <1>2, <1>5, <1>6, <1>8 DEF Inv

LEMMA SendInv ==
  ASSUME Inv, Running, NEW t \in Thread, Send(t) \/ SendResume(t) \/ SendTimeout(t)
  PROVE  Inv'
<1>0. closed \in BOOLEAN
  BY DEF Inv, TypeOK
<1>1. CASE Send(t)
  <2>1. closed = FALSE /\ call[t].at = "idle"
    BY <1>1, Started DEF Send
  <2> QED
    BY <1>1, <2>1, SendWaits, EnqueueInv DEF Send
<1>2. ASSUME call[t].at = "send", Goes(t, Idle), UNCHANGED <<outgoing, tasks>>,
             UNCHANGED <<state, hasFd, closed, incoming, accepted, pending, ignored, aborted>>
      PROVE  Inv'
  <2>1. Onward(t, Idle)
    BY <1>2, CallKinds DEF Onward, Closes
  <2> QED
    BY <1>2, <2>1, CallOnly, CallKinds
<1>3. CASE SendResume(t)
  <2>1. call[t].at = "send"
    BY <1>3 DEF SendResume, Resumes
  <2>2. CASE closed \/ ~IsConnected
    BY <1>2, <1>3, <2>1, <2>2 DEF SendResume
  <2>3. CASE ~(closed \/ ~IsConnected)
    BY <1>0, <1>3, <2>1, <2>3, SendWaits, EnqueueInv DEF SendResume
  <2> QED
    BY <2>2, <2>3
<1>4. CASE SendTimeout(t)
  <2>1. call[t].at = "send" /\ closed = FALSE
    BY <1>0, <1>4 DEF SendTimeout, TimesOut
  <2>2. CASE ~IsConnected
    BY <1>2, <1>4, <2>1, <2>2 DEF SendTimeout
  <2>3. CASE IsConnected /\ ~Full
    BY <1>4, <2>1, <2>3, EnqueueInv DEF SendTimeout
  <2>4. CASE IsConnected /\ Full
    BY <1>4, <2>4, SendAborts DEF SendTimeout
  <2> QED
    BY <2>2, <2>3, <2>4
<1> QED
  BY <1>1, <1>3, <1>4

LEMMA PollInv ==
  ASSUME Inv, Running, NEW t \in Thread, Poll(t) \/ PollResume(t)
  PROVE  Inv'
<1>1. ASSUME NEW event \in {"in", "out"}, call[t].at \in {"idle", "poll"},
             ~PollReady(event), ~closed, Goes(t, Waiting("poll", event)),
             UNCHANGED <<state, hasFd, closed, incoming, outgoing, accepted, tasks, pending,
                         ignored, aborted>>
      PROVE  Inv'
  <2>1. Onward(t, Waiting("poll", event))
    BY <1>1, CallKinds DEF Onward, Closes
  <2>2. ~CanProceed(Waiting("poll", event))
    BY <1>1, CallKinds DEF CanProceed
  <2> QED
    BY <1>1, <2>1, <2>2, CallOnly
<1>2. CASE Poll(t)
  <2>1. closed = FALSE /\ call[t].at = "idle"
    BY <1>2, Started DEF Poll
  <2> QED
    BY <1>1, <1>2, <2>1 DEF Poll
<1>3. CASE PollResume(t)
  <2>1. call[t].at = "poll" /\ call[t].event \in {"in", "out"}
    BY <1>3 DEF PollResume, Resumes, TimesOut, Inv, PollSound
  <2>2. UNCHANGED <<state, hasFd, closed, incoming, outgoing, accepted, tasks, pending,
                    ignored, aborted>>
    BY <1>3 DEF PollResume
  <2>3. CASE Goes(t, Idle)
    <3>1. Onward(t, Idle)
      BY <2>1, <2>3, CallKinds DEF Onward, Closes
    <3> QED
      BY <2>2, <3>1, CallOnly, CallKinds
  <2>4. CASE hasFd /\ ~PollReady(call[t].event) /\ Goes(t, Waiting("poll", call[t].event))
    <3>1. ~closed
      BY <2>4 DEF Inv, CloseSound
    <3> QED
      BY <1>1, <2>1, <2>2, <2>4, <3>1
  <2> QED
    BY <1>3, <2>3, <2>4 DEF PollResume
<1> QED
  BY <1>2, <1>3

\* The one thread that closes the socket waits for the write or posts Close.
LEMMA CloseRoundInv ==
  ASSUME Inv, NEW t \in Thread, call[t].at \in {"idle", "closeWrite"}, closed = FALSE,
         \A u \in Thread : call[u].at \in Closes => u = t,
         Posted("Close") = 0, hasFd' = FALSE, CloseRound(t),
         UNCHANGED <<state, closed, incoming, outgoing, accepted, pending, ignored, aborted>>
  PROVE  Inv'
<1>0. /\ TypeOK /\ PollSound /\ CloseSound /\ ConnectSound /\ FreshSound /\ ReaderSound
      /\ WriterSound /\ AcceptSound /\ NoLostWakeup /\ NoAssertFails
  BY DEF Inv
<1>1. \/ /\ writeSent /\ IsConnected
         /\ Goes(t, Waiting("closeWrite", "none")) /\ UNCHANGED tasks
      \/ Goes(t, Waiting("closeTask", "none")) /\ Post("Close")
  BY DEF CloseRound
<1>2. PICK c \in {Waiting("closeWrite", "none"), Waiting("closeTask", "none")} :
        /\ Goes(t, c)
        /\ \/ c.at = "closeWrite" /\ writeSent /\ IsConnected /\ UNCHANGED tasks
           \/ c.at = "closeTask" /\ Post("Close")
  BY <1>1, CallKinds
<1>3. c \in Call /\ c.at \in Closes
  BY CallKinds DEF Closes
<1>4. /\ call' \in [Thread -> Call] /\ call'[t] = c
      /\ \A u \in Thread : u # t => call'[u] = call[u]
  BY <1>0, <1>2, <1>3, Going
<1>5. /\ tasks' \in Seq(Task) /\ Posted("Write")' = Posted("Write")
      /\ Posted("Close")' = (IF c.at = "closeTask" THEN 1 ELSE 0)
      /\ WritesFirst => WritesFirst'
      /\ Spares("Accept") /\ Spares("Connect") /\ Spares("Read") /\ Spares("Write")
  <2>1. CASE c.at = "closeWrite"
    BY <1>0, <1>2, <2>1, Keeps, Types, SparesKeep DEF Operations
  <2>2. CASE c.at = "closeTask"
    <3>1. Post("Close") /\ "Close" \in Task
      BY <1>2, <2>2, TaskNames
    <3> QED
      BY <1>0, <2>2, <3>1, Posts, SparesPost, Callbacks DEF Operations
  <2> QED
    BY <1>3, <2>1, <2>2 DEF Closes
<1>6. PollSound' /\ Listeners' = Listeners
  BY <1>0, <1>3, <1>4 DEF PollSound, Listeners, Closes
<1>7. TypeOK'
  BY <1>0, <1>4, <1>5 DEF TypeOK, Task, Call, incoming, outgoing
<1>8. CloseSound'
  <2>1. \A u \in Thread : call'[u].at \in Closes => u = t
    BY <1>4
  <2>2. Posted("Close")' > 0 => \A u \in Thread : call'[u].at # "closeWrite"
    BY <1>4, <1>5 DEF Closes
  <2> QED
    BY <2>1, <2>2 DEF CloseSound
<1>9. ConnectSound' /\ FreshSound' /\ ReaderSound' /\ WriterSound' /\ AcceptSound'
  BY <1>0, <1>5, <1>6, ConnectFrame, FreshFrame, ReaderFrame, WriterFrame, AcceptFrame
<1>10. Quiet
  BY <1>0, Types DEF Quiet, incoming, outgoing
<1>11. ~CanProceed(c)'
  BY <1>2, <1>3 DEF CanProceed, IsConnected, outgoing
<1>12. NoLostWakeup' /\ NoAssertFails'
  BY <1>0, <1>2, <1>3, <1>7, <1>10, <1>11, WakeGoes DEF NoAssertFails
<1> QED
  BY <1>6, <1>7, <1>8, <1>9, <1>12 DEF Inv

LEMMA CloseInv ==
  ASSUME Inv, Running, NEW t \in Thread, CloseFd(t) \/ CloseResume(t)
  PROVE  Inv'
<1>0. /\ TypeOK /\ PollSound /\ CloseSound /\ ConnectSound /\ FreshSound /\ ReaderSound
      /\ WriterSound /\ AcceptSound /\ NoLostWakeup /\ NoAssertFails
  BY DEF Inv
<1>1. CASE CloseFd(t)
  <2>1. closed = FALSE /\ hasFd = TRUE /\ call[t].at = "idle"
    BY <1>1, Started DEF CloseFd
  <2>2. Posted("Close") = 0 /\ \A u \in Thread : call[u].at \in Closes => u = t
    BY <1>0, <2>1, Types DEF CloseSound
  <2> QED
    BY <1>1, <2>1, <2>2, CloseRoundInv DEF CloseFd
<1>2. CASE Resumes(t, "closeWrite") /\ CloseRound(t) /\ CloseResume(t)
  <2>1. call[t].at = "closeWrite"
    BY <1>2 DEF Resumes
  <2>2. closed = FALSE /\ Posted("Close") = 0 /\ hasFd = FALSE
    BY <1>0, <2>1, Types DEF CloseSound, TypeOK, Closes
  <2>3. \A u \in Thread : call[u].at \in Closes => u = t
    BY <1>0, <2>1 DEF CloseSound, Closes
  <2>4. UNCHANGED <<state, hasFd, closed, incoming, outgoing, accepted, pending, ignored, aborted>>
    BY <1>2 DEF CloseResume
  <2> QED
    BY <1>2, <2>1, <2>2, <2>3, <2>4, CloseRoundInv
<1>3. CASE Resumes(t, "closeTask") /\ CloseResume(t)
  <2>1. /\ call[t].at = "closeTask" /\ ~call[t].asleep
        /\ Goes(t, IF closed THEN Idle ELSE Waiting("closeTask", "none")) /\ UNCHANGED tasks
        /\ UNCHANGED <<state, hasFd, closed, incoming, outgoing, accepted, pending, ignored, aborted>>
    BY <1>3 DEF CloseResume, Resumes
  <2>2. CASE closed
    <3>1. Onward(t, Idle)
      BY <2>1, <2>2, CallKinds DEF Onward, Closes
    <3> QED
      BY <2>1, <3>1, CallOnly, CallKinds
  <2>3. CASE ~closed
    <3> DEFINE c == Waiting("closeTask", "none")
    <3>1. c \in Call /\ c.at = "closeTask" /\ Goes(t, c)
      BY <2>1, <2>3, CallKinds
    <3> HIDE DEF c
    <3>2. /\ call' \in [Thread -> Call] /\ call'[t] = c
          /\ \A u \in Thread : u # t => call'[u] = call[u]
      BY <1>0, <3>1, Going
    <3>3. SameCalls /\ PollSound'
      BY <1>0, <2>1, <3>1, <3>2 DEF SameCalls, PollSound
    <3>4. Listeners' = Listeners
      BY <3>3, SameListeners
    <3>5. TypeOK'
      BY <1>0, <2>1, <3>2 DEF TypeOK, Call, incoming, outgoing
    <3>6. /\ Posted("Close")' = Posted("Close") /\ Posted("Write")' = Posted("Write")
          /\ WritesFirst => WritesFirst'
      BY <1>0, <2>1, Keeps
    <3>7. Spares("Accept") /\ Spares("Connect") /\ Spares("Read") /\ Spares("Write")
      BY <1>0, <2>1, SparesKeep DEF Operations
    <3>8. CloseSound'
      BY <1>0, <2>1, <3>3, <3>6, CloseFrame
    <3>9. ConnectSound' /\ FreshSound' /\ ReaderSound' /\ WriterSound' /\ AcceptSound'
      BY <1>0, <2>1, <3>4, <3>6, <3>7, ConnectFrame, FreshFrame, ReaderFrame, WriterFrame,
         AcceptFrame
    <3>10. Quiet
      BY <1>0, <2>1, Types DEF Quiet, incoming, outgoing
    <3>11. ~CanProceed(c)'
      BY <2>1, <2>3, <3>1 DEF CanProceed
    <3>12. NoLostWakeup' /\ NoAssertFails'
      BY <1>0, <2>1, <3>1, <3>5, <3>10, <3>11, WakeGoes DEF NoAssertFails
    <3> QED
      BY <3>3, <3>5, <3>8, <3>9, <3>12 DEF Inv
  <2> QED
    BY <2>2, <2>3
<1> QED
  BY <1>1, <1>2, <1>3 DEF CloseResume

-----------------------------------------------------------------------------
(* The theorems *)

LEMMA InitInv == Init => Inv
<1> SUFFICES ASSUME Init PROVE Inv
  OBVIOUS
<1>1. tasks \in Seq(Task) /\ tasks \in {<< >>, <<"Read">>}
  <2>1. "Read" \in Task
    BY TaskNames
  <2>2. << >> \in Seq(Task) /\ <<"Read">> \in Seq(Task)
    BY <2>1
  <2> QED
    BY <2>2 DEF Init
<1>2. call \in [Thread -> Call] /\ \A t \in Thread : call[t] = Idle
  BY CallKinds DEF Init
<1>3. \A t \in Thread : call[t].at = "idle" /\ call[t].asleep = FALSE
  BY <1>2, CallKinds
<1>4. TypeOK
  <2>1. 0 \in 0 .. BufSize + BufSize \div 2 /\ 0 \in 0 .. BufSize + MaxSend - 1
    BY ConstantsAssumption
  <2>2. tasks \in Seq(Operations \cup {"Close"} \cup {Callback[op] : op \in Operations})
    BY <1>1 DEF Task
  <2> QED
    BY <1>2, <2>1, <2>2 DEF Init, TypeOK, Call
<1>5. \A k : k # "Read" => Posted(k) = 0
  <2> SUFFICES ASSUME NEW k, k # "Read" PROVE Count(tasks, k) = 0
    BY DEF Posted, Count, Places
  <2>1. \A i \in 1 .. Len(tasks) : tasks[i] # k
    BY <1>1
  <2> QED
    BY <1>1, <2>1, CountType
<1>6. Posted("Read") = IF readSent THEN 1 ELSE 0
  <2>1. Posted("Read") = Count(tasks, "Read")
    BY DEF Posted, Count, Places
  <2>2. CASE tasks = << >> /\ readSent = FALSE
    BY <2>1, <2>2, CountEmpty
  <2>3. CASE tasks = <<"Read">> /\ readSent = TRUE
    <3>1. tasks = Append(<< >>, "Read") /\ << >> \in Seq(Task) /\ "Read" \in Task
      BY <2>3, TaskNames
    <3>2. Count(tasks, "Read") = Count(<< >>, "Read") + 1
      BY <3>1, CountAppend
    <3> QED
      BY <2>1, <2>3, <3>2, CountEmpty
  <2> QED
    BY <2>2, <2>3 DEF Init
<1>7. /\ UnderWay("Accept") = 0 /\ UnderWay("Connect") = 0
      /\ UnderWay("Read") = 0 /\ UnderWay("Write") = 0
  BY <1>5, UnderWays DEF Init
<1>8. PollSound /\ CloseSound /\ NoLostWakeup /\ NoAssertFails
  BY <1>3, <1>5 DEF PollSound, CloseSound, NoLostWakeup, NoAssertFails, Init, Closes
<1>9. ConnectSound /\ FreshSound
  BY <1>5, <1>7 DEF ConnectSound, FreshSound, Init
<1>10. ReaderSound
  <2>1. 0 < BufSize \div 2
    BY ConstantsAssumption
  <2> QED
    BY <1>6, <1>7, <2>1 DEF ReaderSound, ReaderArmed, IsConnected, Init
<1>11. WriterSound
  <2>1. WritesFirst
    BY <1>1 DEF WritesFirst
  <2>2. ~(Posted("Write") > 0) /\ ~(outBuf + writeBuf > 0)
    BY <1>5 DEF Init
  <2> QED
    BY <1>7, <2>1, <2>2 DEF WriterSound, WriterArmed, Init
<1>12. AcceptSound
  <2>1. Listeners = {}
    BY <1>3 DEF Listeners
  <2>2. Accepts = 0
    BY <1>5, <1>7 DEF Accepts, Init
  <2> QED
    BY <2>1, <2>2 DEF AcceptSound, Init
<1> QED
  BY <1>4, <1>8, <1>9, <1>10, <1>11, <1>12 DEF Inv

LEMMA NextInv == Inv /\ [Next]_vars => Inv'
<1> SUFFICES ASSUME Inv, [Next]_vars PROVE Inv'
  OBVIOUS
<1>1. CASE UNCHANGED vars
  <2>1. UNCHANGED <<state, hasFd, closed, inBuf, eof, readSent, outBuf, writeBuf, writeSent,
                    accepted, tasks, pending, call, ignored, aborted>>
    BY <1>1 DEF vars, incoming, outgoing
  <2> QED
    BY <2>1 DEF Inv, TypeOK, PollSound, CloseSound, ConnectSound, FreshSound, ReaderSound,
                ReaderArmed, WriterSound, WriterArmed, WritesFirst, AcceptSound, Accepts,
                Listeners, NoLostWakeup, NoAssertFails, CanProceed, Posted, UnderWay,
                IsSelectReadReady, IsSelectWriteReady, PollReady, IsTerminated, RoomPending,
                IsConnected, Full
<1>2. CASE Running /\ MainThread
  BY <1>2, RunAcceptInv, RunConnectInv, RunReadInv, RunWriteInv, RunCloseInv, OnAcceptInv,
     OnConnectInv, OnReadInv, OnWriteInv DEF MainThread
<1>3. ASSUME Running, NEW op \in Operations, Complete(op) PROVE Inv'
  BY <1>3, CompleteInv
<1>4. ASSUME Running, NEW t \in Thread, ThreadStep(t) PROVE Inv'
  BY <1>4, ConnectInv, ConnectResumeInv, ListenInv, ListenReturnInv, AcceptInv, RecvInv,
     SendInv, PollInv, CloseInv DEF ThreadStep, Resume
<1> QED
  BY <1>1, <1>2, <1>3, <1>4 DEF Next

LEMMA InvHolds == Spec => []Inv
BY InitInv, NextInv, PTL DEF Spec

\* At most one thread is in listen, so that the accepts it stands for are counted.
LEMMA AcceptCounted == Inv => AcceptArmed
<1> SUFFICES ASSUME Inv, ~closed, state = "LISTENING", "Accept" \notin ignored
             PROVE  Accepts + Cardinality(Listeners) = 1
  BY DEF AcceptArmed, Accepts, Listeners
<1>1. Cardinality(Listeners) = IF Listeners = {} THEN 0 ELSE 1
  BY OneListener DEF Inv, AcceptSound
<1>2. Accepts = IF Listeners = {} THEN 1 ELSE 0
  BY DEF Inv, AcceptSound
<1> QED
  BY <1>1, <1>2

\* Whatever threads, tasks and callbacks interleave, read_sent_ and write_sent_
\* tell the truth of what is posted and under way, a connected socket short of
\* data is being read, its bytes are about to be written, and a listening socket
\* has exactly one accept.
THEOREM SocketStaysArmed == Spec => []Armed
<1>1. Inv => Armed
  BY AcceptCounted DEF Inv, Armed, ReaderSound, WriterSound
<1> QED
  BY <1>1, InvHolds, PTL

\* No thread sleeps on what has already happened, unless a listen has failed.
THEOREM NoWakeupLost == Spec => []NoLostWakeup
<1>1. Inv => NoLostWakeup
  BY DEF Inv
<1> QED
  BY <1>1, InvHolds, PTL

\* No ALOG_ASSERT of a task or a callback fails, and Pepper is never asked for an
\* operation that is under way.
THEOREM AssertionsHold == Spec => []NoAssertFails
<1>1. Inv => NoAssertFails
  BY DEF Inv
<1> QED
  BY <1>1, InvHolds, PTL
=============================================================================

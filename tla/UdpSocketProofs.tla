--------------------------- MODULE UdpSocketProofs ---------------------------
(***************************************************************************)
(* A datagram socket stays armed, loses no wake-up and asks nothing of     *)
(* Pepper that is already under way, for any number of threads, queues of  *)
(* any length and any number of messages, with every failure and timeout.  *)
(*                                                                         *)
(* The places of a task in the queue of the main thread are counted; the   *)
(* lemmas on Count say what posting and running a task does to the count.  *)
(***************************************************************************)
EXTENDS UdpSocket, FiniteSetTheorems, TLAPS

\* The tasks of the main thread.
Task == Operations \cup {"Close", "OnRead", "OnWrite"}

\* Where a task is in a queue of tasks, and how often.
Places(s, k) == {i \in 1 .. Len(s) : s[i] = k}
Count(s, k) == Cardinality(Places(s, k))

\* How often a task is posted is a number, 0 if it is nowhere.
LEMMA CountType ==
  ASSUME NEW s \in Seq(Task), NEW k
  PROVE  /\ IsFiniteSet(Places(s, k)) /\ Count(s, k) \in Nat
         /\ Count(s, k) = 0 <=> \A i \in 1 .. Len(s) : s[i] # k
<1>1. IsFiniteSet(1 .. Len(s)) /\ Places(s, k) \in SUBSET (1 .. Len(s))
  BY FS_Interval DEF Places
<1>2. IsFiniteSet(Places(s, k))
  BY <1>1, FS_Subset
<1>3. Count(s, k) \in Nat /\ (Count(s, k) = 0 <=> Places(s, k) = {})
  BY <1>2, FS_CardinalityType, FS_EmptySet DEF Count
<1> QED
  BY <1>2, <1>3 DEF Places

\* Nothing is posted in an empty queue.
LEMMA CountEmpty ==
  ASSUME NEW k
  PROVE  Count(<< >>, k) = 0
<1>1. << >> \in Seq(Task) /\ \A i \in 1 .. Len(<< >>) : << >>[i] # k
  OBVIOUS
<1> QED
  BY <1>1, CountType

\* A task that is posted counts once.
LEMMA CountAppend ==
  ASSUME NEW s \in Seq(Task), NEW x \in Task, NEW k
  PROVE  Count(Append(s, x), k) = Count(s, k) + (IF k = x THEN 1 ELSE 0)
<1>1. /\ Len(s) \in Nat /\ Len(Append(s, x)) = Len(s) + 1
      /\ \A i \in 1 .. Len(s) + 1 : Append(s, x)[i] = IF i = Len(s) + 1 THEN x ELSE s[i]
  OBVIOUS
<1>2. IsFiniteSet(Places(s, k)) /\ Count(s, k) \in Nat /\ Len(s) + 1 \notin Places(s, k)
  BY <1>1, CountType DEF Places
<1>3. CASE k = x
  <2>1. Places(Append(s, x), k) = Places(s, k) \cup {Len(s) + 1}
    BY <1>1, <1>3 DEF Places
  <2> QED
    BY <1>2, <1>3, <2>1, FS_AddElement DEF Count
<1>4. CASE k # x
  <2>1. Places(Append(s, x), k) = Places(s, k)
    BY <1>1, <1>4 DEF Places
  <2> QED
    BY <1>2, <1>4, <2>1 DEF Count
<1> QED
  BY <1>3, <1>4

\* A task that is taken counts no more.
LEMMA CountTail ==
  ASSUME NEW s \in Seq(Task), s # << >>, NEW k
  PROVE  Count(Tail(s), k) = Count(s, k) - (IF k = Head(s) THEN 1 ELSE 0)
<1> DEFINE A == Places(Tail(s), k)
           B == Places(s, k) \ {1}
           f == [i \in A |-> i + 1]
<1>1. /\ Len(s) \in Nat /\ Len(s) >= 1 /\ Len(Tail(s)) = Len(s) - 1
      /\ Head(s) = s[1] /\ Tail(s) \in Seq(Task)
      /\ \A i \in 1 .. Len(s) - 1 : Tail(s)[i] = s[i + 1]
  OBVIOUS
<1>2. f \in [A -> B]
  BY <1>1 DEF Places
<1>3. \A a, b \in A : f[a] = f[b] => a = b
  BY <1>1 DEF Places
<1>4. \A b \in B : b - 1 \in A /\ f[b - 1] = b
  BY <1>1 DEF Places
<1>5. f \in Bijection(A, B)
  <2> HIDE DEF f, A, B
  <2>1. f \in Injection(A, B)
    BY <1>2, <1>3 DEF Injection, IsInjective
  <2>2. f \in Surjection(A, B)
    BY <1>2, <1>4 DEF Surjection
  <2> QED
    BY <2>1, <2>2 DEF Bijection
<1>6. IsFiniteSet(A) /\ IsFiniteSet(Places(s, k)) /\ Count(s, k) \in Nat
  BY <1>1, CountType
<1>7. Cardinality(B) = Cardinality(A)
  <2>1. ExistsBijection(A, B)
    <3> HIDE DEF f, A, B
    <3> QED
      BY <1>5 DEF ExistsBijection
  <2> HIDE DEF A, B
  <2> QED
    BY <2>1, <1>6, FS_Bijection
<1>8. Cardinality(B) = IF 1 \in Places(s, k) THEN Count(s, k) - 1 ELSE Count(s, k)
  BY <1>6, FS_RemoveElement DEF Count
<1>9. 1 \in Places(s, k) <=> k = Head(s)
  BY <1>1 DEF Places
<1> QED
  BY <1>6, <1>7, <1>8, <1>9 DEF Count

-----------------------------------------------------------------------------
(* The invariant of a datagram socket *)

\* What a thread does in the socket.
Call == [at : {"idle", "bind", "sendtoBind", "sendto", "recvfrom", "poll", "close"},
         asleep : BOOLEAN,
         result : {"none", "ok", "error"}]

\* Once Close has run nothing is left for the main thread, and no call starts
\* once it is posted.
CloseSound ==
    /\ closed => tasks = << >> /\ pending = {} /\ ~hasFd
    /\ Posted("Close") > 0 => ~hasFd

\* One thread at a time binds the socket, and what the code takes for bound is.
BindSound ==
    /\ \A t \in Thread :
         InBind(t) => state = "BINDING" /\ (call[t].result = "ok" => bound)
    /\ \A t, u \in Thread : InBind(t) /\ InBind(u) => t = u
    /\ state = "BOUND" => bound

\* Only a bound socket is read, and what a read brings has room in in_queue_.
ReaderSound ==
    /\ ReaderArmed
    /\ ~closed /\ readSent => state = "BOUND" /\ inQueue < QueueSize
    /\ inQueue > 0 => state = "BOUND"

\* Only a bound socket has messages, but for those queued during another's bind.
WriterSound == WriterArmed /\ (~closed /\ writeSent /\ ~early => state = "BOUND")

\* A message that waits for the bind of its sendto has been counted.
SendsSound ==
    outQueue <= sends /\ \A t \in Thread : call[t].at = "sendtoBind" => outQueue < sends

\* The inductive invariant.
Inv ==
    /\ TypeOK /\ CloseSound /\ BindSound /\ ReaderSound
    /\ WriterSound /\ SendsSound /\ NoLostWakeup /\ NoAssertFails

-----------------------------------------------------------------------------
(* Types, the queue of tasks and the calls of a datagram socket *)

\* How often a task is posted.
LEMMA PostedCount == \A k : Posted(k) = Count(tasks, k) /\ Posted(k)' = Count(tasks', k)
BY DEF Posted, Count, Places

\* The types that every step uses.
LEMMA Types ==
  ASSUME TypeOK
  PROVE  /\ call \in [Thread -> Call] /\ tasks \in Seq(Task)
         /\ pending \subseteq Operations /\ inQueue \in Nat /\ outQueue \in Nat /\ sends \in Nat
         /\ closed \in BOOLEAN /\ hasFd \in BOOLEAN /\ readSent \in BOOLEAN
         /\ writeSent \in BOOLEAN /\ early \in BOOLEAN /\ deaf \in BOOLEAN
         /\ bound \in BOOLEAN /\ connected \in BOOLEAN
         /\ \A k : Posted(k) \in Nat
<1>1. call \in [Thread -> Call] /\ tasks \in Seq(Task) /\ pending \subseteq Operations
  BY DEF TypeOK, Call, Task
<1>4. \A k : Posted(k) \in Nat
  BY <1>1, CountType, PostedCount
<1>5. /\ inQueue \in Nat /\ outQueue \in Nat /\ sends \in Nat
      /\ closed \in BOOLEAN /\ hasFd \in BOOLEAN /\ readSent \in BOOLEAN
      /\ writeSent \in BOOLEAN /\ early \in BOOLEAN /\ deaf \in BOOLEAN
      /\ bound \in BOOLEAN /\ connected \in BOOLEAN
  BY DEF TypeOK
<1> QED
  BY <1>1, <1>4, <1>5

\* What is under way, name by name.
LEMMA UnderWays ==
  /\ UnderWay("Read") =
       Posted("Read") + Posted("OnRead") + (IF "Read" \in pending THEN 1 ELSE 0)
  /\ UnderWay("Write") =
       Posted("Write") + Posted("OnWrite") + (IF "Write" \in pending THEN 1 ELSE 0)
  /\ UnderWay("Read")' =
       Posted("Read")' + Posted("OnRead")' + (IF "Read" \in pending' THEN 1 ELSE 0)
  /\ UnderWay("Write")' =
       Posted("Write")' + Posted("OnWrite")' + (IF "Write" \in pending' THEN 1 ELSE 0)
<1>1. Callback["Read"] = "OnRead" /\ Callback["Write"] = "OnWrite"
  BY DEF Callback
<1> QED
  BY <1>1 DEF UnderWay

\* The queue after a task is posted.
LEMMA Posts ==
  ASSUME TypeOK, NEW x \in Task, tasks' = Append(tasks, x)
  PROVE  /\ tasks' \in Seq(Task) /\ tasks' # << >>
         /\ \A k : Posted(k)' = Posted(k) + (IF k = x THEN 1 ELSE 0)
<1>1. tasks \in Seq(Task) /\ x \in Task
  BY Types DEF Task, Operations
<1>2. tasks' \in Seq(Task) /\ tasks' # << >>
  BY <1>1
<1>3. ASSUME NEW k PROVE Posted(k)' = Posted(k) + (IF k = x THEN 1 ELSE 0)
  <2>1. Posted(k) = Count(tasks, k) /\ Posted(k)' = Count(tasks', k)
    BY PostedCount
  <2> QED
    BY <1>1, <2>1, CountAppend
<1> QED
  BY <1>2, <1>3

\* The queue after the main thread has taken a task.
LEMMA Takes ==
  ASSUME TypeOK, NEW x, Runs(x), tasks' = Tail(tasks)
  PROVE  /\ tasks' \in Seq(Task)
         /\ \A k : Posted(k)' = Posted(k) - (IF k = x THEN 1 ELSE 0)
<1>1. tasks \in Seq(Task) /\ tasks # << >> /\ x = Head(tasks)
  BY Types DEF Runs
<1>2. tasks' \in Seq(Task)
  BY <1>1
<1>3. ASSUME NEW k PROVE Posted(k)' = Posted(k) - (IF k = x THEN 1 ELSE 0)
  <2>1. Posted(k) = Count(tasks, k) /\ Posted(k)' = Count(tasks', k)
    BY PostedCount
  <2> QED
    BY <1>1, <2>1, CountTail
<1> QED
  BY <1>2, <1>3

\* A step that leaves the queue alone.
LEMMA Keeps ==
  ASSUME UNCHANGED tasks
  PROVE  \A k : Posted(k)' = Posted(k)
BY DEF Posted

\* A task that runs is posted, and the socket is not closed.
LEMMA RunsFacts ==
  ASSUME TypeOK, CloseSound, NEW x, Runs(x)
  PROVE  Posted(x) > 0 /\ closed = FALSE
<1>1. tasks \in Seq(Task) /\ tasks # << >> /\ x = Head(tasks)
  BY Types DEF Runs
<1>2. 1 \in 1 .. Len(tasks) /\ tasks[1] = x
  BY <1>1
<1>3. Posted(x) = Count(tasks, x)
  BY PostedCount
<1>4. Count(tasks, x) \in Nat /\ Count(tasks, x) # 0
  BY <1>1, <1>2, CountType
<1>5. closed \in BOOLEAN
  BY Types
<1> QED
  BY <1>1, <1>3, <1>4, <1>5 DEF CloseSound

\* The records of the calls.
LEMMA CallKinds ==
  /\ Idle \in Call /\ Idle.at = "idle" /\ Idle.asleep = FALSE /\ Idle.result = "none"
  /\ \A w \in {"sendto", "recvfrom", "poll", "close"} :
       /\ Waiting(w) \in Call /\ Waiting(w).at = w /\ Waiting(w).asleep = TRUE
  /\ \A w \in {"bind", "sendtoBind"} :
       /\ [Idle EXCEPT !.at = w] \in Call
       /\ [Idle EXCEPT !.at = w].at = w /\ [Idle EXCEPT !.at = w].asleep = FALSE
       /\ [Idle EXCEPT !.at = w].result = "none"
<1>1. Idle \in Call /\ Idle.at = "idle" /\ Idle.asleep = FALSE /\ Idle.result = "none"
  BY DEF Idle, Call
<1>2. ASSUME NEW w \in {"bind", "sendtoBind"}
      PROVE  /\ [Idle EXCEPT !.at = w] \in Call
             /\ [Idle EXCEPT !.at = w].at = w /\ [Idle EXCEPT !.at = w].asleep = FALSE
             /\ [Idle EXCEPT !.at = w].result = "none"
  BY <1>1 DEF Call
<1>3. ASSUME NEW w \in {"sendto", "recvfrom", "poll", "close"}
      PROVE  Waiting(w) \in Call /\ Waiting(w).at = w /\ Waiting(w).asleep = TRUE
  BY DEF Waiting, Call
<1> QED
  BY <1>1, <1>2, <1>3

\* The calls after a thread goes on.
LEMMA Going ==
  ASSUME TypeOK, NEW t \in Thread, NEW c \in Call, Goes(t, c)
  PROVE  /\ call' \in [Thread -> Call]
         /\ call'[t] = c
         /\ \A u \in Thread : u # t => call'[u] = call[u]
BY Types DEF Goes

\* The calls after a broadcast: nobody sleeps.
LEMMA Woken ==
  ASSUME TypeOK
  PROVE  /\ Broadcast \in [Thread -> Call]
         /\ \A u \in Thread :
              /\ Broadcast[u].at = call[u].at /\ Broadcast[u].asleep = FALSE
              /\ Broadcast[u].result = call[u].result
<1>1. call \in [Thread -> Call]
  BY Types
<1> QED
  BY <1>1 DEF Broadcast, Call

-----------------------------------------------------------------------------
(* What a step leaves alone *)

\* Nobody enters or leaves bind, and Pepper's answers stay.
SameBinds ==
    /\ call' \in [Thread -> Call]
    /\ \A u \in Thread :
         \/ call'[u].at = call[u].at /\ call'[u].result = call[u].result
         \/ ~InBind(u) /\ call'[u].at \notin {"bind", "sendtoBind"}

\* A step that disturbs no bind leaves the bound socket and the counted messages
\* as they are.
LEMMA BindFrame ==
  ASSUME BindSound, SendsSound, SameBinds, UNCHANGED <<state, bound, sends>>,
         outQueue \in Nat, outQueue' \in Nat, outQueue' <= outQueue, sends \in Nat
  PROVE  BindSound' /\ SendsSound'
<1>1. \A u \in Thread : InBind(u)' <=> InBind(u)
  BY DEF SameBinds, InBind
<1>2. BindSound'
  BY <1>1 DEF BindSound, SameBinds, InBind
<1>3. \A u \in Thread : call'[u].at = "sendtoBind" => call[u].at = "sendtoBind"
  BY DEF SameBinds
<1>4. SendsSound'
  BY <1>3 DEF SendsSound
<1> QED
  BY <1>2, <1>4

\* Who sleeps after a quiet step slept before, or may sleep.
LEMMA WakeFrame ==
  ASSUME NoLostWakeup, TypeOK, closed' = closed,
         outQueue' = 0 => outQueue = 0, inQueue' > 0 => inQueue > 0,
         \A u \in Thread : call'[u].asleep =>
           \/ call'[u] = call[u]
           \/ ~CanProceed(call[u])'
  PROVE  NoLostWakeup'
<1> SUFFICES ASSUME NEW u \in Thread, call'[u].asleep, CanProceed(call[u])'
             PROVE  FALSE
  BY DEF NoLostWakeup
<1>1. call'[u] = call[u]
  OBVIOUS
<1>2. ~CanProceed(call[u])
  BY <1>1 DEF NoLostWakeup
<1> QED
  BY <1>1, <1>2 DEF CanProceed, IsSelectReadReady

\* Nobody sleeps after a broadcast.
LEMMA Awake ==
  ASSUME TypeOK, call' = Broadcast
  PROVE  NoLostWakeup' /\ SameBinds
BY Woken DEF NoLostWakeup, SameBinds

\* A step that changes no call.
LEMMA SameCalls ==
  ASSUME TypeOK, UNCHANGED call
  PROVE  SameBinds
BY Types DEF SameBinds

\* The other part of the socket: reading does not disturb writing and back.
LEMMA ReaderFrame ==
  ASSUME TypeOK, ReaderSound, UNCHANGED <<closed, state, incoming>>,
         Posted("Read")' = Posted("Read"), Posted("OnRead")' = Posted("OnRead"),
         "Read" \in pending' <=> "Read" \in pending
  PROVE  ReaderSound'
<1>1. UnderWay("Read")' = UnderWay("Read")
  BY UnderWays
<1> QED
  BY <1>1 DEF ReaderSound, ReaderArmed, incoming

\* A step that neither queues, writes nor posts leaves the writer as it is.
LEMMA WriterFrame ==
  ASSUME TypeOK, WriterSound, UNCHANGED <<closed, state, outgoing>>,
         Posted("Write")' = Posted("Write"), Posted("OnWrite")' = Posted("OnWrite"),
         "Write" \in pending' <=> "Write" \in pending
  PROVE  WriterSound'
<1>1. UnderWay("Write")' = UnderWay("Write")
  BY UnderWays
<1> QED
  BY <1>1 DEF WriterSound, WriterArmed, outgoing

\* A step that neither posts nor runs Close.
LEMMA CloseFrame ==
  ASSUME CloseSound, UNCHANGED life, Posted("Close")' = Posted("Close"),
         ~closed \/ UNCHANGED <<tasks, pending>>
  PROVE  CloseSound'
BY DEF CloseSound, life

-----------------------------------------------------------------------------
(* The main thread of a datagram socket *)

\* Read is never refused.
LEMMA RunReadInv ==
  ASSUME Inv, Running, RunRead
  PROVE  Inv'
<1>0. /\ TypeOK /\ CloseSound /\ BindSound /\ ReaderSound
      /\ WriterSound /\ SendsSound /\ NoLostWakeup /\ NoAssertFails
  BY DEF Inv
<1>1. Posted("Read") > 0 /\ closed = FALSE /\ \A k : Posted(k) \in Nat
  BY <1>0, RunsFacts, Types DEF RunRead
<1>2. Posted("Read") = 1 /\ Posted("OnRead") = 0 /\ "Read" \notin pending /\ readSent = TRUE
  BY <1>0, <1>1, UnderWays, Types DEF ReaderSound, ReaderArmed
<1>3. bound = TRUE
  BY <1>0, <1>1, <1>2, Types DEF ReaderSound, BindSound
<1>4. /\ tasks' = Tail(tasks) /\ pending' = pending \cup {"Read"}
      /\ UNCHANGED <<binding, life, incoming, outgoing, call, sends, aborted>>
  BY <1>2, <1>3 DEF RunRead, Accepts
<1>5. tasks' \in Seq(Task) /\ \A k : Posted(k)' = Posted(k) - (IF k = "Read" THEN 1 ELSE 0)
  BY <1>0, <1>4, Takes DEF RunRead
<1>6. TypeOK'
  BY <1>0, <1>4, <1>5 DEF TypeOK, Task, Operations, binding, life, incoming, outgoing
<1>7. CloseSound'
  BY <1>0, <1>1, <1>4, <1>5, CloseFrame
<1>8. BindSound' /\ SendsSound'
  BY <1>0, <1>4, SameCalls, BindFrame, Types DEF binding, outgoing
<1>9. ReaderSound'
  <2>1. Posted("Read")' = 0 /\ Posted("OnRead")' = 0 /\ "Read" \in pending'
    BY <1>2, <1>4, <1>5
  <2>2. UnderWay("Read")' = 1
    BY <2>1, UnderWays
  <2> QED
    BY <1>0, <1>2, <1>4, <2>2 DEF ReaderSound, ReaderArmed, incoming, binding, life
<1>10. WriterSound'
  BY <1>0, <1>1, <1>4, <1>5, WriterFrame DEF binding, life
<1>11. NoLostWakeup' /\ NoAssertFails'
  BY <1>0, <1>4, WakeFrame DEF NoAssertFails, outgoing, incoming, life
<1> QED
  BY <1>0, <1>6, <1>7, <1>8, <1>9, <1>10, <1>11 DEF Inv

\* A message, one that is dropped or an error: one read is under way, or none.
LEMMA OnReadInv ==
  ASSUME Inv, Running, OnRead
  PROVE  Inv'
<1>0. /\ TypeOK /\ CloseSound /\ BindSound /\ ReaderSound
      /\ WriterSound /\ SendsSound /\ NoLostWakeup /\ NoAssertFails
  BY DEF Inv
<1>1. Posted("OnRead") > 0 /\ closed = FALSE /\ \A k : Posted(k) \in Nat
  BY <1>0, RunsFacts, Types DEF OnRead
<1>2. /\ Posted("Read") = 0 /\ Posted("OnRead") = 1 /\ "Read" \notin pending /\ readSent = TRUE
      /\ state = "BOUND" /\ inQueue < QueueSize /\ inQueue \in Nat /\ QueueSize \in Nat
  BY <1>0, <1>1, UnderWays, Types,
     ConstantsAssumption DEF ReaderSound, ReaderArmed
<1>3. /\ tasks' = Tail(tasks) /\ call' \in {call, Broadcast}
      /\ UNCHANGED <<binding, life, outgoing, sends, aborted>>
  BY DEF OnRead
<1>4. tasks' \in Seq(Task) /\ \A k : Posted(k)' = Posted(k) - (IF k = "OnRead" THEN 1 ELSE 0)
  BY <1>0, <1>3, Takes DEF OnRead
<1>5. /\ inQueue' \in 0 .. QueueSize /\ readSent' \in BOOLEAN /\ deaf' \in BOOLEAN
      /\ ("Read" \in pending') <=> (readSent' = TRUE)
      /\ pending' \in {pending, pending \cup {"Read"}}
      /\ readSent' = TRUE => inQueue' < QueueSize
      /\ ~deaf' /\ inQueue' < QueueSize => readSent' = TRUE
      /\ \/ call' = Broadcast
         \/ inQueue' = inQueue /\ call' = call
  <2>0. deaf \in BOOLEAN /\ inQueue + 1 \in 0 .. QueueSize
    BY <1>0, <1>2, Types
  <2>1. CASE ReadOn(inQueue + 1) /\ call' = Broadcast /\ UNCHANGED deaf
    <3>1. CASE inQueue + 1 < QueueSize
      <4>1. inQueue' = inQueue + 1 /\ readSent' = TRUE /\ pending' = pending \cup {"Read"}
        BY <2>1, <3>1 DEF ReadOn, WantsRead
      <4> QED
        BY <1>2, <2>0, <2>1, <3>1, <4>1
    <3>2. CASE ~(inQueue + 1 < QueueSize)
      <4>1. inQueue' = inQueue + 1 /\ readSent' = FALSE /\ pending' = pending
        BY <2>1, <3>2 DEF ReadOn, WantsRead
      <4> QED
        BY <1>2, <2>0, <2>1, <3>2, <4>1
    <3> QED
      BY <3>1, <3>2
  <2>2. CASE connected /\ ReadOn(inQueue) /\ UNCHANGED <<call, deaf>>
    <3>1. inQueue' = inQueue /\ readSent' = TRUE /\ pending' = pending \cup {"Read"}
      BY <1>2, <2>2 DEF ReadOn, WantsRead
    <3> QED
      BY <1>0, <1>2, <2>2, <3>1, Types
  <2>3. CASE /\ "Read" \in Errors
             /\ readSent' = FALSE /\ deaf' = TRUE
             /\ UNCHANGED <<inQueue, pending, call>>
    <3>1. readSent' \in BOOLEAN /\ deaf' \in BOOLEAN
      BY <2>3, Zenon
    <3>2. inQueue' \in 0 .. QueueSize
      BY <1>2, <2>3
    <3> QED
      BY <1>2, <2>3, <3>1, <3>2
  <2> QED
    BY <2>1, <2>2, <2>3 DEF OnRead
<1>6. TypeOK'
  <2>1. pending' \subseteq Operations /\ call' \in [Thread -> Call]
    BY <1>0, <1>3, <1>5, Types, Woken DEF Operations
  <2> QED
    BY <1>0, <1>3, <1>4, <1>5, <2>1
    DEF TypeOK, Task, Call, binding, life, outgoing
<1>7. CloseSound'
  BY <1>0, <1>1, <1>3, <1>4, CloseFrame
<1>8. BindSound' /\ SendsSound'
  <2>1. SameBinds
    BY <1>0, <1>3, Awake, SameCalls
  <2> QED
    BY <1>0, <1>3, <2>1, BindFrame, Types DEF binding, outgoing
<1>9. ReaderSound'
  <2>1. Posted("Read")' = 0 /\ Posted("OnRead")' = 0
    BY <1>2, <1>4
  <2>2. UnderWay("Read")' = IF readSent' THEN 1 ELSE 0
    BY <1>5, <2>1, UnderWays
  <2> QED
    BY <1>2, <1>3, <1>5, <2>2 DEF ReaderSound, ReaderArmed, binding, life
<1>10. WriterSound'
  <2>1. Posted("Write")' = Posted("Write") /\ Posted("OnWrite")' = Posted("OnWrite")
    BY <1>1, <1>4
  <2> QED
    BY <1>0, <1>3, <1>5, <2>1, WriterFrame DEF binding, life
<1>11. NoLostWakeup' /\ NoAssertFails'
  <2>1. CASE call' = Broadcast
    BY <1>0, <1>3, <2>1, Awake DEF NoAssertFails, outgoing
  <2>2. CASE inQueue' = inQueue /\ call' = call
    BY <1>0, <1>3, <2>2, WakeFrame DEF NoAssertFails, outgoing, life
  <2> QED
    BY <1>5, <2>1, <2>2
<1> QED
  BY <1>0, <1>6, <1>7, <1>8, <1>9, <1>10, <1>11 DEF Inv

\* Write finds a message, and is refused only when that was queued too early.
LEMMA RunWriteInv ==
  ASSUME Inv, Running, RunWrite
  PROVE  Inv'
<1>0. /\ TypeOK /\ CloseSound /\ BindSound /\ ReaderSound
      /\ WriterSound /\ SendsSound /\ NoLostWakeup /\ NoAssertFails
  BY DEF Inv
<1>1. Posted("Write") > 0 /\ closed = FALSE /\ \A k : Posted(k) \in Nat
  BY <1>0, RunsFacts, Types DEF RunWrite
<1>2. /\ Posted("Write") = 1 /\ Posted("OnWrite") = 0 /\ "Write" \notin pending
      /\ writeSent = TRUE /\ outQueue > 0
  BY <1>0, <1>1, UnderWays, Types DEF WriterSound, WriterArmed
<1>3. CASE ~Accepts("Write")
  <2>1. /\ aborted' = "Write"
        /\ UNCHANGED <<binding, life, incoming, outgoing, tasks, pending, sends, call>>
    BY <1>3 DEF RunWrite, Fail
  <2>2. early = TRUE
    BY <1>0, <1>1, <1>2, <1>3, Types DEF WriterSound, BindSound, Accepts
  <2>3. TypeOK'
    BY <1>0, <2>1 DEF TypeOK, Operations, binding, life, incoming, outgoing
  <2>4. \A k : Posted(k)' = Posted(k)
    BY <2>1, Keeps
  <2>5. CloseSound' /\ ReaderSound' /\ WriterSound'
    BY <1>0, <2>1, <2>4, CloseFrame, ReaderFrame, WriterFrame DEF binding, life
  <2>6. BindSound' /\ SendsSound'
    BY <1>0, <2>1, SameCalls, BindFrame, Types DEF binding, outgoing
  <2>7. NoLostWakeup' /\ NoAssertFails'
    BY <1>0, <2>1, <2>2, WakeFrame DEF NoAssertFails, outgoing, incoming, life
  <2> QED
    BY <1>0, <2>3, <2>5, <2>6, <2>7 DEF Inv
<1>4. CASE Accepts("Write")
  <2>1. /\ tasks' = Tail(tasks) /\ pending' = pending \cup {"Write"}
        /\ UNCHANGED <<binding, life, incoming, outgoing, call, sends, aborted>>
    BY <1>0, <1>2, <1>4, Types DEF RunWrite
  <2>2. /\ tasks' \in Seq(Task)
        /\ \A k : Posted(k)' = Posted(k) - (IF k = "Write" THEN 1 ELSE 0)
    BY <1>0, <2>1, Takes DEF RunWrite
  <2>3. TypeOK'
    BY <1>0, <2>1, <2>2 DEF TypeOK, Task, Operations, binding, life, incoming, outgoing
  <2>4. CloseSound'
    BY <1>0, <1>1, <2>1, <2>2, CloseFrame
  <2>5. BindSound' /\ SendsSound'
    BY <1>0, <2>1, SameCalls, BindFrame, Types DEF binding, outgoing
  <2>6. WriterSound'
    <3>1. Posted("Write")' = 0 /\ Posted("OnWrite")' = 0 /\ "Write" \in pending'
      BY <1>2, <2>1, <2>2
    <3>2. UnderWay("Write")' = 1
      BY <3>1, UnderWays
    <3> QED
      BY <1>0, <1>2, <2>1, <3>2 DEF WriterSound, WriterArmed, outgoing, binding, life
  <2>7. ReaderSound'
    BY <1>0, <1>1, <2>1, <2>2, ReaderFrame DEF binding, life
  <2>8. NoLostWakeup' /\ NoAssertFails'
    BY <1>0, <2>1, WakeFrame DEF NoAssertFails, outgoing, incoming, life
  <2> QED
    BY <1>0, <2>3, <2>4, <2>5, <2>6, <2>7, <2>8 DEF Inv
<1> QED
  BY <1>3, <1>4

\* Sent or failed, the message is gone, and the next write is under way.
LEMMA OnWriteInv ==
  ASSUME Inv, Running, OnWrite
  PROVE  Inv'
<1>0. /\ TypeOK /\ CloseSound /\ BindSound /\ ReaderSound
      /\ WriterSound /\ SendsSound /\ NoLostWakeup /\ NoAssertFails
  BY DEF Inv
<1>1. Posted("OnWrite") > 0 /\ closed = FALSE /\ \A k : Posted(k) \in Nat
  BY <1>0, RunsFacts, Types DEF OnWrite
<1>2. /\ Posted("Write") = 0 /\ Posted("OnWrite") = 1 /\ "Write" \notin pending
      /\ writeSent = TRUE /\ outQueue \in Nat /\ outQueue > 0
  BY <1>0, <1>1, UnderWays, Types DEF WriterSound, WriterArmed
<1>3. /\ tasks' = Tail(tasks) /\ call' = Broadcast
      /\ outQueue' = outQueue - 1 /\ writeSent' = (outQueue > 1)
      /\ pending' = IF outQueue > 1 THEN pending \cup {"Write"} ELSE pending
      /\ UNCHANGED <<binding, life, incoming, early, sends, aborted>>
  BY DEF OnWrite
<1>4. tasks' \in Seq(Task) /\ \A k : Posted(k)' = Posted(k) - (IF k = "OnWrite" THEN 1 ELSE 0)
  BY <1>0, <1>3, Takes DEF OnWrite
<1>5. /\ outQueue' \in Nat /\ outQueue' \in 0 .. MaxSends /\ outQueue' <= outQueue
      /\ outQueue' > 0 <=> outQueue > 1
  BY <1>0, <1>2, <1>3, ConstantsAssumption DEF TypeOK
<1>6. TypeOK'
  <2>1. pending' \subseteq Operations /\ call' \in [Thread -> Call]
    BY <1>0, <1>3, Types, Woken DEF Operations
  <2> QED
    BY <1>0, <1>3, <1>4, <1>5, <2>1
    DEF TypeOK, Task, Call, binding, life, incoming
<1>7. CloseSound'
  BY <1>0, <1>1, <1>3, <1>4, CloseFrame
<1>8. BindSound' /\ SendsSound' /\ NoLostWakeup'
  <2>1. SameBinds /\ NoLostWakeup'
    BY <1>0, <1>3, Awake
  <2> QED
    BY <1>0, <1>3, <1>5, <2>1, BindFrame, Types DEF binding
<1>9. WriterSound'
  <2>1. Posted("Write")' = 0 /\ Posted("OnWrite")' = 0
    BY <1>2, <1>4
  <2>2. UnderWay("Write")' = IF writeSent' THEN 1 ELSE 0
    <3>1. CASE outQueue > 1
      <4>1. writeSent' = TRUE /\ "Write" \in pending'
        BY <1>3, <3>1
      <4> QED
        BY <2>1, <4>1, UnderWays
    <3>2. CASE ~(outQueue > 1)
      <4>1. (outQueue > 1) = FALSE
        BY <1>2, <3>2
      <4>2. writeSent' = FALSE /\ pending' = pending
        BY <1>3, <4>1, Zenon
      <4> QED
        BY <1>2, <2>1, <4>2, UnderWays
    <3> QED
      BY <3>1, <3>2
  <2> QED
    BY <1>0, <1>1, <1>2, <1>3, <1>5, <2>2
    DEF WriterSound, WriterArmed, binding, life
<1>10. ReaderSound'
  <2>1. Posted("Read")' = Posted("Read") /\ Posted("OnRead")' = Posted("OnRead")
    BY <1>1, <1>4
  <2> QED
    BY <1>0, <1>3, <2>1, ReaderFrame DEF binding, life
<1>11. NoAssertFails'
  BY <1>0, <1>3 DEF NoAssertFails
<1> QED
  BY <1>0, <1>6, <1>7, <1>8, <1>9, <1>10, <1>11 DEF Inv

\* Close ends all that was posted and under way.
LEMMA RunCloseInv ==
  ASSUME Inv, Running, RunClose
  PROVE  Inv'
<1>0. /\ TypeOK /\ CloseSound /\ BindSound /\ ReaderSound
      /\ WriterSound /\ SendsSound /\ NoLostWakeup /\ NoAssertFails
  BY DEF Inv
<1>1. Posted("Close") > 0
  BY <1>0, RunsFacts DEF RunClose
<1>2. /\ closed' = TRUE /\ tasks' = << >> /\ pending' = {} /\ call' = Broadcast
      /\ UNCHANGED <<binding, hasFd, incoming, outgoing, sends, aborted>>
  BY DEF RunClose
<1>3. TypeOK'
  <2>1. call' \in [Thread -> Call] /\ tasks' \in Seq(Task)
    BY <1>0, <1>2, Woken
  <2> QED
    BY <1>0, <1>2, <2>1 DEF TypeOK, Task, Call, binding, incoming, outgoing
<1>4. CloseSound'
  BY <1>0, <1>1, <1>2 DEF CloseSound
<1>5. BindSound' /\ SendsSound' /\ NoLostWakeup'
  <2>1. SameBinds /\ NoLostWakeup'
    BY <1>0, <1>2, Awake
  <2> QED
    BY <1>0, <1>2, <2>1, BindFrame, Types DEF binding, outgoing
<1>6. ReaderSound' /\ WriterSound'
  BY <1>0, <1>2 DEF ReaderSound, ReaderArmed, WriterSound, WriterArmed, binding, incoming
<1>7. NoAssertFails'
  BY <1>0, <1>2 DEF NoAssertFails, outgoing
<1> QED
  BY <1>0, <1>3, <1>4, <1>5, <1>6, <1>7 DEF Inv

\* An operation that completes is under way as its callback.
LEMMA CompleteInv ==
  ASSUME Inv, Running, NEW op \in Operations, Complete(op)
  PROVE  Inv'
<1>0. /\ TypeOK /\ CloseSound /\ BindSound /\ ReaderSound
      /\ WriterSound /\ SendsSound /\ NoLostWakeup /\ NoAssertFails
  BY DEF Inv
<1>1. closed = FALSE /\ \A k : Posted(k) \in Nat
  BY <1>0, Types DEF CloseSound, Complete
<1>2. /\ op \in pending /\ pending' = pending \ {op} /\ tasks' = Append(tasks, Callback[op])
      /\ UNCHANGED <<binding, life, incoming, outgoing, call, sends, aborted>>
  BY DEF Complete
<1>3. /\ \/ op = "Read" /\ Callback[op] = "OnRead"
         \/ op = "Write" /\ Callback[op] = "OnWrite"
      /\ Callback[op] \in Task
  <2>1. Callback["Read"] = "OnRead" /\ Callback["Write"] = "OnWrite"
    BY DEF Callback
  <2> QED
    BY <2>1 DEF Operations, Task
<1>4. /\ tasks' \in Seq(Task)
      /\ \A k : Posted(k)' = Posted(k) + (IF k = Callback[op] THEN 1 ELSE 0)
  BY <1>0, <1>2, <1>3, Posts
<1>5. TypeOK'
  BY <1>0, <1>2, <1>4 DEF TypeOK, Task, binding, life, incoming, outgoing
<1>6. CloseSound'
  <2>1. Posted("Close")' = Posted("Close")
    BY <1>1, <1>3, <1>4
  <2> QED
    BY <1>0, <1>1, <1>2, <2>1, CloseFrame
<1>7. BindSound' /\ SendsSound'
  BY <1>0, <1>2, SameCalls, BindFrame, Types DEF binding, outgoing
<1>8. UnderWay("Read")' = UnderWay("Read") /\ UnderWay("Write")' = UnderWay("Write")
  <2>1. CASE op = "Read"
    <3>1. /\ Posted("Read")' = Posted("Read") /\ Posted("OnRead")' = Posted("OnRead") + 1
          /\ Posted("Write")' = Posted("Write") /\ Posted("OnWrite")' = Posted("OnWrite")
      BY <1>1, <1>3, <1>4, <2>1
    <3>2. /\ "Read" \in pending /\ "Read" \notin pending'
          /\ "Write" \in pending' <=> "Write" \in pending
      BY <1>2, <2>1
    <3> QED
      BY <1>1, <3>1, <3>2, UnderWays
  <2>2. CASE op = "Write"
    <3>1. /\ Posted("Read")' = Posted("Read") /\ Posted("OnRead")' = Posted("OnRead")
          /\ Posted("Write")' = Posted("Write") /\ Posted("OnWrite")' = Posted("OnWrite") + 1
      BY <1>1, <1>3, <1>4, <2>2
    <3>2. /\ "Write" \in pending /\ "Write" \notin pending'
          /\ "Read" \in pending' <=> "Read" \in pending
      BY <1>2, <2>2
    <3> QED
      BY <1>1, <3>1, <3>2, UnderWays
  <2> QED
    BY <1>3, <2>1, <2>2
<1>9. ReaderSound' /\ WriterSound'
  BY <1>0, <1>2, <1>8
  DEF ReaderSound, ReaderArmed, WriterSound, WriterArmed, binding, life, incoming, outgoing
<1>10. NoLostWakeup' /\ NoAssertFails'
  BY <1>0, <1>2, WakeFrame DEF NoAssertFails, outgoing, incoming, life
<1> QED
  BY <1>0, <1>5, <1>6, <1>7, <1>9, <1>10 DEF Inv

-----------------------------------------------------------------------------
(* The calls of a datagram socket *)

\* A call starts on a socket that is not closed, and is not a bind under way.
LEMMA StartsFacts ==
  ASSUME Inv, NEW t \in Thread, Starts(t)
  PROVE  closed = FALSE /\ ~InBind(t) /\ hasFd
BY Types DEF Inv, CloseSound, Starts, InBind

\* A step that changes only the call of a thread, which sleeps only if it may.
LEMMA CallOnly ==
  ASSUME Inv, NEW t \in Thread, NEW c \in Call, Goes(t, c),
         ~InBind(t), c.at \notin {"bind", "sendtoBind"}, c.asleep => ~CanProceed(c),
         UNCHANGED <<binding, life, incoming, outgoing, tasks, pending, sends, aborted>>
  PROVE  Inv'
<1>0. /\ TypeOK /\ CloseSound /\ BindSound /\ ReaderSound
      /\ WriterSound /\ SendsSound /\ NoLostWakeup /\ NoAssertFails
  BY DEF Inv
<1>1. /\ call' \in [Thread -> Call] /\ call'[t] = c
      /\ \A u \in Thread : u # t => call'[u] = call[u]
  BY <1>0, Going
<1>2. TypeOK'
  BY <1>0, <1>1 DEF TypeOK, Call, binding, life, incoming, outgoing
<1>3. \A k : Posted(k)' = Posted(k)
  BY Keeps
<1>4. CloseSound' /\ ReaderSound' /\ WriterSound'
  BY <1>0, <1>3, CloseFrame, ReaderFrame, WriterFrame DEF binding, life
<1>5. BindSound' /\ SendsSound'
  <2>1. SameBinds
    BY <1>1 DEF SameBinds
  <2> QED
    BY <1>0, <2>1, BindFrame, Types DEF binding, outgoing
<1>6. NoLostWakeup'
  <2>1. CanProceed(call[t])' => CanProceed(c)
    BY <1>1 DEF CanProceed, IsSelectReadReady, incoming, outgoing, life
  <2>2. \A u \in Thread : call'[u].asleep => call'[u] = call[u] \/ ~CanProceed(call[u])'
    BY <1>1, <2>1
  <2> QED
    BY <1>0, <2>2, WakeFrame DEF incoming, outgoing, life
<1>7. NoAssertFails'
  BY <1>0 DEF NoAssertFails, outgoing
<1> QED
  BY <1>0, <1>2, <1>4, <1>5, <1>6, <1>7 DEF Inv

\* The calls that only wait: poll, close, and the blocked sendto.
LEMMA Waits ==
  ASSUME Inv, Running, NEW t \in Thread,
         Poll(t) \/ PollResume(t) \/ CloseResume(t) \/ SendtoResume(t)
  PROVE  Inv'
<1>0. UNCHANGED <<binding, life, incoming, outgoing, tasks, pending, sends, aborted>>
  BY DEF Poll, PollResume, CloseResume, SendtoResume
<1>1. CASE Poll(t)
  <2>1. ~InBind(t) /\ Goes(t, Waiting("poll")) /\ ~CanProceed(Waiting("poll"))
    BY <1>1, StartsFacts, CallKinds DEF Poll, CanProceed, IsSelectReadReady
  <2> QED
    BY <1>0, <2>1, CallOnly, CallKinds
<1>2. CASE PollResume(t)
  <2>1. ~InBind(t)
    BY <1>2 DEF PollResume, Resumes, TimesOut, InBind
  <2>2. \/ Goes(t, Idle)
        \/ ~IsSelectReadReady /\ Goes(t, Waiting("poll"))
    BY <1>2 DEF PollResume
  <2>3. ~IsSelectReadReady => ~CanProceed(Waiting("poll"))
    BY CallKinds DEF CanProceed, IsSelectReadReady
  <2> QED
    BY <1>0, <2>1, <2>2, <2>3, CallOnly, CallKinds
<1>3. CASE CloseResume(t)
  <2>1. ~InBind(t)
    BY <1>3 DEF CloseResume, Resumes, InBind
  <2>2. \/ Goes(t, Idle)
        \/ ~closed /\ Goes(t, Waiting("close"))
    BY <1>3 DEF CloseResume
  <2>3. ~closed => ~CanProceed(Waiting("close"))
    BY CallKinds DEF CanProceed
  <2> QED
    BY <1>0, <2>1, <2>2, <2>3, CallOnly, CallKinds
<1>4. CASE SendtoResume(t)
  <2>1. ~InBind(t)
    BY <1>4 DEF SendtoResume, Resumes, InBind
  <2>2. \/ Goes(t, Idle)
        \/ ~closed /\ outQueue # 0 /\ Goes(t, Waiting("sendto"))
    BY <1>4 DEF SendtoResume
  <2>3. ~closed /\ outQueue # 0 => ~CanProceed(Waiting("sendto"))
    BY CallKinds DEF CanProceed
  <2> QED
    BY <1>0, <2>1, <2>2, <2>3, CallOnly, CallKinds
<1> QED
  BY <1>1, <1>2, <1>3, <1>4

\* connect changes only whose messages are dropped.
LEMMA ConnectInv ==
  ASSUME Inv, Running, NEW t \in Thread, Connect(t)
  PROVE  Inv'
<1>0. /\ TypeOK /\ CloseSound /\ BindSound /\ ReaderSound
      /\ WriterSound /\ SendsSound /\ NoLostWakeup /\ NoAssertFails
  BY DEF Inv
<1>1. /\ connected' \in BOOLEAN
      /\ UNCHANGED <<state, bound, life, incoming, outgoing, tasks, pending, call, sends, aborted>>
  BY DEF Connect
<1>2. TypeOK'
  BY <1>0, <1>1 DEF TypeOK, life, incoming, outgoing
<1>3. \A k : Posted(k)' = Posted(k)
  BY <1>1, Keeps
<1>4. CloseSound' /\ ReaderSound' /\ WriterSound'
  BY <1>0, <1>1, <1>3, CloseFrame, ReaderFrame, WriterFrame DEF life
<1>5. BindSound' /\ SendsSound'
  BY <1>0, <1>1, SameCalls, BindFrame, Types DEF outgoing
<1>6. NoLostWakeup' /\ NoAssertFails'
  BY <1>0, <1>1, WakeFrame DEF NoAssertFails, outgoing, incoming, life
<1> QED
  BY <1>0, <1>2, <1>4, <1>5, <1>6 DEF Inv

\* The last descriptor goes and Close is posted.
LEMMA CloseFdInv ==
  ASSUME Inv, Running, NEW t \in Thread, CloseFd(t)
  PROVE  Inv'
<1>0. /\ TypeOK /\ CloseSound /\ BindSound /\ ReaderSound
      /\ WriterSound /\ SendsSound /\ NoLostWakeup /\ NoAssertFails
  BY DEF Inv
<1>1. closed = FALSE /\ ~InBind(t) /\ \A k : Posted(k) \in Nat
  BY <1>0, StartsFacts, Types DEF CloseFd
<1>2. /\ hasFd' = FALSE /\ tasks' = Append(tasks, "Close") /\ Goes(t, Waiting("close"))
      /\ UNCHANGED <<binding, closed, incoming, outgoing, pending, sends, aborted>>
  BY DEF CloseFd
<1>3. tasks' \in Seq(Task) /\ \A k : Posted(k)' = Posted(k) + (IF k = "Close" THEN 1 ELSE 0)
  <2>1. "Close" \in Task
    BY DEF Task
  <2> QED
    BY <1>0, <1>2, <2>1, Posts
<1>4. /\ call' \in [Thread -> Call] /\ call'[t] = Waiting("close")
      /\ \A u \in Thread : u # t => call'[u] = call[u]
  BY <1>0, <1>2, Going, CallKinds
<1>5. TypeOK'
  BY <1>0, <1>2, <1>3, <1>4 DEF TypeOK, Task, Call, binding, incoming, outgoing
<1>6. CloseSound'
  BY <1>1, <1>2 DEF CloseSound
<1>7. BindSound' /\ SendsSound'
  <2>1. SameBinds
    BY <1>1, <1>4, CallKinds DEF SameBinds
  <2> QED
    BY <1>0, <1>2, <2>1, BindFrame, Types DEF binding, outgoing
<1>8. ReaderSound' /\ WriterSound'
  <2>1. /\ Posted("Read")' = Posted("Read") /\ Posted("OnRead")' = Posted("OnRead")
        /\ Posted("Write")' = Posted("Write") /\ Posted("OnWrite")' = Posted("OnWrite")
    BY <1>1, <1>3
  <2> QED
    BY <1>0, <1>2, <2>1, ReaderFrame, WriterFrame DEF binding
<1>9. NoLostWakeup'
  <2>1. ~CanProceed(call[t])'
    BY <1>1, <1>2, <1>4, CallKinds DEF CanProceed
  <2> QED
    BY <1>0, <1>2, <1>4, <2>1, WakeFrame DEF incoming, outgoing
<1>10. NoAssertFails'
  BY <1>0, <1>2 DEF NoAssertFails, outgoing
<1> QED
  BY <1>0, <1>5, <1>6, <1>7, <1>8, <1>9, <1>10 DEF Inv

-----------------------------------------------------------------------------
(* bind, sendto and recvfrom *)

\* The queue after at most one task is posted.
LEMMA Appended ==
  ASSUME NEW s \in Seq(Task), NEW x \in Task
  PROVE  /\ s \o << >> = s /\ s \o <<x>> \in Seq(Task)
         /\ \A k : Count(s \o <<x>>, k) = Count(s, k) + (IF k = x THEN 1 ELSE 0)
<1>2. /\ s \in Seq(Task) /\ x \in Task /\ s \o << >> = s
      /\ s \o <<x>> = Append(s, x) /\ s \o <<x>> \in Seq(Task)
  OBVIOUS
<1>3. ASSUME NEW k
      PROVE  Count(Append(s, x), k) = Count(s, k) + (IF k = x THEN 1 ELSE 0)
  BY <1>2, CountAppend
<1> QED
  BY <1>2, <1>3

\* The Read that PostReadTaskLocked posts, or does not.
LEMMA ReadTaskInv ==
  ASSUME TypeOK, NEW n
  PROVE  /\ tasks \o ReadTask(n) \in Seq(Task)
         /\ \A k : Count(tasks \o ReadTask(n), k) =
                     Posted(k) + (IF k = "Read" /\ WantsRead(readSent, n) THEN 1 ELSE 0)
<1>1. tasks \in Seq(Task) /\ "Read" \in Task /\ \A k : Posted(k) \in Nat
  BY Types DEF Task, Operations
<1>2. \A k : Posted(k) = Count(tasks, k)
  BY PostedCount
<1>3. CASE WantsRead(readSent, n)
  <2>1. tasks \o ReadTask(n) = tasks \o <<"Read">>
    BY <1>3 DEF ReadTask
  <2>2. /\ tasks \o <<"Read">> \in Seq(Task)
        /\ \A k : Count(tasks \o <<"Read">>, k) = Count(tasks, k) + (IF k = "Read" THEN 1 ELSE 0)
    BY <1>1, Appended
  <2> QED
    BY <1>2, <1>3, <2>1, <2>2
<1>4. CASE ~WantsRead(readSent, n)
  <2>1. tasks \o ReadTask(n) = tasks \o << >>
    BY <1>4 DEF ReadTask
  <2>2. tasks \o << >> = tasks
    BY <1>1
  <2> QED
    BY <1>1, <1>2, <1>4, <2>1, <2>2
<1> QED
  BY <1>3, <1>4

\* A bind begins: the socket was NEW, nobody binds it and nothing is posted but
\* what was sent too early.
LEMMA StartBindInv ==
  ASSUME Inv, NEW t \in Thread, Starts(t), NEW w \in {"bind", "sendtoBind"},
         StartBind(t, w),
         \/ w = "bind" /\ sends' = sends
         \/ w = "sendtoBind" /\ sends < MaxSends /\ sends' = sends + 1
  PROVE  Inv'
<1>0. /\ TypeOK /\ CloseSound /\ BindSound /\ ReaderSound
      /\ WriterSound /\ SendsSound /\ NoLostWakeup /\ NoAssertFails
  BY DEF Inv
<1> DEFINE c == [Idle EXCEPT !.at = w]
<1>1. c \in Call /\ c.at = w /\ c.asleep = FALSE /\ c.result = "none"
  BY CallKinds
<1>2. /\ state = "NEW" /\ state' = "BINDING" /\ Goes(t, c)
      /\ UNCHANGED <<bound, connected, life, incoming, outgoing, tasks, pending, aborted>>
  BY DEF StartBind
<1> HIDE DEF c
<1>3. /\ call' \in [Thread -> Call] /\ call'[t] = c
      /\ \A u \in Thread : u # t => call'[u] = call[u]
  BY <1>0, <1>1, <1>2, Going
<1>4. sends \in Nat /\ sends' \in 0 .. MaxSends /\ sends <= sends' /\ outQueue \in Nat
  BY <1>0, ConstantsAssumption DEF TypeOK
<1>5. TypeOK'
  BY <1>0, <1>2, <1>3, <1>4 DEF TypeOK, Call, life, incoming, outgoing
<1>6. \A k : Posted(k)' = Posted(k)
  BY <1>2, Keeps
<1>7. CloseSound'
  BY <1>0, <1>2, <1>6, CloseFrame
<1>8. \A u \in Thread : ~InBind(u)
  BY <1>0, <1>2 DEF BindSound
<1>9. BindSound'
  <2>1. \A u \in Thread : InBind(u)' => u = t
    BY <1>3, <1>8 DEF InBind
  <2> QED
    BY <1>1, <1>2, <1>3, <2>1 DEF BindSound
<1>10. SendsSound'
  <2>1. \A u \in Thread : u # t => call'[u].at # "sendtoBind"
    BY <1>3, <1>8 DEF InBind
  <2> QED
    BY <1>0, <1>1, <1>2, <1>3, <1>4, <2>1 DEF SendsSound, outgoing
<1>11. UnderWay("Read")' = UnderWay("Read") /\ UnderWay("Write")' = UnderWay("Write")
  BY <1>2, <1>6, UnderWays
<1>12. ReaderSound' /\ WriterSound'
  BY <1>0, <1>2, <1>11
  DEF ReaderSound, ReaderArmed, WriterSound, WriterArmed, life, incoming, outgoing
<1>13. NoLostWakeup'
  BY <1>0, <1>1, <1>2, <1>3, WakeFrame DEF incoming, outgoing, life
<1>14. NoAssertFails'
  BY <1>0, <1>2 DEF NoAssertFails, outgoing
<1> QED
  BY <1>0, <1>5, <1>7, <1>9, <1>10, <1>12, <1>13, <1>14 DEF Inv

\* bind() of a thread.
LEMMA BindInv ==
  ASSUME Inv, Running, NEW t \in Thread, Bind(t)
  PROVE  Inv'
BY StartBindInv DEF Bind

\* Pepper answers: the socket is bound before the thread that binds it knows.
LEMMA PepperBindsInv ==
  ASSUME Inv, Running, NEW t \in Thread, PepperBinds(t)
  PROVE  Inv'
<1>0. /\ TypeOK /\ CloseSound /\ BindSound /\ ReaderSound
      /\ WriterSound /\ SendsSound /\ NoLostWakeup /\ NoAssertFails
  BY DEF Inv
<1>1. PICK c \in {[call[t] EXCEPT !.result = "ok"], [call[t] EXCEPT !.result = "error"]} :
        /\ Goes(t, c)
        /\ \/ bound' = TRUE
           \/ c = [call[t] EXCEPT !.result = "error"] /\ bound' = bound
  BY DEF PepperBinds
<1>2. UNCHANGED <<state, connected, life, incoming, outgoing, tasks, pending, sends, aborted>>
  BY DEF PepperBinds
<1>3. call \in [Thread -> Call] /\ bound \in BOOLEAN
  BY <1>0, Types
<1>4. /\ c \in Call /\ c.at = call[t].at /\ c.asleep = call[t].asleep
      /\ c.result = "ok" => bound' = TRUE
  BY <1>1, <1>3 DEF Call
<1>5. /\ call' \in [Thread -> Call] /\ call'[t] = c
      /\ \A u \in Thread : u # t => call'[u] = call[u]
  BY <1>0, <1>1, <1>4, Going
<1>6. bound' \in BOOLEAN /\ (bound => bound')
  BY <1>1, <1>3
<1>7. TypeOK'
  BY <1>0, <1>2, <1>5, <1>6 DEF TypeOK, Call, life, incoming, outgoing
<1>8. \A k : Posted(k)' = Posted(k)
  BY <1>2, Keeps
<1>9. CloseSound' /\ ReaderSound' /\ WriterSound'
  BY <1>0, <1>2, <1>8, CloseFrame, ReaderFrame, WriterFrame DEF life
<1>10. \A u \in Thread : call'[u].at = call[u].at /\ call'[u].asleep = call[u].asleep
  BY <1>4, <1>5
<1>11. BindSound'
  <2>1. \A u \in Thread : InBind(u)' <=> InBind(u)
    BY <1>10 DEF InBind
  <2>2. \A u \in Thread : InBind(u) /\ call'[u].result = "ok" => bound'
    BY <1>0, <1>4, <1>5, <1>6 DEF BindSound
  <2> QED
    BY <1>0, <1>2, <1>6, <2>1, <2>2 DEF BindSound
<1>12. SendsSound'
  BY <1>0, <1>2, <1>10 DEF SendsSound, outgoing
<1>13. NoLostWakeup'
  BY <1>0, <1>2, <1>10
  DEF NoLostWakeup, CanProceed, IsSelectReadReady, incoming, outgoing, life
<1>14. NoAssertFails'
  BY <1>0, <1>2 DEF NoAssertFails, outgoing
<1> QED
  BY <1>0, <1>7, <1>9, <1>11, <1>12, <1>13, <1>14 DEF Inv

\* A message is received or peeked at, and the next read is posted if there is room.
LEMMA FinishRecvfromInv ==
  ASSUME Inv, NEW t \in Thread, FinishRecvfrom(t), closed = FALSE, ~InBind(t),
         UNCHANGED <<binding, life, outgoing, pending, sends, aborted>>
  PROVE  Inv'
<1>0. /\ TypeOK /\ CloseSound /\ BindSound /\ ReaderSound
      /\ WriterSound /\ SendsSound /\ NoLostWakeup /\ NoAssertFails
  BY DEF Inv
<1>1. CASE inQueue = 0 /\ UNCHANGED <<inQueue, readSent, tasks>>
  <2>1. Goes(t, Idle) /\ UNCHANGED incoming
    BY <1>1 DEF FinishRecvfrom, incoming
  <2> QED
    BY <1>1, <2>1, CallOnly, CallKinds
<1>2. CASE /\ inQueue > 0
           /\ inQueue' \in {inQueue, inQueue - 1}
           /\ tasks' = tasks \o ReadTask(inQueue')
           /\ readSent' = (readSent \/ WantsRead(readSent, inQueue'))
  <2> DEFINE wants == WantsRead(readSent, inQueue')
  <2>0. Goes(t, Idle) /\ UNCHANGED deaf
    BY DEF FinishRecvfrom
  <2>1. /\ call' \in [Thread -> Call] /\ call'[t] = Idle
        /\ \A u \in Thread : u # t => call'[u] = call[u]
    BY <1>0, <2>0, Going, CallKinds
  <2>2. tasks' \in Seq(Task) /\ \A k : Posted(k)' =
                                     Posted(k) + (IF k = "Read" /\ wants THEN 1 ELSE 0)
    <3>1. \A k : Posted(k)' = Count(tasks', k)
      BY PostedCount
    <3> QED
      BY <1>0, <1>2, <3>1, ReadTaskInv
  <2>3. /\ inQueue' \in 0 .. QueueSize /\ inQueue' <= inQueue /\ inQueue \in 0 .. QueueSize
        /\ QueueSize \in Nat /\ state = "BOUND" /\ readSent \in BOOLEAN
    BY <1>0, <1>2, Types, ConstantsAssumption DEF TypeOK, ReaderSound
  <2>4. readSent' \in BOOLEAN /\ (wants <=> readSent = FALSE /\ inQueue' < QueueSize)
    BY <1>2, <2>3 DEF WantsRead
  <2>5. TypeOK'
    BY <1>0, <2>0, <2>1, <2>2, <2>3, <2>4 DEF TypeOK, Task, Call, binding, life, outgoing
  <2>6. /\ Posted("Close")' = Posted("Close") /\ Posted("Write")' = Posted("Write")
        /\ Posted("OnWrite")' = Posted("OnWrite") /\ Posted("OnRead")' = Posted("OnRead")
        /\ Posted("Read")' = Posted("Read") + (IF wants THEN 1 ELSE 0)
        /\ \A k : Posted(k) \in Nat
    BY <1>0, <2>2, Types
  <2>7. CloseSound' /\ WriterSound'
    BY <1>0, <2>6, CloseFrame, WriterFrame DEF binding, life
  <2>8. BindSound' /\ SendsSound'
    <3>1. SameBinds
      BY <2>1, CallKinds DEF SameBinds
    <3> QED
      BY <1>0, <3>1, BindFrame, Types DEF binding, outgoing
  <2>9. ReaderSound'
    <3>1. CASE wants
      <4>1. readSent = FALSE /\ readSent' = TRUE /\ inQueue' < QueueSize
        BY <1>2, <2>4, <3>1
      <4>2. UnderWay("Read") = 0
        BY <1>0, <4>1 DEF ReaderSound, ReaderArmed
      <4>3. UnderWay("Read")' = 1
        BY <2>6, <3>1, <4>2, UnderWays
      <4> QED
        BY <2>3, <4>1, <4>3 DEF ReaderSound, ReaderArmed, binding
    <3>2. CASE ~wants
      <4>1. readSent' = readSent /\ (readSent = TRUE \/ ~(inQueue' < QueueSize))
        BY <1>2, <2>3, <2>4, <3>2
      <4>2. UnderWay("Read")' = UnderWay("Read")
        BY <2>6, <3>2, UnderWays
      <4> QED
        BY <1>0, <2>0, <2>3, <4>1, <4>2 DEF ReaderSound, ReaderArmed, binding, life
    <3> QED
      BY <3>1, <3>2
  <2>10. NoLostWakeup'
    BY <1>0, <1>2, <2>1, WakeFrame, CallKinds DEF outgoing, life
  <2>11. NoAssertFails'
    BY <1>0 DEF NoAssertFails, outgoing
  <2> QED
    BY <1>0, <2>5, <2>7, <2>8, <2>9, <2>10, <2>11 DEF Inv
<1> QED
  BY <1>1, <1>2 DEF FinishRecvfrom

\* recvfrom waits for a message only when there is none.
LEMMA RecvfromRoundInv ==
  ASSUME Inv, NEW t \in Thread, RecvfromRound(t), closed = FALSE, ~InBind(t),
         UNCHANGED <<binding, life, outgoing, pending, sends, aborted>>
  PROVE  Inv'
<1>1. CASE inQueue > 0
  BY <1>1, FinishRecvfromInv DEF RecvfromRound
<1>2. CASE ~(inQueue > 0)
  <2>1. Goes(t, Waiting("recvfrom")) /\ UNCHANGED <<incoming, tasks>>
    BY <1>2 DEF RecvfromRound
  <2>2. ~CanProceed(Waiting("recvfrom"))
    BY <1>2, CallKinds DEF CanProceed, IsSelectReadReady
  <2> QED
    BY <2>1, <2>2, CallOnly, CallKinds
<1> QED
  BY <1>1, <1>2

\* recvfrom(), before and after it has waited.
LEMMA RecvfromInv ==
  ASSUME Inv, Running, NEW t \in Thread, Recvfrom(t) \/ RecvfromResume(t)
  PROVE  Inv'
<1>0. UNCHANGED <<binding, life, outgoing, pending, sends, aborted>> /\ closed \in BOOLEAN
  BY Types DEF Recvfrom, RecvfromResume, Inv
<1>1. CASE Recvfrom(t)
  BY <1>0, <1>1, StartsFacts, RecvfromRoundInv DEF Recvfrom
<1>2. CASE RecvfromResume(t)
  <2>1. ~InBind(t)
    BY <1>2 DEF RecvfromResume, Resumes, TimesOut, InBind
  <2>2. CASE closed /\ Goes(t, Idle) /\ UNCHANGED <<incoming, tasks>>
    BY <1>0, <2>1, <2>2, CallOnly, CallKinds
  <2>3. CASE ~closed /\ RecvfromRound(t)
    BY <1>0, <2>1, <2>3, RecvfromRoundInv
  <2>4. CASE ~closed /\ FinishRecvfrom(t)
    BY <1>0, <2>1, <2>4, FinishRecvfromInv
  <2> QED
    BY <1>2, <2>2, <2>3, <2>4 DEF RecvfromResume, TimesOut
<1> QED
  BY <1>1, <1>2

\* The Write that PostWriteTaskLocked posts, or does not.
LEMMA WriteTaskInv ==
  ASSUME TypeOK, NEW s \in Seq(Task), tasks' = s \o (IF writeSent THEN << >> ELSE <<"Write">>)
  PROVE  /\ tasks' \in Seq(Task)
         /\ \A k : k # "Write" => Posted(k)' = Count(s, k)
         /\ writeSent => Posted("Write")' = Count(s, "Write")
         /\ ~writeSent => Posted("Write")' = Count(s, "Write") + 1
<1>0. "Write" \in Task /\ writeSent \in BOOLEAN /\ \A k : Count(s, k) \in Nat
  <2>1. Task \subseteq Task
    BY DEF Task, Operations
  <2>2. s \in Seq(Task)
    BY <2>1
  <2> QED
    BY <2>2, CountType, Types DEF Task, Operations
<1>1. \A k : Posted(k)' = Count(tasks', k)
  BY PostedCount
<1>2. CASE writeSent
  <2>1. tasks' = s
    BY <1>0, <1>2, Appended
  <2> QED
    BY <1>1, <1>2, <2>1
<1>3. CASE ~writeSent
  <2>1. tasks' = s \o <<"Write">>
    BY <1>3
  <2>2. /\ s \o <<"Write">> \in Seq(Task)
        /\ \A k : Count(s \o <<"Write">>, k) = Count(s, k) + (IF k = "Write" THEN 1 ELSE 0)
    BY <1>0, Appended
  <2> QED
    BY <1>0, <1>1, <1>3, <2>1, <2>2
<1> QED
  BY <1>2, <1>3

\* A queued message has its write: the one under way, or one that is posted.
LEMMA EnqueueInv ==
  ASSUME Inv, NEW t \in Thread, NEW others \in [Thread -> Call], NEW s \in Seq(Task),
         Enqueue(t, others, s), closed = FALSE, UNCHANGED <<closed, pending>>,
         Count(s, "Write") = Posted("Write"), Count(s, "OnWrite") = Posted("OnWrite"),
         \/ state' = "BOUND"
         \/ state' = state /\ state # "NEW" /\ ~InBind(t)
  PROVE  /\ tasks' \in Seq(Task) /\ \A k : k # "Write" => Posted(k)' = Count(s, k)
         /\ outQueue' = outQueue + 1 /\ writeSent' = TRUE /\ early' \in BOOLEAN
         /\ early => early'
         /\ WriterSound'
         /\ call' \in [Thread -> Call] /\ call'[t] \in {Waiting("sendto"), Idle}
         /\ \A u \in Thread : u # t => call'[u] = others[u]
<1>0. TypeOK /\ WriterSound
  BY DEF Inv
<1>1. /\ outQueue' = outQueue + 1
      /\ tasks' = s \o (IF writeSent THEN << >> ELSE <<"Write">>)
      /\ writeSent' = TRUE
      /\ early' = (early \/ (state = "BINDING" /\ ~InBind(t)))
      /\ \/ call' = [others EXCEPT ![t] = Waiting("sendto")]
         \/ call' = [others EXCEPT ![t] = Idle]
  BY DEF Enqueue
<1>2. /\ outQueue \in Nat /\ early \in BOOLEAN /\ writeSent \in BOOLEAN
      /\ Posted("Write") \in Nat /\ Posted("OnWrite") \in Nat
      /\ state \in {"NEW", "BINDING", "BOUND"}
  BY <1>0, Types DEF TypeOK
<1>3. early' \in BOOLEAN /\ (early => early')
  BY <1>1, <1>2
<1>4. /\ tasks' \in Seq(Task) /\ \A k : k # "Write" => Posted(k)' = Count(s, k)
      /\ writeSent => Posted("Write")' = Count(s, "Write")
      /\ ~writeSent => Posted("Write")' = Count(s, "Write") + 1
  BY <1>0, <1>1, WriteTaskInv
<1>5. UnderWay("Write")' = 1
  <2>1. Posted("OnWrite")' = Posted("OnWrite")
    BY <1>4
  <2>2. UnderWay("Write") = IF writeSent THEN 1 ELSE 0
    BY <1>0 DEF WriterSound, WriterArmed
  <2>3. CASE writeSent
    BY <1>2, <1>4, <2>1, <2>2, <2>3, UnderWays
  <2>4. CASE ~writeSent
    BY <1>2, <1>4, <2>1, <2>2, <2>4, UnderWays
  <2> QED
    BY <1>2, <2>3, <2>4
<1>6. ~early' => state' = "BOUND"
  BY <1>1, <1>2
<1>7. WriterSound'
  BY <1>1, <1>2, <1>5, <1>6 DEF WriterSound, WriterArmed
<1>8. /\ call' \in [Thread -> Call] /\ call'[t] \in {Waiting("sendto"), Idle}
      /\ \A u \in Thread : u # t => call'[u] = others[u]
  BY <1>1, CallKinds
<1> QED
  BY <1>1, <1>3, <1>4, <1>7, <1>8

\* sendto: the bind comes first, or the message is queued.
LEMMA SendtoInv ==
  ASSUME Inv, Running, NEW t \in Thread, Sendto(t)
  PROVE  Inv'
<1>0. /\ TypeOK /\ CloseSound /\ BindSound /\ ReaderSound
      /\ WriterSound /\ SendsSound /\ NoLostWakeup /\ NoAssertFails
  BY DEF Inv
<1>1. Starts(t) /\ sends < MaxSends /\ sends' = sends + 1
  BY DEF Sendto
<1>2. CASE NeedsBind /\ StartBind(t, "sendtoBind")
  BY <1>1, <1>2, StartBindInv
<1>3. CASE /\ ~NeedsBind
           /\ Enqueue(t, call, tasks)
           /\ UNCHANGED <<binding, life, incoming, pending, aborted>>
  <2>1. /\ closed = FALSE /\ ~InBind(t) /\ state # "NEW" /\ UNCHANGED <<state, bound, closed>>
        /\ call \in [Thread -> Call] /\ tasks \in Seq(Task)
        /\ \A k : Posted(k) = Count(tasks, k)
    BY <1>0, <1>1, <1>3, StartsFacts, Types, PostedCount
    DEF NeedsBind, binding, life
  <2>2. /\ tasks' \in Seq(Task) /\ \A k : k # "Write" => Posted(k)' = Count(tasks, k)
        /\ outQueue' = outQueue + 1 /\ writeSent' = TRUE /\ early' \in BOOLEAN
        /\ early => early'
        /\ WriterSound'
        /\ call' \in [Thread -> Call] /\ call'[t] \in {Waiting("sendto"), Idle}
        /\ \A u \in Thread : u # t => call'[u] = call[u]
    BY <1>3, <2>1, EnqueueInv
  <2>3. /\ outQueue' \in 0 .. MaxSends /\ sends' \in 0 .. MaxSends /\ outQueue' <= sends'
        /\ outQueue' > 0 /\ outQueue < sends => outQueue' < sends'
        /\ outQueue \in Nat /\ sends \in Nat /\ outQueue' > 0
    BY <1>0, <1>1, <2>2, ConstantsAssumption DEF TypeOK, SendsSound
  <2>4. TypeOK'
    BY <1>0, <1>3, <2>2, <2>3 DEF TypeOK, Task, Call, binding, life, incoming
  <2>5. CloseSound' /\ ReaderSound'
    BY <1>0, <1>3, <2>1, <2>2, CloseFrame, ReaderFrame
  <2>6. BindSound' /\ SendsSound'
    <3>1. call'[t].at \notin {"bind", "sendtoBind"}
      BY <2>2, CallKinds
    <3>2. \A u \in Thread : InBind(u)' => InBind(u) /\ call'[u] = call[u]
      BY <2>2, <3>1 DEF InBind
    <3>3. BindSound'
      BY <1>0, <2>1, <3>2 DEF BindSound
    <3>4. SendsSound'
      BY <1>0, <2>2, <2>3, <3>1 DEF SendsSound
    <3> QED
      BY <3>3, <3>4
  <2>7. NoLostWakeup'
    <3>1. ~CanProceed(call[t])' \/ call'[t].asleep = FALSE
      BY <2>1, <2>2, <2>3, CallKinds DEF CanProceed
    <3>2. UNCHANGED inQueue
      BY <1>3 DEF incoming
    <3> QED
      BY <1>0, <2>1, <2>2, <2>3, <3>1, <3>2, WakeFrame
  <2>8. NoAssertFails'
    BY <1>0, <1>3, <2>2 DEF NoAssertFails
  <2> QED
    BY <1>0, <2>2, <2>4, <2>5, <2>6, <2>7, <2>8 DEF Inv
<1> QED
  BY <1>2, <1>3 DEF Sendto

\* A bind that failed, or that finds the socket closed.
LEMMA BindFails ==
  ASSUME Inv, NEW t \in Thread, InBind(t), Goes(t, Idle),
         \/ closed /\ UNCHANGED state
         \/ ~closed /\ state' = "NEW",
         UNCHANGED <<bound, connected, life, incoming, outgoing, tasks, pending, sends, aborted>>
  PROVE  Inv'
<1>0. /\ TypeOK /\ CloseSound /\ BindSound /\ ReaderSound
      /\ WriterSound /\ SendsSound /\ NoLostWakeup /\ NoAssertFails
  BY DEF Inv
<1>1. /\ call' \in [Thread -> Call] /\ call'[t] = Idle
      /\ \A u \in Thread : u # t => call'[u] = call[u]
  BY <1>0, Going, CallKinds
<1>2. state = "BINDING" /\ state' \in {"NEW", "BINDING"}
  BY <1>0 DEF BindSound
<1>3. TypeOK'
  BY <1>0, <1>1, <1>2 DEF TypeOK, Call, life, incoming, outgoing
<1>4. \A k : Posted(k)' = Posted(k)
  BY Keeps
<1>5. CloseSound'
  BY <1>0, <1>4, CloseFrame
<1>6. \A u \in Thread : ~InBind(u)'
  <2>1. ~InBind(t)'
    BY <1>1, CallKinds DEF InBind
  <2>2. \A u \in Thread : u # t => ~InBind(u)
    BY <1>0 DEF BindSound
  <2> QED
    BY <1>1, <2>1, <2>2 DEF InBind
<1>7. BindSound' /\ SendsSound'
  BY <1>0, <1>2, <1>6 DEF BindSound, SendsSound, InBind, outgoing
<1>8. UnderWay("Read")' = UnderWay("Read") /\ UnderWay("Write")' = UnderWay("Write")
  BY <1>4, UnderWays
<1>9. ReaderSound' /\ WriterSound'
  BY <1>0, <1>2, <1>8
  DEF ReaderSound, ReaderArmed, WriterSound, WriterArmed, life, incoming, outgoing
<1>10. NoLostWakeup'
  BY <1>0, <1>1, WakeFrame, CallKinds DEF incoming, outgoing, life
<1>11. NoAssertFails'
  BY <1>0 DEF NoAssertFails, outgoing
<1> QED
  BY <1>0, <1>3, <1>5, <1>7, <1>9, <1>10, <1>11 DEF Inv

\* A bind that succeeded: the first read is posted, then the message of a sendto.
LEMMA BindSucceeds ==
  ASSUME Inv, NEW t \in Thread, InBind(t), closed = FALSE, call[t].result = "ok",
         state' = "BOUND", readSent' = (readSent \/ WantsRead(readSent, inQueue)),
         IF call[t].at = "sendtoBind"
           THEN Enqueue(t, Broadcast, tasks \o ReadTask(inQueue))
           ELSE /\ tasks' = tasks \o ReadTask(inQueue)
                /\ call' = [Broadcast EXCEPT ![t] = Idle]
                /\ UNCHANGED outgoing,
         UNCHANGED <<bound, connected, life, inQueue, deaf, pending, sends, aborted>>
  PROVE  Inv'
<1>0. /\ TypeOK /\ CloseSound /\ BindSound /\ ReaderSound
      /\ WriterSound /\ SendsSound /\ NoLostWakeup /\ NoAssertFails
  BY DEF Inv
<1> DEFINE s == tasks \o ReadTask(inQueue)
           wants == WantsRead(readSent, inQueue)
<1>1. state = "BINDING" /\ bound = TRUE /\ \A u \in Thread : u # t => ~InBind(u)
  BY <1>0, Types DEF BindSound
<1>2. readSent = FALSE /\ inQueue = 0 /\ QueueSize > 0
  BY <1>0, <1>1, Types, ConstantsAssumption DEF ReaderSound
<1>3. wants /\ readSent' = TRUE
  BY <1>2 DEF WantsRead
<1>4. /\ s \in Seq(Task) /\ Count(s, "Read") = Posted("Read") + 1
      /\ \A k : k # "Read" => Count(s, k) = Posted(k)
  BY <1>0, <1>3, ReadTaskInv, Types
<1>5. /\ Broadcast \in [Thread -> Call]
      /\ \A u \in Thread : Broadcast[u].at = call[u].at /\ Broadcast[u].asleep = FALSE
  BY <1>0, Woken
<1>6. UNCHANGED <<closed, hasFd>>
  BY DEF life
<1> HIDE DEF s, wants
<1>7. /\ tasks' \in Seq(Task) /\ \A k : k # "Write" => Posted(k)' = Count(s, k)
      /\ outQueue' \in 0 .. MaxSends /\ outQueue' <= sends
      /\ writeSent' \in BOOLEAN /\ early' \in BOOLEAN /\ (early => early')
      /\ WriterSound'
      /\ call' \in [Thread -> Call] /\ call'[t] \in {Waiting("sendto"), Idle}
      /\ call'[t] = Waiting("sendto") => outQueue' # 0
      /\ \A u \in Thread : u # t => call'[u] = Broadcast[u]
  <2>1. CASE call[t].at = "sendtoBind"
    <3>1. Enqueue(t, Broadcast, s)
      BY <2>1 DEF s
    <3>2. Count(s, "Write") = Posted("Write") /\ Count(s, "OnWrite") = Posted("OnWrite")
      BY <1>4
    <3>3. /\ tasks' \in Seq(Task) /\ \A k : k # "Write" => Posted(k)' = Count(s, k)
          /\ outQueue' = outQueue + 1 /\ writeSent' = TRUE /\ early' \in BOOLEAN
          /\ early => early'
          /\ WriterSound'
          /\ call' \in [Thread -> Call] /\ call'[t] \in {Waiting("sendto"), Idle}
          /\ \A u \in Thread : u # t => call'[u] = Broadcast[u]
      BY <1>4, <1>5, <1>6, <3>1, <3>2, EnqueueInv
    <3>4. outQueue' \in 0 .. MaxSends /\ outQueue' <= sends /\ outQueue' # 0
      BY <1>0, <2>1, <3>3, ConstantsAssumption DEF SendsSound, TypeOK
    <3> QED
      BY <3>3, <3>4
  <2>2. CASE call[t].at # "sendtoBind"
    <3>1. tasks' = s /\ call' = [Broadcast EXCEPT ![t] = Idle] /\ UNCHANGED outgoing
      BY <2>2 DEF s
    <3>2. \A k : Posted(k)' = Count(s, k)
      BY <3>1, PostedCount
    <3>3. UNCHANGED <<outQueue, writeSent, early>>
      BY <3>1 DEF outgoing
    <3>4. WriterSound'
      <4>1. Posted("Write")' = Posted("Write") /\ Posted("OnWrite")' = Posted("OnWrite")
        BY <1>4, <3>2
      <4>2. UnderWay("Write")' = UnderWay("Write")
        BY <4>1, UnderWays
      <4> QED
        BY <1>0, <1>6, <3>3, <4>2 DEF WriterSound, WriterArmed
    <3>5. /\ call' \in [Thread -> Call] /\ call'[t] = Idle
          /\ \A u \in Thread : u # t => call'[u] = Broadcast[u]
      BY <1>5, <3>1, CallKinds
    <3>6. Idle # Waiting("sendto")
      BY CallKinds
    <3> QED
      BY <1>0, <1>4, <3>1, <3>2, <3>3, <3>4, <3>5, <3>6 DEF TypeOK, SendsSound
  <2> QED
    BY <2>1, <2>2
<1>8. TypeOK'
  BY <1>0, <1>3, <1>6, <1>7 DEF TypeOK, Task, Call
<1>9. CloseSound'
  BY <1>0, <1>4, <1>6, <1>7 DEF CloseSound
<1>10. \A u \in Thread : ~InBind(u)'
  <2>1. ~InBind(t)'
    BY <1>7, CallKinds DEF InBind
  <2> QED
    BY <1>1, <1>5, <1>7, <2>1 DEF InBind
<1>11. BindSound' /\ SendsSound'
  <2>1. \A u \in Thread : call'[u].at # "sendtoBind"
    BY <1>10 DEF InBind
  <2> QED
    BY <1>1, <1>7, <1>10, <2>1 DEF BindSound, SendsSound
<1>12. ReaderSound'
  <2>1. UnderWay("Read") = 0 /\ \A k : Posted(k) \in Nat
    BY <1>0, <1>2, Types DEF ReaderSound, ReaderArmed
  <2>2. Posted("Read")' = Posted("Read") + 1 /\ Posted("OnRead")' = Posted("OnRead")
    BY <1>4, <1>7
  <2>3. UnderWay("Read")' = 1
    BY <2>1, <2>2, UnderWays
  <2> QED
    BY <1>2, <1>3, <2>3 DEF ReaderSound, ReaderArmed
<1>13. NoLostWakeup'
  <2>1. \A u \in Thread : u # t => call'[u].asleep = FALSE
    BY <1>5, <1>7
  <2>2. call'[t].asleep => ~CanProceed(call[t])'
    BY <1>6, <1>7, CallKinds DEF CanProceed
  <2> QED
    BY <2>1, <2>2 DEF NoLostWakeup
<1>14. NoAssertFails'
  BY <1>0, <1>7 DEF NoAssertFails
<1> QED
  BY <1>0, <1>7, <1>8, <1>9, <1>11, <1>12, <1>13, <1>14 DEF Inv

\* A bind, or the bind of a sendto, that has its answer from Pepper.
LEMMA BindReturnInv ==
  ASSUME Inv, Running, NEW t \in Thread, BindReturn(t)
  PROVE  Inv'
<1>0. /\ closed \in BOOLEAN /\ InBind(t)
      /\ UNCHANGED <<bound, connected, life, inQueue, deaf, pending, sends, aborted>>
  BY Types DEF Inv, BindReturn
<1>1. CASE closed /\ Goes(t, Idle) /\ UNCHANGED <<state, readSent, outgoing, tasks>>
  <2>1. UNCHANGED incoming
    BY <1>0, <1>1 DEF incoming
  <2> QED
    BY <1>0, <1>1, <2>1, BindFails
<1>2. CASE /\ ~closed /\ call[t].result = "error"
           /\ state' = "NEW" /\ Goes(t, Idle) /\ UNCHANGED <<readSent, outgoing, tasks>>
  <2>1. UNCHANGED incoming
    BY <1>0, <1>2 DEF incoming
  <2> QED
    BY <1>0, <1>2, <2>1, BindFails
<1>3. CASE /\ ~closed /\ call[t].result = "ok"
           /\ state' = "BOUND"
           /\ readSent' = (readSent \/ WantsRead(readSent, inQueue))
           /\ IF call[t].at = "sendtoBind"
                THEN Enqueue(t, Broadcast, tasks \o ReadTask(inQueue))
                ELSE /\ tasks' = tasks \o ReadTask(inQueue)
                     /\ call' = [Broadcast EXCEPT ![t] = Idle]
                     /\ UNCHANGED outgoing
  BY <1>0, <1>3, BindSucceeds
<1> QED
  BY <1>1, <1>2, <1>3 DEF BindReturn

-----------------------------------------------------------------------------
(* The theorems on a datagram socket *)

\* A new socket satisfies the invariant.
LEMMA InitInv == Init => Inv
<1> SUFFICES ASSUME Init PROVE Inv
  OBVIOUS
<1>1. \A t \in Thread : call[t] = Idle
  BY DEF Init
<1>2. call \in [Thread -> Call] /\ tasks \in Seq(Task)
  BY CallKinds DEF Init
<1>3. TypeOK
  <2>1. QueueSize \in Nat /\ MaxSends \in Nat
    BY ConstantsAssumption
  <2>2. {bound, connected, hasFd, closed, readSent, writeSent, early, deaf} \subseteq BOOLEAN
    BY Zenon DEF Init
  <2>3. inQueue \in 0 .. QueueSize /\ outQueue \in 0 .. MaxSends /\ sends \in 0 .. MaxSends
    BY <2>1 DEF Init
  <2> QED
    BY <1>2, <2>2, <2>3 DEF Init, TypeOK, Call, Task
<1>4. \A k : Posted(k) = 0
  BY CountEmpty, PostedCount DEF Init
<1>5. UnderWay("Read") = 0 /\ UnderWay("Write") = 0
  BY <1>4, UnderWays DEF Init
<1>6. CloseSound /\ ReaderSound /\ WriterSound
  BY <1>4, <1>5
  DEF CloseSound, ReaderSound, ReaderArmed, WriterSound, WriterArmed, Init
<1>7. \A t \in Thread : ~InBind(t) /\ call[t].asleep = FALSE
  BY <1>1, CallKinds DEF InBind
<1>8. BindSound /\ SendsSound /\ NoLostWakeup /\ NoAssertFails
  BY <1>7 DEF BindSound, SendsSound, NoLostWakeup, NoAssertFails, InBind, Init
<1> QED
  BY <1>3, <1>6, <1>8 DEF Inv

\* Every step keeps the invariant.
LEMMA NextInv == Inv /\ [Next]_vars => Inv'
<1> SUFFICES ASSUME Inv, [Next]_vars PROVE Inv'
  OBVIOUS
<1>1. CASE UNCHANGED vars
  <2>1. UNCHANGED <<state, bound, connected, hasFd, closed, inQueue, readSent, deaf, outQueue,
                    writeSent, early, sends, tasks, pending, call, aborted>>
    BY <1>1 DEF vars, binding, life, incoming, outgoing
  <2> QED
    BY <2>1 DEF Inv, TypeOK, CloseSound, BindSound, InBind,
                ReaderSound, ReaderArmed, WriterSound, WriterArmed, SendsSound,
                NoLostWakeup, NoAssertFails, CanProceed, IsSelectReadReady, Posted, UnderWay
<1>2. CASE Running /\ MainThread
  BY <1>2, RunReadInv, OnReadInv, RunWriteInv, OnWriteInv, RunCloseInv DEF MainThread
<1>3. ASSUME Running, NEW op \in Operations, Complete(op) PROVE Inv'
  BY <1>3, CompleteInv
<1>4. ASSUME Running, NEW t \in Thread, ThreadStep(t) PROVE Inv'
  BY <1>4, BindInv, PepperBindsInv, ConnectInv, SendtoInv, RecvfromInv, Waits, CloseFdInv,
     BindReturnInv DEF ThreadStep, Resume
<1> QED
  BY <1>1, <1>2, <1>3, <1>4 DEF Next

\* The invariant holds in every reachable state.
LEMMA InvHolds == Spec => []Inv
<1>1. Init => Inv
  BY InitInv
<1>2. Inv /\ [Next]_vars => Inv'
  BY NextInv
<1> QED
  BY <1>1, <1>2, PTL DEF Spec

\* The flags of a datagram socket tell the truth too: read_sent_ stands for one
\* read, a bound socket with room is being read until a read fails, and exactly
\* one write is posted or under way while messages are queued.
THEOREM DatagramsStayArmed == Spec => []Armed
<1>1. Inv => Armed
  BY DEF Inv, Armed, ReaderSound, WriterSound
<1> QED
  BY <1>1, InvHolds, PTL

\* No thread sleeps in sendto, recvfrom, poll or close on what has happened.
THEOREM DatagramsWakeUp == Spec => []NoLostWakeup
<1>1. Inv => NoLostWakeup
  BY DEF Inv
<1> QED
  BY <1>1, InvHolds, PTL

\* Pepper takes every operation on a datagram socket and Write finds a message,
\* unless one was queued while another thread's bind was under way.
THEOREM DatagramAssertionsHold == Spec => []NoAssertFails
<1>1. Inv => NoAssertFails
  BY DEF Inv
<1> QED
  BY <1>1, InvHolds, PTL

=============================================================================

-------------------------- MODULE LocalSocketProofs --------------------------
(***************************************************************************)
(* Local sockets stay paired, every connect waits in one place of one      *)
(* queue, no wake-up is lost and no descriptor outlives a packet that was  *)
(* received into a buffer, for any number of sockets, names and threads.   *)
(*                                                                         *)
(* The first invariant, Typed, needs nothing of the callers.  The second,  *)
(* Sound, is about callers that keep to ConnectOnce and ListenOnce, and    *)
(* about accepts without a receive timeout: one that expires may answer a  *)
(* client that is already closed.                                          *)
(*                                                                         *)
(* The byte buffer of a stream socket, CircularBuffer, implements          *)
(* BoundedFifo, for buffers of any capacity and calls of any length: that  *)
(* is the last part of the module.  LocalSocket keeps what a buffer        *)
(* promises, a sequence of units, in buf.                                  *)
(***************************************************************************)
EXTENDS LocalSocket, CircularBuffer, FiniteSetTheorems, SequenceTheorems,
        WellFoundedInduction, TLAPS

\* The socket of every blocked call has been made.
CallSocks == \A t \in Thread :
    call[t].at # "idle" => call[t].sock \in Sock

Typed == TypeOK /\ CallSocks /\ DescriptorsNotStranded

\* A socket with a peer is connected; one that is still to be made is not open.
PeerSound ==
    /\ PeerSymmetric
    /\ \A s \in Sock : peer[s] # Null => state[s] = "CONNECTED"
    /\ \A s \in open : state[s] # "NONE"

\* Only listeners have a queue; no socket has two places in the queues, those
\* in a queue are connecting and those open and connecting are in a queue.
QueueSound ==
    /\ \A l \in Sock : queue[l] # << >> => state[l] = "LISTENING"
    /\ \A l, m \in Sock : \A i \in 1 .. Len(queue[l]), j \in 1 .. Len(queue[m]) :
         queue[l][i] = queue[m][j] => l = m /\ i = j
    /\ \A l \in Sock : \A i \in 1 .. Len(queue[l]) : state[queue[l][i]] = "CONNECTING"
    /\ \A s \in open : state[s] = "CONNECTING" =>
         \E l \in Sock : \E i \in 1 .. Len(queue[l]) : queue[l][i] = s
    /\ QueueBounded

\* Data is where it can be read: the write end of a pipe has none.
DataSound ==
    /\ Dgram => \A s \in Sock : state[s] \in {"NONE", "NEW", "CONNECTED"}
    /\ \A s \in Sock : buf[s] # << >> => state[s] = "CONNECTED" \/ Dgram
    /\ \A s \in Sock : dir[s] # "READ_WRITE" =>
         type = "SOCK_STREAM" /\ state[s] = "CONNECTED"
    /\ \A s \in Sock : dir[s] = "WRITE_ONLY" => buf[s] = << >>
    /\ \A s \in Sock : peer[s] # Null /\ dir[peer[s]] = "WRITE_ONLY" =>
         dir[s] = "READ_ONLY"

\* A blocked call has a socket, and epoll_wait for room a connected one.
CallSound == \A t \in Thread :
    /\ call[t].at # "idle" => state[call[t].sock] # "NONE"
    /\ call[t].at = "epoll" /\ call[t].event = "POLLOUT" =>
         state[call[t].sock] = "CONNECTED"

\* What makes GetPollEvents report more than POLLOUT, and POLLOUT of a socket
\* with a peer.
Readable(s) ==
    \/ state[s] = "NEW"
    \/ state[s] = "LISTENING" /\ queue[s] # << >>
    \/ state[s] = "CONNECTED" /\ dir[s] # "WRITE_ONLY" /\ buf[s] # << >>
    \/ state[s] = "CONNECTED" /\ peer[s] = Null /\ ~(dir[s] = "READ_WRITE" /\ Dgram)
Writable(s) ==
    /\ dir[s] # "READ_ONLY"
    /\ type # "SOCK_STREAM" \/ Len(buf[peer[s]]) < Capacity
Arrived(s) == buf[s] # << >> \/ queue[s] # << >>

\* CanProceed in these terms; accept sleeps only on an empty queue.
CanGo(c) ==
    \/ c.at = "accept" /\ queue[c.sock] # << >>
    \/ c.at = "connect" /\ state[c.sock] # "CONNECTING"
    \/ c.at = "recv" /\ (peer[c.sock] = Null \/ Readable(c.sock))
    \/ c.at = "poll" /\ c.event = "POLLIN" /\ c.sock \in open /\ Readable(c.sock)
    \/ c.at \in EPoll /\ c.event = "POLLIN" /\ c.sock \in open /\ Arrived(c.sock)
    \/ c.at = "epoll" /\ c.event = "POLLOUT" /\ c.sock \in open
         /\ peer[c.sock] # Null /\ Writable(c.sock)

WakeSound == \A t \in Thread : call[t].asleep => ~CanGo(call[t])

Sound ==
    /\ Typed /\ PeerSound /\ QueueSound /\ DataSound /\ CallSound /\ WakeSound

-----------------------------------------------------------------------------
(* Operators *)

\* First non-closed connection: the least place of an open socket.
LEMMA Least ==
  ASSUME NEW S \in SUBSET Nat, S # {}
  PROVE  \E x \in S : \A y \in S : x <= y
<1> DEFINE R == {ss \in Nat \X Nat : ss[1] < ss[2]}
<1>1. IsWellFoundedOn(R, Nat)
  BY NatLessThanWellFounded, Zenon DEF OpToRel
<1>2. \E x \in S : \A y \in S : ~(<<y, x>> \in R)
  <2> HIDE DEF R
  <2> QED BY <1>1, WFMin, Zenon
<1>3. \A x, y \in S : <<y, x>> \in R \/ x <= y
  BY SMT
<1> HIDE DEF R
<1> QED BY <1>2, <1>3, Zenon

\* r is what is left of q without its first k entries.
Rest(r, q, k) ==
    /\ k \in 0 .. Len(q) /\ r \in Seq(Sock) /\ Len(r) = Len(q) - k
    /\ \A i \in 1 .. Len(r) : r[i] = q[i + k]

\* SkipClosed drops closed sockets only, and stops at an open one.
LEMMA SkipClosedFacts ==
  ASSUME NEW q \in Seq(Sock)
  PROVE  /\ \E k \in 0 .. Len(q) : /\ Rest(SkipClosed(q), q, k)
                                   /\ \A i \in 1 .. k : q[i] \notin open
         /\ SkipClosed(q) # << >> => Head(SkipClosed(q)) \in open
<1> DEFINE live == {i \in 1 .. Len(q) : q[i] \in open}
           m == CHOOSE i \in live : \A j \in live : i <= j
<1>1. Len(q) \in Nat
  OBVIOUS
<1>2. CASE live = {}
  <2>1. SkipClosed(q) = << >>
    BY <1>2 DEF SkipClosed
  <2>2. Rest(<< >>, q, Len(q)) /\ \A i \in 1 .. Len(q) : q[i] \notin open
    BY <1>1, <1>2 DEF Rest
  <2> QED BY <1>1, <2>1, <2>2
<1>3. CASE live # {}
  <2>1. m \in live /\ \A j \in live : m <= j
    <3>1. live \in SUBSET Nat
      BY <1>1
    <3>2. \E x \in live : \A y \in live : x <= y
      <4> HIDE DEF live
      <4> QED BY <1>3, <3>1, Least
    <3> HIDE DEF live
    <3> QED BY <3>2, Zenon DEF m
  <2>2. SkipClosed(q) = SubSeq(q, m, Len(q))
    BY <1>3 DEF SkipClosed
  <2>3. m \in 1 .. Len(q) /\ q[m] \in open
    BY <2>1
  <2>4. \A i \in 1 .. m - 1 : q[i] \notin open
    BY <1>1, <2>1, <2>3
  <2> HIDE DEF m, live
  <2>5. Rest(SubSeq(q, m, Len(q)), q, m - 1) /\ SubSeq(q, m, Len(q)) # << >>
        /\ Head(SubSeq(q, m, Len(q))) = q[m]
    <3>1. SubSeq(q, m, Len(q)) \in Seq(Sock) /\ Len(SubSeq(q, m, Len(q))) = Len(q) - m + 1
      BY <1>1, <2>3
    <3>2. \A i \in 1 .. Len(q) - m + 1 : SubSeq(q, m, Len(q))[i] = q[m + i - 1]
      BY <1>1, <2>3
    <3>3. SubSeq(q, m, Len(q)) # << >> /\ Head(SubSeq(q, m, Len(q))) = SubSeq(q, m, Len(q))[1]
      <4> DEFINE r == SubSeq(q, m, Len(q))
      <4>1. r \in Seq(Sock) /\ Len(r) # 0
        BY <1>1, <2>3, <3>1
      <4> HIDE DEF r
      <4>2. r # << >> /\ Head(r) = r[1]
        BY <4>1
      <4> QED BY <4>2 DEF r
    <3> QED BY <1>1, <2>3, <3>1, <3>2, <3>3 DEF Rest
  <2> QED BY <1>1, <2>2, <2>3, <2>4, <2>5
<1> QED BY <1>2, <1>3

\* The units of a sequence that carry descriptors.
Marked(b) == {i \in 1 .. Len(b) : b[i]}

LEMMA MarkedType ==
  ASSUME NEW b \in Seq(BOOLEAN)
  PROVE  IsFiniteSet(Marked(b)) /\ Cardinality(Marked(b)) \in Nat
<1>1. IsFiniteSet(1 .. Len(b)) /\ Marked(b) \in SUBSET (1 .. Len(b))
  BY FS_Interval DEF Marked
<1> QED BY <1>1, FS_Subset, FS_CardinalityType

\* A packet is marked once.
LEMMA MarkedAppend ==
  ASSUME NEW b \in Seq(BOOLEAN), NEW x \in BOOLEAN
  PROVE  Cardinality(Marked(Append(b, x))) = Cardinality(Marked(b)) + (IF x THEN 1 ELSE 0)
<1>1. /\ Len(b) \in Nat /\ Len(Append(b, x)) = Len(b) + 1
      /\ \A i \in 1 .. Len(b) : Append(b, x)[i] = b[i]
      /\ Append(b, x)[Len(b) + 1] = x
  OBVIOUS
<1>2. IsFiniteSet(Marked(b)) /\ Cardinality(Marked(b)) \in Nat /\ Len(b) + 1 \notin Marked(b)
  BY <1>1, MarkedType DEF Marked
<1>3. CASE x = TRUE
  <2>1. Marked(Append(b, x)) = Marked(b) \cup {Len(b) + 1}
    BY <1>1, <1>3 DEF Marked
  <2> QED BY <1>2, <1>3, <2>1, FS_AddElement
<1>4. CASE x = FALSE
  <2>1. Marked(Append(b, x)) = Marked(b)
    BY <1>1, <1>4 DEF Marked
  <2> QED BY <1>2, <1>4, <2>1
<1> QED BY <1>3, <1>4

\* With the first packet at most one mark goes, and none with an unmarked one.
LEMMA MarkedTail ==
  ASSUME NEW b \in Seq(BOOLEAN), b # << >>
  PROVE  /\ Cardinality(Marked(b)) <= Cardinality(Marked(Tail(b))) + 1
         /\ ~Head(b) => Cardinality(Marked(b)) <= Cardinality(Marked(Tail(b)))
<1> DEFINE A == Marked(Tail(b))
           B == Marked(b) \ {1}
           f == [i \in B |-> i - 1]
<1>1. /\ Len(b) \in Nat /\ Len(b) >= 1 /\ Len(Tail(b)) = Len(b) - 1
      /\ Tail(b) \in Seq(BOOLEAN)
      /\ \A i \in 1 .. Len(b) - 1 : Tail(b)[i] = b[i + 1]
  OBVIOUS
<1>2. f \in [B -> A]
  BY <1>1 DEF Marked
<1>3. \A x, y \in B : f[x] = f[y] => x = y
  BY <1>1 DEF Marked
<1>4. f \in Injection(B, A)
  <2> HIDE DEF f, A, B
  <2> QED BY <1>2, <1>3 DEF Injection, IsInjective
<1>5. /\ IsFiniteSet(A) /\ Cardinality(A) \in Nat
      /\ IsFiniteSet(Marked(b)) /\ Cardinality(Marked(b)) \in Nat
  BY <1>1, MarkedType
<1>6. Cardinality(B) <= Cardinality(A)
  <2> HIDE DEF f, A, B
  <2> QED BY <1>4, <1>5, FS_Injection DEF ExistsInjection
<1>7. Cardinality(B) = IF 1 \in Marked(b) THEN Cardinality(Marked(b)) - 1
                                          ELSE Cardinality(Marked(b))
  BY <1>5, FS_RemoveElement
<1>8. Cardinality(Marked(b)) <= Cardinality(A) + 1
  BY <1>5, <1>6, <1>7
<1>9. ASSUME ~Head(b) PROVE Cardinality(Marked(b)) <= Cardinality(A)
  <2>1. Head(b) = b[1]
    BY <1>1
  <2>2. 1 \notin Marked(b)
    BY <1>9, <2>1 DEF Marked
  <2> QED BY <1>5, <1>6, <1>7, <2>2
<1> QED BY <1>8, <1>9

-----------------------------------------------------------------------------
(* Calls *)

Call == [at : {"idle", "accept", "connect", "recv", "poll"} \cup EPoll,
         sock : Sock \cup {Null},
         event : Events \cup {Null},
         asleep : BOOLEAN]

LEMMA CallFacts ==
  /\ Idle \in Call /\ Idle.at = "idle" /\ ~Idle.asleep
  /\ \A w \in {"accept", "connect", "recv", "poll"} \cup EPoll, s \in Sock, e \in Events \cup {Null} :
       /\ Waiting(w, s, e) \in Call
       /\ Waiting(w, s, e).at = w /\ Waiting(w, s, e).sock = s /\ Waiting(w, s, e).event = e
BY DEF Call, Idle, Waiting

LEMMA CallTypes ==
  ASSUME TypeOK
  PROVE  /\ call \in [Thread -> Call]
         /\ \A t \in Thread : /\ call[t].at \in {"idle", "accept", "connect", "recv", "poll"} \cup EPoll
                              /\ call[t].sock \in Sock \cup {Null}
                              /\ call[t].event \in Events \cup {Null}
                              /\ call[t].asleep \in BOOLEAN
BY DEF TypeOK, Call

\* A call that still sleeps after a step was not reached by its wake-ups.
LEMMA Proceeds ==
  ASSUME TypeOK, NEW t \in Thread, NEW c \in Call, NEW b \in BOOLEAN, NEW N, Proceed(t, c, b, N)
  PROVE  /\ call' \in [Thread -> Call] /\ call'[t] = c
         /\ \A u \in Thread \ {t} :
              /\ call'[u].at = call[u].at /\ call'[u].sock = call[u].sock
              /\ call'[u].event = call[u].event
              /\ call'[u].asleep =>
                   /\ call[u].asleep
                   /\ b => call[u].at \in EPoll
                   /\ call[u].at \in EPoll => call[u].sock \notin N
<1>1. \A u \in Thread : Woken(call[u], b, N) \in Call
  BY CallTypes DEF Woken, Call
<1>2. \A u \in Thread :
        /\ Woken(call[u], b, N).at = call[u].at /\ Woken(call[u], b, N).sock = call[u].sock
        /\ Woken(call[u], b, N).event = call[u].event
        /\ Woken(call[u], b, N).asleep =>
             /\ call[u].asleep
             /\ b => call[u].at \in EPoll
             /\ call[u].at \in EPoll => call[u].sock \notin N
  BY CallTypes DEF Woken
<1>3. call' = [u \in Thread |-> IF u = t THEN c ELSE Woken(call[u], b, N)]
  BY DEF Proceed
<1> QED BY <1>1, <1>2, <1>3

\* A call that returns does not sleep.
LEMMA Returns ==
  ASSUME NEW t \in Thread, NEW b, NEW N, Proceed(t, Idle, b, N)
  PROVE  ~call'[t].asleep
<1>1. call'[t] = Idle
  BY DEF Proceed
<1> QED BY <1>1, CallFacts

\* What every call is in, and keeps to.
LEMMA CallsTyped ==
  ASSUME TypeOK, CallSocks, NEW t \in Thread, NEW c \in Call, NEW b \in BOOLEAN, NEW N,
         Proceed(t, c, b, N), c.at # "idle" => c.sock \in Sock
  PROVE  call' \in [Thread -> Call] /\ CallSocks'
<1>1. /\ call' \in [Thread -> Call] /\ call'[t] = c
      /\ \A u \in Thread \ {t} : call'[u].at = call[u].at /\ call'[u].sock = call[u].sock
  BY Proceeds
<1> QED BY <1>1 DEF CallSocks

\* A step that goes to sleep again in the same call.
LEMMA Sleeps ==
  ASSUME TypeOK, CallSocks, NEW t \in Thread, call[t].at # "idle"
  PROVE  Sleeping(call[t]) \in Call /\ Sleeping(call[t]).sock \in Sock
         /\ Sleeping(call[t]).at = call[t].at /\ Sleeping(call[t]).sock = call[t].sock
         /\ Sleeping(call[t]).event = call[t].event
BY CallTypes, CallFacts DEF Sleeping, Waiting, CallSocks, Call

-----------------------------------------------------------------------------
(* The forms an accept can end in *)

\* The queue is left with q, nobody is answered.
Skips(t, l, q) ==
    /\ queue' = [queue EXCEPT ![l] = q]
    /\ \/ Quietly(t, Idle)
       \/ q = << >> /\ Quietly(t, Waiting("accept", l, Null))
    /\ UNCHANGED <<state, open, dir, peer>>

\* The first of q is answered.
Pairs(t, l, q, server) ==
    /\ l \in open /\ q # << >> /\ state[server] = "NONE"
    /\ queue' = [queue EXCEPT ![l] = Tail(q)]
    /\ open' = open \cup {server}
    /\ peer' = [peer EXCEPT ![server] = Head(q), ![Head(q)] = server]
    /\ state' = [state EXCEPT ![server] = "CONNECTED", ![Head(q)] = "CONNECTED"]
    /\ Proceed(t, Idle, TRUE, {l})
    /\ UNCHANGED dir

LEMMA FinishForms ==
  ASSUME NEW t, NEW l, NEW q, FinishAccept(t, l, q)
  PROVE  Skips(t, l, q) \/ \E server \in Sock : Pairs(t, l, q, server)
BY DEF FinishAccept, Skips, Pairs

LEMMA AcceptForms ==
  ASSUME NEW t, NEW l, AcceptRound(t, l)
  PROVE  \/ Skips(t, l, SkipClosed(queue[l]))
         \/ \E server \in Sock : Pairs(t, l, SkipClosed(queue[l]), server)
<1>1. CASE SkipClosed(queue[l]) = << >>
  BY <1>1 DEF AcceptRound, Skips
<1>2. CASE SkipClosed(queue[l]) # << >>
  BY <1>2, FinishForms DEF AcceptRound
<1> QED BY <1>1, <1>2

-----------------------------------------------------------------------------
(* Types and descriptors *)

LEMMA InitTyped == Init => Typed
<1> SUFFICES ASSUME Init PROVE Typed
  OBVIOUS
<1>1. call \in [Thread -> Call]
  BY CallFacts DEF Init
<1>2. /\ \A s \in Sock : buf[s] = << >> /\ cmsgs[s] = 0
      /\ buf \in [Sock -> Seq(BOOLEAN)] /\ queue \in [Sock -> Seq(Sock)]
  BY DEF Init
<1>3. TypeOK
  BY <1>1, <1>2, ConstantsAssumption DEF Init, TypeOK, Call
<1>4. CallSocks
  BY CallFacts DEF Init, CallSocks
<1>5. \A s \in Sock \ emptied : cmsgs[s] <= Cardinality(Marked(buf[s]))
  BY <1>2, MarkedType DEF TypeOK
<1> QED BY <1>3, <1>4, <1>5 DEF Typed, DescriptorsNotStranded, Marked

\* A step that leaves the data alone.
LEMMA DataKept ==
  ASSUME Typed, UNCHANGED <<type, data>>
  PROVE  DescriptorsNotStranded'
BY DEF Typed, DescriptorsNotStranded, data

\* A step of t that only moves its call on.
LEMMA QuietTyped ==
  ASSUME Typed, NEW t \in Thread, NEW c \in Call, Quietly(t, c),
         c.at # "idle" => c.sock \in Sock, UNCHANGED <<conn, data>>
  PROVE  Typed'
<1>1. call' \in [Thread -> Call] /\ CallSocks'
  BY CallsTyped DEF Quietly, Typed
<1>2. TypeOK'
  BY <1>1 DEF Typed, TypeOK, Call, conn, data
<1> QED BY <1>1, <1>2, DataKept DEF Typed, conn

\* An accept that ends or goes to sleep.
LEMMA AnswerTyped ==
  ASSUME Typed, NEW t \in Thread, NEW l \in Sock, NEW q \in Seq(Sock), NEW server \in Sock,
         Skips(t, l, q) \/ Pairs(t, l, q, server),
         UNCHANGED <<type, backlog, bound, target, data>>
  PROVE  Typed'
<1>0. TypeOK /\ CallSocks /\ DescriptorsNotStranded'
  BY DataKept DEF Typed
<1>1. CASE Skips(t, l, q)
  <2>1. call' \in [Thread -> Call] /\ CallSocks'
    <3>1. PICK c \in {Idle, Waiting("accept", l, Null)} : Proceed(t, c, FALSE, {})
      BY <1>1 DEF Skips, Quietly
    <3>2. c \in Call /\ (c.at # "idle" => c.sock \in Sock)
      BY CallFacts
    <3> QED BY <1>0, <3>1, <3>2, CallsTyped
  <2>2. queue' \in [Sock -> Seq(Sock)]
    BY <1>0, <1>1 DEF Skips, TypeOK
  <2>3. TypeOK'
    BY <1>0, <1>1, <2>1, <2>2 DEF Skips, TypeOK, Call, data
  <2> QED BY <1>0, <2>1, <2>3 DEF Typed
<1>2. CASE Pairs(t, l, q, server)
  <2>1. call' \in [Thread -> Call] /\ CallSocks'
    BY <1>0, <1>2, CallFacts, CallsTyped DEF Pairs
  <2>2. queue' \in [Sock -> Seq(Sock)] /\ Head(q) \in Sock
    <3>1. q # << >> /\ queue' = [queue EXCEPT ![l] = Tail(q)] /\ queue \in [Sock -> Seq(Sock)]
      BY <1>0, <1>2 DEF Pairs, TypeOK
    <3>2. Head(q) \in Sock /\ Tail(q) \in Seq(Sock)
      BY <3>1
    <3> QED BY <3>1, <3>2
  <2>3. /\ state' \in [Sock -> {"NONE", "NEW", "CONNECTING", "CONNECTED", "LISTENING"}]
        /\ peer' \in [Sock -> Sock \cup {Null}]
    BY <1>0, <1>2, <2>2 DEF Pairs, TypeOK
  <2>4. TypeOK'
    BY <1>0, <1>2, <2>1, <2>2, <2>3 DEF Pairs, TypeOK, Call, data
  <2> QED BY <1>0, <2>1, <2>4 DEF Typed
<1> QED BY <1>1, <1>2

\* recvmsg ends: bytes or a packet are taken, with at most one group of
\* descriptors, or a packet is dropped for want of a buffer.
LEMMA FinishRecvTyped ==
  ASSUME Typed, NEW t \in Thread, NEW s \in Sock, FinishRecv(t, s), UNCHANGED conn
  PROVE  Typed'
<1>0. TypeOK /\ CallSocks /\ buf[s] \in Seq(BOOLEAN) /\ Len(buf[s]) \in Nat
  BY DEF Typed, TypeOK
<1>1. CASE Quietly(t, Idle) /\ UNCHANGED data
  BY <1>1, CallFacts, QuietTyped
<1>2. ASSUME NEW k \in 1 .. Len(buf[s]), type # "SOCK_STREAM" => k = 1,
             buf' = [buf EXCEPT ![s] = SubSeq(@, k + 1, Len(@))],
             cmsgs' = [cmsgs EXCEPT ![s] = PopCmsg(@)],
             Proceed(t, Idle, FALSE, RoomNotice(s)), UNCHANGED emptied
      PROVE  Typed'
  <2>1. call' \in [Thread -> Call] /\ CallSocks'
    BY <1>0, <1>2, CallFacts, CallsTyped
  <2>2. /\ SubSeq(buf[s], k + 1, Len(buf[s])) \in Seq(BOOLEAN)
        /\ Len(SubSeq(buf[s], k + 1, Len(buf[s]))) = Len(buf[s]) - k
    BY <1>0, <1>2
  <2>3. /\ buf' \in [Sock -> Seq(BOOLEAN)] /\ \A x \in Sock : Len(buf'[x]) <= Capacity
        /\ cmsgs' \in [Sock -> 0 .. MaxCmsgs]
    BY <1>0, <1>2, <2>2, ConstantsAssumption DEF TypeOK, PopCmsg
  <2>4. TypeOK'
    BY <1>0, <1>2, <2>1, <2>3 DEF TypeOK, Call, conn
  <2>5. ASSUME type # "SOCK_STREAM", NEW x \in Sock \ emptied
        PROVE  cmsgs'[x] <= Cardinality(Marked(buf'[x]))
    <3>0. cmsgs[x] <= Cardinality(Marked(buf[x])) /\ cmsgs[x] \in Nat
      BY <2>5 DEF Typed, TypeOK, DescriptorsNotStranded, Marked
    <3>1. CASE x # s
      BY <1>0, <1>2, <3>0, <3>1 DEF TypeOK
    <3>2. CASE x = s
      <4>1. buf[s] # << >> /\ k = 1
        BY <1>0, <1>2, <2>5
      <4>2. buf'[s] = Tail(buf[s])
        BY <1>0, <1>2, <4>1 DEF TypeOK
      <4>3. Cardinality(Marked(buf[s])) <= Cardinality(Marked(buf'[s])) + 1
        BY <1>0, <4>1, <4>2, MarkedTail
      <4>4. cmsgs'[s] = IF cmsgs[s] > 0 THEN cmsgs[s] - 1 ELSE 0
        BY <1>0, <1>2 DEF TypeOK, PopCmsg
      <4>5. Cardinality(Marked(buf[s])) \in Nat /\ Cardinality(Marked(buf'[s])) \in Nat
        BY <1>0, <2>3, MarkedType
      <4> QED BY <3>0, <3>2, <4>3, <4>4, <4>5
    <3> QED BY <3>1, <3>2
  <2>6. DescriptorsNotStranded'
    BY <1>2, <2>5 DEF DescriptorsNotStranded, Marked, conn
  <2> QED BY <2>1, <2>4, <2>6 DEF Typed
<1>3. ASSUME buf[s] # << >>, type # "SOCK_STREAM", buf' = [buf EXCEPT ![s] = Tail(@)],
             emptied' = IF Head(buf[s]) THEN emptied \cup {s} ELSE emptied,
             Quietly(t, Idle), UNCHANGED cmsgs
      PROVE  Typed'
  <2>1. call' \in [Thread -> Call] /\ CallSocks'
    BY <1>0, <1>3, CallFacts, CallsTyped DEF Quietly
  <2>2. Tail(buf[s]) \in Seq(BOOLEAN) /\ Len(Tail(buf[s])) = Len(buf[s]) - 1
    <3>1. \A b \in Seq(BOOLEAN) : b # << >> =>
            Tail(b) \in Seq(BOOLEAN) /\ Len(Tail(b)) = Len(b) - 1
      OBVIOUS
    <3> QED BY <1>0, <1>3, <3>1
  <2>3. /\ buf' \in [Sock -> Seq(BOOLEAN)] /\ \A x \in Sock : Len(buf'[x]) <= Capacity
        /\ emptied' \subseteq Sock
    <3>1. emptied' \subseteq Sock
      BY <1>0, <1>3 DEF TypeOK
    <3> DEFINE left == Tail(buf[s])
    <3>2. /\ left \in Seq(BOOLEAN) /\ Len(left) = Len(buf[s]) - 1
          /\ buf' = [buf EXCEPT ![s] = left]
      BY <1>3, <2>2
    <3> HIDE DEF left
    <3> QED BY <1>0, <3>1, <3>2, ConstantsAssumption DEF TypeOK
  <2>4. TypeOK'
    BY <1>0, <1>3, <2>1, <2>3 DEF TypeOK, Call, conn
  <2>5. ASSUME NEW x \in Sock \ emptied'
        PROVE  cmsgs[x] <= Cardinality(Marked(buf'[x]))
    <3>1. x \notin emptied /\ (x = s => ~Head(buf[s]))
      BY <1>3, <2>5
    <3>2. cmsgs[x] <= Cardinality(Marked(buf[x])) /\ cmsgs[x] \in Nat
      <4>1. x \in Sock \ emptied /\ type # "SOCK_STREAM"
        BY <1>3, <2>5, <3>1
      <4>2. cmsgs[x] <= Cardinality(Marked(buf[x]))
        BY <4>1 DEF Typed, DescriptorsNotStranded, Marked
      <4> QED BY <1>0, <4>1, <4>2 DEF TypeOK
    <3>3. CASE x # s
      BY <1>0, <1>3, <3>2, <3>3 DEF TypeOK
    <3>4. CASE x = s
      <4>1. buf'[s] = Tail(buf[s])
        BY <1>0, <1>3 DEF TypeOK
      <4>2. Cardinality(Marked(buf[s])) <= Cardinality(Marked(buf'[s]))
        BY <1>0, <1>3, <3>1, <3>4, <4>1, MarkedTail
      <4>3. Cardinality(Marked(buf[s])) \in Nat /\ Cardinality(Marked(buf'[s])) \in Nat
        BY <1>0, <2>3, MarkedType
      <4> QED BY <3>2, <3>4, <4>2, <4>3
    <3> QED BY <3>3, <3>4
  <2>6. DescriptorsNotStranded'
    BY <1>3, <2>5 DEF DescriptorsNotStranded, Marked, conn
  <2> QED BY <2>1, <2>4, <2>6 DEF Typed
<1> QED BY <1>1, <1>2, <1>3 DEF FinishRecv

LEMMA RecvTyped ==
  ASSUME Typed, NEW t \in Thread, NEW s \in Sock, RecvRound(t, s), UNCHANGED conn
  PROVE  Typed'
<1>1. CASE Quietly(t, Waiting("recv", s, Null)) /\ UNCHANGED data
  BY <1>1, CallFacts, QuietTyped
<1>2. CASE FinishRecv(t, s)
  BY <1>2, FinishRecvTyped
<1> QED BY <1>1, <1>2 DEF RecvRound

\* What sendmsg delivers: some of the bytes, or the packet, with their descriptors.
Delivers(t, s, d, more, withFds) ==
    /\ s \in open /\ d \in Destination(s)
    /\ dir[s] # "READ_ONLY" /\ (Dgram \/ state[s] = "CONNECTED")
    /\ Len(more) <= Capacity - Len(buf[d])
    /\ type # "SOCK_STREAM" => more = << withFds >>
    /\ withFds => cmsgs[d] < MaxCmsgs
    /\ buf' = [buf EXCEPT ![d] = @ \o more]
    /\ cmsgs' = [cmsgs EXCEPT ![d] = IF withFds THEN @ + 1 ELSE @]
    /\ Proceed(t, Idle, TRUE, {d} \cap open)

LEMMA SendForms ==
  ASSUME TypeOK, NEW t \in Thread, Send(t)
  PROVE  \E s \in Sock, d \in Sock, more \in Seq(BOOLEAN), withFds \in BOOLEAN :
           Delivers(t, s, d, more, withFds)
<1>1. PICK s \in open, n \in 1 .. Capacity, withFds \in BOOLEAN : \E d \in Destination(s) :
        LET sent == IF n <= Room(d) THEN n ELSE Room(d) IN
        /\ dir[s] # "READ_ONLY"
        /\ Dgram \/ state[s] = "CONNECTED"
        /\ type # "SOCK_STREAM" => n = 1
        /\ sent > 0
        /\ withFds => cmsgs[d] < MaxCmsgs
        /\ buf' = [buf EXCEPT ![d] = @ \o [i \in 1 .. sent |-> withFds /\ i = 1]]
        /\ cmsgs' = [cmsgs EXCEPT ![d] = IF withFds THEN @ + 1 ELSE @]
        /\ Proceed(t, Idle, TRUE, {d} \cap open)
  BY Zenon DEF Send
<1>2. PICK d \in Destination(s) :
        LET sent == IF n <= Room(d) THEN n ELSE Room(d) IN
        /\ dir[s] # "READ_ONLY"
        /\ Dgram \/ state[s] = "CONNECTED"
        /\ type # "SOCK_STREAM" => n = 1
        /\ sent > 0
        /\ withFds => cmsgs[d] < MaxCmsgs
        /\ buf' = [buf EXCEPT ![d] = @ \o [i \in 1 .. sent |-> withFds /\ i = 1]]
        /\ cmsgs' = [cmsgs EXCEPT ![d] = IF withFds THEN @ + 1 ELSE @]
        /\ Proceed(t, Idle, TRUE, {d} \cap open)
  BY <1>1
<1> DEFINE sent == IF n <= Room(d) THEN n ELSE Room(d)
           more == [i \in 1 .. sent |-> withFds /\ i = 1]
<1>3. s \in Sock /\ d \in Sock /\ buf[d] \in Seq(BOOLEAN) /\ Len(buf[d]) \in Nat
      /\ Len(buf[d]) <= Capacity
  BY DEF Destination, TypeOK
<1>4. sent \in Nat /\ sent <= Capacity - Len(buf[d]) /\ (type # "SOCK_STREAM" => sent = 1)
  <2>1. sent > 0 /\ (type # "SOCK_STREAM" => n = 1)
    BY <1>2, Zenon
  <2>2. Room(d) = Capacity - Len(buf[d]) /\ Room(d) \in Nat /\ n \in Nat
    BY <1>3, ConstantsAssumption DEF Room
  <2> QED BY <2>1, <2>2
<1>5. more \in Seq(BOOLEAN) /\ Len(more) = sent
  <2>1. \A k \in Nat : [i \in 1 .. k |-> withFds /\ i = 1] \in Seq(BOOLEAN)
                       /\ Len([i \in 1 .. k |-> withFds /\ i = 1]) = k
    OBVIOUS
  <2>2. sent \in Nat
    BY <1>4
  <2> HIDE DEF sent
  <2> QED BY <2>1, <2>2
<1>6. type # "SOCK_STREAM" => more = << withFds >>
  BY <1>4, <1>5
<1>7. /\ dir[s] # "READ_ONLY" /\ (Dgram \/ state[s] = "CONNECTED")
      /\ withFds => cmsgs[d] < MaxCmsgs
      /\ buf' = [buf EXCEPT ![d] = @ \o more]
      /\ cmsgs' = [cmsgs EXCEPT ![d] = IF withFds THEN @ + 1 ELSE @]
      /\ Proceed(t, Idle, TRUE, {d} \cap open)
  BY <1>2, Zenon
<1>8. Len(more) <= Capacity - Len(buf[d])
  <2> HIDE DEF sent, more
  <2> QED BY <1>4, <1>5
<1> HIDE DEF sent, more
<1>9. Delivers(t, s, d, more, withFds)
  BY <1>6, <1>7, <1>8, Zenon DEF Delivers
<1> QED BY <1>3, <1>5, <1>9, Zenon

LEMMA SendTyped ==
  ASSUME Typed, NEW t \in Thread, Send(t)
  PROVE  Typed'
<1>0. TypeOK /\ CallSocks /\ UNCHANGED <<conn, emptied>>
  BY DEF Typed, Send
<1>1. PICK s \in Sock, d \in Sock, more \in Seq(BOOLEAN), withFds \in BOOLEAN :
        Delivers(t, s, d, more, withFds)
  BY <1>0, SendForms
<1>2. buf[d] \in Seq(BOOLEAN) /\ Len(buf[d]) \in Nat /\ cmsgs[d] \in Nat /\ Len(more) \in Nat
  BY <1>0 DEF TypeOK
<1>3. buf[d] \o more \in Seq(BOOLEAN) /\ Len(buf[d] \o more) <= Capacity
  BY <1>1, <1>2, ConstantsAssumption DEF Delivers
<1>4. call' \in [Thread -> Call] /\ CallSocks'
  BY <1>0, <1>1, CallFacts, CallsTyped DEF Delivers
<1>5. buf' \in [Sock -> Seq(BOOLEAN)] /\ \A x \in Sock : Len(buf'[x]) <= Capacity
  BY <1>0, <1>1, <1>3 DEF TypeOK, Delivers
<1>6. cmsgs' \in [Sock -> 0 .. MaxCmsgs]
  BY <1>0, <1>1, <1>2, ConstantsAssumption DEF TypeOK, Delivers
<1>7. TypeOK'
  BY <1>0, <1>4, <1>5, <1>6 DEF TypeOK, Call, conn
<1>8. ASSUME type # "SOCK_STREAM", NEW x \in Sock \ emptied
      PROVE  cmsgs'[x] <= Cardinality(Marked(buf'[x]))
  <2>0. cmsgs[x] <= Cardinality(Marked(buf[x]))
    BY <1>8 DEF Typed, DescriptorsNotStranded, Marked
  <2>1. CASE x # d
    BY <1>0, <1>1, <2>0, <2>1 DEF TypeOK, Delivers
  <2>2. CASE x = d
    <3>1. buf'[d] = Append(buf[d], withFds)
      <4>1. buf'[d] = buf[d] \o << withFds >>
        BY <1>0, <1>1, <1>8 DEF TypeOK, Delivers
      <4> QED BY <1>2, <4>1
    <3>2. Cardinality(Marked(buf'[d])) = Cardinality(Marked(buf[d])) + (IF withFds THEN 1 ELSE 0)
      BY <1>2, <3>1, MarkedAppend
    <3>3. cmsgs'[d] = IF withFds THEN cmsgs[d] + 1 ELSE cmsgs[d]
      BY <1>0, <1>1 DEF TypeOK, Delivers
    <3>4. Cardinality(Marked(buf[d])) \in Nat
      BY <1>2, MarkedType
    <3> QED BY <1>2, <2>0, <2>2, <3>2, <3>3, <3>4
  <2> QED BY <2>1, <2>2
<1>9. DescriptorsNotStranded'
  BY <1>0, <1>8 DEF DescriptorsNotStranded, Marked, conn
<1> QED BY <1>4, <1>7, <1>9 DEF Typed

\* socket, socketpair, pipe2, bind, listen and connect of datagram sockets: the
\* calls are left alone.
LEMMA MakesTyped ==
  ASSUME Typed, NEW t \in Thread,
         Socket(t) \/ SocketPair(t) \/ Pipe2(t) \/ Bind(t) \/ Listen(t) \/ ConnectDgram(t)
  PROVE  Typed'
<1>0. TypeOK /\ CallSocks
  BY DEF Typed
<1>1. UNCHANGED <<type, data, call>>
  BY DEF Socket, SocketPair, Pipe2, MakePair, Bind, Listen, ConnectDgram
<1>2. DescriptorsNotStranded' /\ CallSocks'
  BY <1>0, <1>1, DataKept DEF CallSocks
<1>3. TypeOK'
  <2>1. CASE Socket(t)
    BY <1>0, <2>1 DEF Socket, TypeOK, data
  <2>2. ASSUME NEW d1 \in {"READ_WRITE", "READ_ONLY", "WRITE_ONLY"},
               NEW d2 \in {"READ_WRITE", "READ_ONLY", "WRITE_ONLY"}, MakePair(t, d1, d2)
        PROVE  TypeOK'
    <3>1. PICK s1 \in Sock, s2 \in Sock :
            /\ state' = [state EXCEPT ![s1] = "CONNECTED", ![s2] = "CONNECTED"]
            /\ open' = open \cup {s1, s2}
            /\ dir' = [dir EXCEPT ![s1] = d1, ![s2] = d2]
            /\ peer' = [peer EXCEPT ![s1] = s2, ![s2] = s1]
      BY <2>2 DEF MakePair
    <3>2. /\ state' \in [Sock -> {"NONE", "NEW", "CONNECTING", "CONNECTED", "LISTENING"}]
          /\ open' \subseteq Sock /\ peer' \in [Sock -> Sock \cup {Null}]
          /\ dir' \in [Sock -> {"READ_WRITE", "READ_ONLY", "WRITE_ONLY"}]
      BY <1>0, <3>1 DEF TypeOK
    <3> QED BY <1>0, <2>2, <3>2 DEF MakePair, TypeOK, data
  <2>3. CASE SocketPair(t) \/ Pipe2(t)
    BY <2>2, <2>3 DEF SocketPair, Pipe2
  <2>4. CASE Bind(t)
    BY <1>0, <2>4 DEF Bind, TypeOK, data
  <2>5. CASE Listen(t)
    BY <1>0, <2>5 DEF Listen, TypeOK, data
  <2>6. CASE ConnectDgram(t)
    <3>1. PICK s, v : target' = [target EXCEPT ![s] = v] /\ v \in Name \cup {Null}
      BY <2>6 DEF ConnectDgram
    <3>2. target' \in [Sock -> Name \cup {Null}]
      BY <1>0, <3>1 DEF TypeOK
    <3>3. UNCHANGED <<type, state, open, dir, peer, queue, backlog, bound, data, call>>
      BY <2>6 DEF ConnectDgram
    <3> QED BY <1>0, <3>2, <3>3 DEF TypeOK, data
  <2> QED BY <2>1, <2>3, <2>4, <2>5, <2>6
<1> QED BY <1>2, <1>3 DEF Typed

LEMMA ConnectTyped ==
  ASSUME Typed, NEW t \in Thread, Connect(t)
  PROVE  Typed'
<1>0. TypeOK /\ CallSocks /\ UNCHANGED <<type, open, dir, peer, backlog, bound, target, data>>
  BY DEF Typed, Connect
<1>1. PICK s \in open, n \in Name :
        /\ GetByName(n) # Null
        /\ queue' = [queue EXCEPT ![GetByName(n)] = Append(@, s)]
        /\ state' = [state EXCEPT ![s] = "CONNECTING"]
        /\ \/ Proceed(t, Waiting("connect", s, Null), TRUE, {GetByName(n)} \cap open)
           \/ Proceed(t, Waiting("connect", s, Null), FALSE, {})
  BY Zenon DEF Connect, Quietly
<1>2. s \in Sock /\ GetByName(n) \in Sock
  BY <1>0, <1>1 DEF TypeOK, GetByName
<1>3. call' \in [Thread -> Call] /\ CallSocks'
  <2>1. Waiting("connect", s, Null) \in Call /\ Waiting("connect", s, Null).sock \in Sock
    BY <1>2, CallFacts
  <2> QED BY <1>0, <1>1, <2>1, CallsTyped
<1>4. /\ queue' \in [Sock -> Seq(Sock)]
      /\ state' \in [Sock -> {"NONE", "NEW", "CONNECTING", "CONNECTED", "LISTENING"}]
  BY <1>0, <1>1, <1>2 DEF TypeOK
<1>5. TypeOK'
  BY <1>0, <1>3, <1>4 DEF TypeOK, Call, data
<1> QED BY <1>0, <1>3, <1>5, DataKept DEF Typed

LEMMA AcceptTyped ==
  ASSUME Typed, NEW t \in Thread, Accept(t) \/ AcceptResume(t) \/ AcceptTimeout(t)
  PROVE  Typed'
<1>0. TypeOK /\ CallSocks
  BY DEF Typed
<1>1. UNCHANGED <<type, backlog, bound, target, data>>
  BY DEF Accept, AcceptResume, AcceptTimeout
<1>2. ASSUME NEW l \in Sock, AcceptRound(t, l) PROVE Typed'
  <2>1. SkipClosed(queue[l]) \in Seq(Sock)
    BY <1>0, SkipClosedFacts DEF TypeOK, Rest
  <2>2. CASE Skips(t, l, SkipClosed(queue[l]))
    BY <1>1, <2>1, <2>2, AnswerTyped
  <2>3. CASE \E server \in Sock : Pairs(t, l, SkipClosed(queue[l]), server)
    BY <1>1, <2>1, <2>3, AnswerTyped
  <2> QED BY <1>2, <2>2, <2>3, AcceptForms
<1>3. CASE Accept(t)
  BY <1>0, <1>2, <1>3 DEF Accept, TypeOK
<1>4. CASE AcceptResume(t)
  BY <1>0, <1>2, <1>4 DEF AcceptResume, Resumes, CallSocks
<1>5. CASE AcceptTimeout(t)
  <2>1. call[t].sock \in Sock /\ queue[call[t].sock] \in Seq(Sock)
    BY <1>0, <1>5 DEF AcceptTimeout, CallSocks, TypeOK
  <2>2. FinishAccept(t, call[t].sock, queue[call[t].sock])
    BY <1>5 DEF AcceptTimeout
  <2>3. \/ Skips(t, call[t].sock, queue[call[t].sock])
        \/ \E server \in Sock : Pairs(t, call[t].sock, queue[call[t].sock], server)
    BY <2>2, FinishForms
  <2> QED BY <1>1, <2>1, <2>3, AnswerTyped
<1> QED BY <1>3, <1>4, <1>5

LEMMA CloseTyped ==
  ASSUME Typed, NEW t \in Thread, Close(t)
  PROVE  Typed'
<1>0. TypeOK /\ CallSocks /\ UNCHANGED <<type, state, dir, queue, backlog, target, data>>
  BY DEF Typed, Close
<1>1. PICK s \in open :
        /\ open' = open \ {s}
        /\ bound' = [n \in Name |-> IF bound[n] = s /\ n \notin LogdName THEN Null
                                   ELSE bound[n]]
        /\ peer' = Disconnected(s)
        /\ Proceed(t, Idle, Announces(s), {s})
  BY DEF Close
<1>2. call' \in [Thread -> Call] /\ CallSocks'
  <2>1. Announces(s) \in BOOLEAN
    BY DEF Announces
  <2> QED BY <1>0, <1>1, <2>1, CallFacts, CallsTyped
<1>3. /\ open' \subseteq Sock /\ bound' \in [Name -> Sock \cup {Null}]
      /\ peer' \in [Sock -> Sock \cup {Null}]
  BY <1>0, <1>1 DEF TypeOK, Disconnected
<1>4. TypeOK'
  BY <1>0, <1>2, <1>3 DEF TypeOK, Call, data
<1> QED BY <1>0, <1>2, <1>4, DataKept DEF Typed

\* connect, poll and epoll_wait when they wait, go on waiting or return.
Dozes(t) ==
    ConnectResume(t) \/ Poll(t) \/ PollResume(t) \/ PollTimeout(t) \/ EPollWait(t) \/ EPollResume(t)

LEMMA DozesTyped ==
  ASSUME Typed, NEW t \in Thread, Dozes(t)
  PROVE  Typed'
<1>0. TypeOK /\ CallSocks /\ UNCHANGED <<conn, data>>
  BY DEF Typed, Dozes, ConnectResume, Poll, PollResume, PollTimeout, EPollWait, EPollResume
<1>1. CASE Quietly(t, Idle)
  BY <1>0, <1>1, CallFacts, QuietTyped
<1>2. CASE call[t].at # "idle" /\ Quietly(t, Sleeping(call[t]))
  BY <1>0, <1>2, Sleeps, QuietTyped
<1>3. ASSUME NEW w \in {"poll"} \cup EPoll, NEW s \in open, NEW event \in {"POLLIN", "POLLOUT"},
             Quietly(t, Waiting(w, s, event))
      PROVE  Typed'
  <2>1. s \in Sock /\ event \in Events
    BY <1>0 DEF TypeOK, Events
  <2> QED BY <1>0, <1>3, <2>1, CallFacts, QuietTyped
<1>4. CASE Poll(t)
  BY <1>3, <1>4 DEF Poll
<1>5. CASE EPollWait(t)
  BY <1>3, <1>5 DEF EPollWait, EPoll
<1>6. CASE PollTimeout(t)
  BY <1>1, <1>6 DEF PollTimeout
<1>7. CASE ConnectResume(t) \/ PollResume(t) \/ EPollResume(t)
  BY <1>1, <1>2, <1>7 DEF ConnectResume, PollResume, EPollResume, Resumes, EPoll
<1> QED BY <1>4, <1>5, <1>6, <1>7 DEF Dozes

LEMMA RecvsTyped ==
  ASSUME Typed, NEW t \in Thread, Recv(t) \/ RecvResume(t)
  PROVE  Typed'
<1>1. CASE Recv(t)
  BY <1>1, RecvTyped DEF Recv, Typed, TypeOK
<1>2. CASE RecvResume(t)
  BY <1>2, RecvTyped DEF RecvResume, Resumes, Typed, CallSocks
<1> QED BY <1>1, <1>2

LEMMA NextTyped == Typed /\ [Next]_vars => Typed'
<1> SUFFICES ASSUME Typed, [Next]_vars PROVE Typed'
  OBVIOUS
<1>1. CASE UNCHANGED vars
  BY <1>1 DEF vars, Typed, TypeOK, CallSocks, DescriptorsNotStranded, conn, data
<1>2. ASSUME NEW t \in Thread, Step(t) PROVE Typed'
  BY <1>2, MakesTyped, ConnectTyped, AcceptTyped, RecvsTyped, SendTyped, CloseTyped, DozesTyped
     DEF Step, Resume, Dozes
<1> QED BY <1>1, <1>2 DEF Next

LEMMA TypedHolds == Spec => []Typed
BY InitTyped, NextTyped, PTL DEF Spec

-----------------------------------------------------------------------------
(* Readiness *)

\* What the loops of the blocked calls test, in terms of Readable and Writable.
LEMMA ReadyFacts ==
  ASSUME TypeOK, DataSound, NEW s \in Sock, state[s] # "NONE"
  PROVE  /\ IsSelectReadReady(s) <=> Readable(s)
         /\ PollReady(s, "POLLIN") <=> s \notin open \/ Readable(s)
         /\ EPollReady(s, "POLLIN") <=> s \in open /\ Readable(s)
         /\ state[s] = "CONNECTED" /\ peer[s] # Null =>
              ("POLLOUT" \in GetPollEvents(s) <=> Writable(s))
         /\ state[s] \in {"NEW", "LISTENING"} => "POLLOUT" \in GetPollEvents(s)
         /\ "POLLOUT" \in GetPollEvents(s) /\ s \in open => EPollReady(s, "POLLOUT")
<1>0. /\ state[s] \in {"NEW", "CONNECTING", "CONNECTED", "LISTENING"}
      /\ dir[s] \in {"READ_WRITE", "READ_ONLY", "WRITE_ONLY"}
      /\ dir[s] # "READ_WRITE" => type = "SOCK_STREAM"
      /\ dir[s] = "WRITE_ONLY" => buf[s] = << >>
  BY DEF TypeOK, DataSound
<1> DEFINE events == GetPollEvents(s)
           ready == events \cap {"POLLIN", "POLLHUP", "POLLERR"} # {}
<1>1. ready <=> Readable(s)
  <2>1. CASE state[s] = "NEW"
    <3>1. events = {"POLLOUT", "POLLHUP"}
      BY <2>1 DEF GetPollEvents
    <3> QED BY <2>1, <3>1 DEF Readable
  <2>2. CASE state[s] = "CONNECTING"
    <3>1. events = {}
      BY <2>2 DEF GetPollEvents
    <3> QED BY <2>2, <3>1 DEF Readable
  <2>3. CASE state[s] = "LISTENING"
    <3>1. events = {"POLLOUT"} \cup {e \in {"POLLIN"} : queue[s] # << >>}
      BY <2>3 DEF GetPollEvents
    <3> QED BY <2>3, <3>1 DEF Readable
  <2>4. CASE state[s] = "CONNECTED" /\ dir[s] = "READ_WRITE"
    <3>1. events = ConnectedEvents(s)
      BY <2>4 DEF GetPollEvents
    <3> QED BY <2>4, <3>1 DEF Readable, ConnectedEvents
  <2>5. CASE state[s] = "CONNECTED" /\ dir[s] # "READ_WRITE"
    <3>1. events = PipeEvents(s)
      BY <2>5 DEF GetPollEvents
    <3>2. ~Dgram
      BY <1>0, <2>5 DEF Dgram
    <3> QED BY <1>0, <2>5, <3>1, <3>2 DEF Readable, PipeEvents
  <2> QED BY <1>0, <2>1, <2>2, <2>3, <2>4, <2>5
<1>2. /\ IsSelectReadReady(s) <=> ready
      /\ PollReady(s, "POLLIN") <=> s \notin open \/ ready
      /\ EPollReady(s, "POLLIN") <=> s \in open /\ ready
  BY DEF IsSelectReadReady, PollReady, EPollReady
<1>3. ASSUME state[s] = "CONNECTED", peer[s] # Null
      PROVE  "POLLOUT" \in events <=> Writable(s)
  <2>1. CASE dir[s] = "READ_WRITE"
    <3>1. events = ConnectedEvents(s)
      BY <1>3, <2>1 DEF GetPollEvents
    <3> QED BY <1>3, <2>1, <3>1 DEF Writable, ConnectedEvents
  <2>2. CASE dir[s] # "READ_WRITE"
    <3>1. events = PipeEvents(s)
      BY <1>3, <2>2 DEF GetPollEvents
    <3> QED BY <1>0, <1>3, <2>2, <3>1 DEF Writable, PipeEvents
  <2> QED BY <2>1, <2>2
<1>4. state[s] \in {"NEW", "LISTENING"} => "POLLOUT" \in events
  BY DEF GetPollEvents
<1>5. "POLLOUT" \in events /\ s \in open => EPollReady(s, "POLLOUT")
  BY DEF EPollReady
<1> QED BY <1>1, <1>2, <1>3, <1>4, <1>5

\* What has arrived at a socket can be read.
LEMMA ArrivedReadable ==
  ASSUME TypeOK, DataSound, QueueSound, NEW s \in Sock, state[s] # "NONE", Arrived(s)
  PROVE  Readable(s)
BY DEF TypeOK, DataSound, QueueSound, Arrived, Readable, Dgram

\* The property that the run checks.
LEMMA SoundWakeup == Sound => NoLostWakeup
<1> SUFFICES ASSUME Sound, NEW t \in Thread, call[t].asleep, CanProceed(call[t]) PROVE FALSE
  BY DEF NoLostWakeup
<1>0. TypeOK /\ CallSocks /\ DataSound /\ CallSound /\ ~CanGo(call[t])
  BY DEF Sound, Typed, WakeSound
<1> DEFINE c == call[t]
<1>1. c.at # "idle" /\ c.sock \in Sock /\ state[c.sock] # "NONE"
  BY <1>0 DEF CanProceed, CallSocks, CallSound, EPoll
<1>2. queue[c.sock] = << >> => SkipClosed(queue[c.sock]) = << >>
  BY DEF SkipClosed
<1>3. CASE c.at = "accept"
  BY <1>0, <1>2, <1>3 DEF CanProceed, CanGo, EPoll
<1>4. CASE c.at = "connect"
  BY <1>0, <1>4 DEF CanProceed, CanGo, EPoll
<1>5. CASE c.at = "recv"
  BY <1>0, <1>1, <1>5, ReadyFacts DEF CanProceed, CanGo, EPoll
<1>6. CASE c.at = "poll"
  BY <1>0, <1>1, <1>6, ReadyFacts DEF CanProceed, CanGo, EPoll
<1>7. CASE c.at \in EPoll /\ c.event = "POLLIN"
  BY <1>0, <1>7 DEF CanProceed, CanGo, EPoll, Arrived
<1>8. CASE c.at = "epoll" /\ c.event = "POLLOUT"
  <2>1. state[c.sock] = "CONNECTED"
    BY <1>0, <1>8 DEF CallSound
  <2> QED BY <1>0, <1>1, <1>8, <2>1, ReadyFacts DEF CanProceed, CanGo, EPoll
<1> QED BY <1>3, <1>4, <1>5, <1>6, <1>7, <1>8 DEF CanProceed, EPoll

-----------------------------------------------------------------------------
(* Wake-ups *)

\* No socket that exists becomes ready for a call on the VFS condition ...
Hushed ==
    \A x \in Sock : state[x] # "NONE" =>
      /\ Readable(x)' => Readable(x)
      /\ peer'[x] = Null => peer[x] = Null
      /\ state[x] = "CONNECTING" => state'[x] = "CONNECTING"
      /\ queue[x] = << >> => queue'[x] = << >>

\* ... or, if x is not notified, for an epoll_wait.
Unheard(x) ==
    /\ Arrived(x)' => Arrived(x)
    /\ state[x] = "CONNECTED" /\ peer'[x] # Null /\ Writable(x)' =>
         peer[x] # Null /\ Writable(x)

\* The sockets that a step opens did not exist.
OpensNew == \A x \in open' : x \in open \/ state[x] = "NONE"

LEMMA Wakes ==
  ASSUME TypeOK, CallSocks, CallSound, WakeSound,
         NEW t \in Thread, NEW c \in Call, NEW b \in BOOLEAN, NEW N, Proceed(t, c, b, N),
         call'[t].asleep => ~CanGo(call[t])',
         OpensNew, b \/ Hushed, \A x \in open \ N : x \in open' => Unheard(x)
  PROVE  WakeSound'
<1> SUFFICES ASSUME NEW u \in Thread, call'[u].asleep, CanGo(call[u])'
             PROVE  FALSE
  BY DEF WakeSound
<1>0. u # t
  OBVIOUS
<1>1. /\ call'[u].at = call[u].at /\ call'[u].sock = call[u].sock
      /\ call'[u].event = call[u].event /\ call[u].asleep
      /\ b => call[u].at \in EPoll
      /\ call[u].at \in EPoll => call[u].sock \notin N
  BY <1>0, Proceeds
<1> DEFINE a == call[u].at
           e == call[u].event
<1>x. PICK x \in Sock \cup {Null} : x = call[u].sock
  BY CallTypes
<1>2. ~CanGo(call[u])
  BY <1>1 DEF WakeSound
<1>3. \/ a = "accept" /\ queue'[x] # << >>
      \/ a = "connect" /\ state'[x] # "CONNECTING"
      \/ a = "recv" /\ (peer'[x] = Null \/ Readable(x)')
      \/ a = "poll" /\ e = "POLLIN" /\ x \in open' /\ Readable(x)'
      \/ a \in EPoll /\ e = "POLLIN" /\ x \in open' /\ Arrived(x)'
      \/ a = "epoll" /\ e = "POLLOUT" /\ x \in open' /\ peer'[x] # Null /\ Writable(x)'
  BY <1>1, <1>x DEF CanGo, EPoll, Readable, Arrived, Writable, Dgram
<1>4. a # "idle" /\ x \in Sock /\ state[x] # "NONE" /\ (x \in open' => x \in open)
  BY <1>3, <1>x DEF CallSocks, CallSound, OpensNew, EPoll
<1>5. a = "epoll" /\ e = "POLLOUT" => state[x] = "CONNECTED"
  BY <1>x DEF CallSound
<1>6. CASE a \in EPoll
  <2>1. x \in open => x \notin N
    BY <1>1, <1>6, <1>x
  <2>2. x \in open' => Unheard(x)
    BY <1>4, <2>1
  <2> QED BY <1>2, <1>3, <1>4, <1>5, <1>6, <1>x, <2>2 DEF Unheard, CanGo, EPoll
<1>7. CASE a \notin EPoll
  <2>1. Hushed
    BY <1>1, <1>7
  <2>2. /\ Readable(x)' => Readable(x)
        /\ peer'[x] = Null => peer[x] = Null
        /\ state[x] = "CONNECTING" => state'[x] = "CONNECTING"
        /\ queue[x] = << >> => queue'[x] = << >>
    BY <1>4, <2>1 DEF Hushed
  <2>3. /\ a = "accept" => queue[x] = << >>
        /\ a = "connect" => state[x] = "CONNECTING"
        /\ a = "recv" => peer[x] # Null /\ ~Readable(x)
        /\ a = "poll" /\ e = "POLLIN" /\ x \in open => ~Readable(x)
    BY <1>2, <1>x DEF CanGo
  <2> QED BY <1>3, <1>4, <1>7, <2>2, <2>3 DEF EPoll
<1> QED BY <1>6, <1>7

\* Calls keep their socket, and a socket that has been made stays made, a
\* connected one connected.
LEMMA CallsSound ==
  ASSUME TypeOK, CallSocks, CallSound,
         NEW t \in Thread, NEW c \in Call, NEW b \in BOOLEAN, NEW N, Proceed(t, c, b, N),
         \A x \in Sock : /\ state[x] # "NONE" => state'[x] # "NONE"
                         /\ state[x] = "CONNECTED" => state'[x] = "CONNECTED",
         c.at # "idle" => c.sock \in Sock /\ state[c.sock] # "NONE",
         c.at = "epoll" /\ c.event = "POLLOUT" => state[c.sock] = "CONNECTED"
  PROVE  CallSound'
<1>1. /\ call'[t] = c
      /\ \A u \in Thread \ {t} : /\ call'[u].at = call[u].at /\ call'[u].sock = call[u].sock
                                 /\ call'[u].event = call[u].event
  BY Proceeds
<1> QED BY <1>1 DEF CallSound, CallSocks

\* A step of t that changes nothing but calls.
LEMMA QuietSound ==
  ASSUME Sound, NEW t \in Thread, NEW c \in Call, Quietly(t, c), UNCHANGED <<conn, data>>,
         c.at # "idle" => c.sock \in Sock /\ state[c.sock] # "NONE",
         c.at = "epoll" /\ c.event = "POLLOUT" => state[c.sock] = "CONNECTED",
         c.asleep => ~CanGo(c)
  PROVE  Sound'
<1>0. /\ Typed /\ TypeOK /\ CallSocks /\ CallSound /\ WakeSound
      /\ Proceed(t, c, FALSE, {})
  BY DEF Sound, Typed, Quietly
<1>1. Typed'
  BY QuietTyped DEF Sound
<1>2. UNCHANGED <<type, state, open, dir, peer, queue, backlog, buf>>
  BY DEF conn, data
<1>3. PeerSound' /\ QueueSound' /\ DataSound'
  BY <1>2 DEF Sound, PeerSound, PeerSymmetric, QueueSound, QueueBounded, DataSound, Dgram
<1>4. CallSound'
  BY <1>0, <1>2, CallsSound
<1>5. WakeSound'
  <2>1. call'[t] = c
    BY <1>0, Proceeds
  <2>2. call'[t].asleep => ~CanGo(call[t])'
    BY <1>2, <2>1 DEF CanGo, Readable, Writable, Arrived, Dgram
  <2>3. OpensNew /\ Hushed /\ \A x \in open \ {} : x \in open' => Unheard(x)
    BY <1>2 DEF OpensNew, Hushed, Unheard, Readable, Writable, Arrived, Dgram
  <2> QED BY <1>0, <2>2, <2>3, Wakes
<1> QED BY <1>1, <1>3, <1>4, <1>5 DEF Sound

-----------------------------------------------------------------------------
(* Steps of careful callers without timeouts *)

LEMMA InitSound == Init => Sound
<1> SUFFICES ASSUME Init PROVE Sound
  OBVIOUS
<1>1. Typed
  BY InitTyped
<1>2. /\ \A s \in Sock : /\ state[s] = "NONE" /\ peer[s] = Null /\ queue[s] = << >>
                         /\ buf[s] = << >> /\ dir[s] = "READ_WRITE" /\ backlog[s] = 0
      /\ \A t \in Thread : call[t] = Idle
      /\ open = {}
  BY DEF Init
<1>3. PeerSound /\ QueueSound /\ DataSound
  BY <1>2 DEF PeerSound, PeerSymmetric, QueueSound, QueueBounded, DataSound
<1>4. CallSound /\ WakeSound
  BY <1>2, CallFacts DEF CallSound, WakeSound
<1> QED BY <1>1, <1>3, <1>4 DEF Sound

\* The parts of the invariant.
LEMMA SoundParts ==
  ASSUME Sound
  PROVE  /\ Typed /\ TypeOK /\ CallSocks /\ PeerSound /\ QueueSound /\ DataSound
         /\ CallSound /\ WakeSound
         /\ \A s \in open : s \in Sock /\ state[s] # "NONE"
BY DEF Sound, Typed, TypeOK, PeerSound

LEMMA DozesSound ==
  ASSUME Sound, NEW t \in Thread, Dozes(t)
  PROVE  Sound'
<1>0. UNCHANGED <<conn, data>>
  BY DEF Dozes, ConnectResume, Poll, PollResume, PollTimeout, EPollWait, EPollResume
<1>1. CASE Quietly(t, Idle)
  BY <1>0, <1>1, CallFacts, QuietSound
<1>2. ASSUME call[t].at # "idle", Quietly(t, Sleeping(call[t])), ~CanGo(call[t])
      PROVE  Sound'
  <2>1. /\ Sleeping(call[t]) \in Call /\ Sleeping(call[t]).sock \in Sock
        /\ Sleeping(call[t]).at = call[t].at /\ Sleeping(call[t]).sock = call[t].sock
        /\ Sleeping(call[t]).event = call[t].event
    BY <1>2, SoundParts, Sleeps
  <2>2. /\ state[call[t].sock] # "NONE"
        /\ call[t].at = "epoll" /\ call[t].event = "POLLOUT" => state[call[t].sock] = "CONNECTED"
    BY <1>2, SoundParts DEF CallSound
  <2>3. ~CanGo(Sleeping(call[t]))
    BY <1>2, <2>1 DEF CanGo
  <2> QED BY <1>0, <1>2, <2>1, <2>2, <2>3, QuietSound
<1>3. ASSUME NEW w \in {"poll"} \cup EPoll, NEW s \in open, NEW event \in {"POLLIN", "POLLOUT"},
             Quietly(t, Waiting(w, s, event)),
             w = "epoll" /\ event = "POLLOUT" => state[s] = "CONNECTED" /\ (peer[s] # Null => ~Writable(s)),
             w = "poll" /\ event = "POLLIN" => ~Readable(s),
             w \in EPoll /\ event = "POLLIN" => ~Arrived(s)
      PROVE  Sound'
  <2>1. s \in Sock /\ event \in Events /\ state[s] # "NONE"
    BY SoundParts DEF Events
  <2> DEFINE c == Waiting(w, s, event)
  <2>2. c \in Call /\ c.at = w /\ c.sock = s /\ c.event = event
    BY <2>1, CallFacts
  <2>3. ~CanGo(c)
    BY <1>3, <2>2 DEF CanGo, EPoll
  <2> HIDE DEF c
  <2> QED BY <1>0, <1>3, <2>1, <2>2, <2>3, QuietSound DEF c
<1>4. CASE Poll(t)
  <2>1. PICK s \in open, event \in {"POLLIN", "POLLOUT"} :
          ~PollReady(s, event) /\ Quietly(t, Waiting("poll", s, event))
    BY <1>4 DEF Poll
  <2>2. event = "POLLIN" => ~Readable(s)
    BY <2>1, SoundParts, ReadyFacts
  <2> QED BY <1>3, <2>1, <2>2 DEF EPoll
<1>5. CASE EPollWait(t)
  <2>1. PICK s \in open, event \in {"POLLIN", "POLLOUT"} :
          /\ ~EPollReady(s, event)
          /\ Quietly(t, Waiting(IF state[s] = "CONNECTING" THEN "epollConnecting"
                                                          ELSE "epoll", s, event))
    BY <1>5 DEF EPollWait
  <2>2. s \in Sock /\ state[s] \in {"NEW", "CONNECTING", "CONNECTED", "LISTENING"}
    BY SoundParts DEF TypeOK
  <2>3. event = "POLLIN" => ~Arrived(s)
    BY <2>1, <2>2, SoundParts, ReadyFacts, ArrivedReadable
  <2>4. event = "POLLOUT" /\ state[s] # "CONNECTING" =>
          state[s] = "CONNECTED" /\ (peer[s] # Null => ~Writable(s))
    BY <2>1, <2>2, SoundParts, ReadyFacts
  <2>5. CASE state[s] = "CONNECTING"
    BY <1>3, <2>1, <2>3, <2>5 DEF EPoll
  <2>6. CASE state[s] # "CONNECTING"
    BY <1>3, <2>1, <2>3, <2>4, <2>6 DEF EPoll
  <2> QED BY <2>5, <2>6
<1>6. CASE PollTimeout(t)
  BY <1>1, <1>6 DEF PollTimeout
<1>7. CASE ConnectResume(t)
  <2>1. state[call[t].sock] = "CONNECTING" => ~CanGo(call[t])
    BY <1>7 DEF ConnectResume, Resumes, CanGo, EPoll
  <2> QED BY <1>1, <1>2, <1>7, <2>1 DEF ConnectResume, Resumes
<1>8. ASSUME call[t].at # "idle" PROVE call[t].sock \in Sock /\ state[call[t].sock] # "NONE"
  BY <1>8, SoundParts DEF CallSocks, CallSound
<1>9. CASE PollResume(t)
  <2>1. ~PollReady(call[t].sock, call[t].event) => ~CanGo(call[t])
    BY <1>8, <1>9, SoundParts, ReadyFacts DEF PollResume, Resumes, CanGo, EPoll
  <2> QED BY <1>1, <1>2, <1>9, <2>1 DEF PollResume, Resumes
<1>10. CASE EPollResume(t)
  <2>1. call[t].at \in EPoll
    BY <1>10 DEF EPollResume, Resumes
  <2>2. call[t].event = "POLLIN" /\ ~EPollReady(call[t].sock, call[t].event) /\ call[t].sock \in open
          => ~Arrived(call[t].sock)
    BY <1>8, <2>1, SoundParts, ReadyFacts, ArrivedReadable DEF EPoll
  <2>3. call[t].at = "epoll" /\ call[t].event = "POLLOUT" /\ peer[call[t].sock] # Null
          /\ ~EPollReady(call[t].sock, call[t].event) /\ call[t].sock \in open
          => ~Writable(call[t].sock)
    BY <1>8, <2>1, SoundParts, ReadyFacts DEF EPoll, CallSound
  <2>4. ~EPollReady(call[t].sock, call[t].event) => ~CanGo(call[t])
    BY <2>1, <2>2, <2>3 DEF CanGo, EPoll
  <2> QED BY <1>1, <1>2, <1>10, <2>1, <2>4 DEF EPollResume, EPoll
<1> QED BY <1>4, <1>5, <1>6, <1>7, <1>9, <1>10 DEF Dozes

\* A step of t that leaves the calls alone.
LEMMA Idles ==
  ASSUME TypeOK, NEW t \in Thread, Starts(t), UNCHANGED call
  PROVE  /\ Proceed(t, call[t], FALSE, {}) /\ call[t] \in Call /\ call[t].at = "idle"
         /\ ~CanGo(call[t])'
<1>1. \A u \in Thread : Woken(call[u], FALSE, {}) = call[u]
  BY DEF Woken
<1>2. call = [u \in Thread |-> call[u]]
  BY DEF TypeOK
<1>3. call' = [u \in Thread |-> IF u = t THEN call[t] ELSE Woken(call[u], FALSE, {})]
  BY <1>1, <1>2
<1> QED BY <1>3, CallTypes DEF Proceed, Starts, CanGo, EPoll

\* A step that makes the sockets of S and leaves the others as they are.
LEMMA MakesFrame ==
  ASSUME Sound, NEW t \in Thread, Starts(t), NEW S \in SUBSET Sock, open' = open \cup S,
         \A x \in S : state[x] = "NONE" /\ state'[x] \in {"NEW", "CONNECTED"},
         \A x \in Sock \ S : state'[x] = state[x] /\ dir'[x] = dir[x] /\ peer'[x] = peer[x],
         UNCHANGED <<type, queue, backlog, buf, call>>
  PROVE  QueueSound' /\ CallSound' /\ WakeSound'
<1>0. /\ TypeOK /\ CallSocks /\ CallSound /\ WakeSound /\ QueueSound
      /\ Proceed(t, call[t], FALSE, {}) /\ call[t] \in Call /\ call[t].at = "idle"
      /\ ~CanGo(call[t])'
      /\ \A s \in open : s \in Sock /\ state[s] # "NONE"
  BY SoundParts, Idles
<1>1. QueueSound'
  <2>1. \A l \in Sock : queue[l] # << >> => state'[l] = "LISTENING"
    BY <1>0 DEF QueueSound
  <2>2. \A l \in Sock : \A i \in 1 .. Len(queue[l]) : state'[queue[l][i]] = "CONNECTING"
    <3> SUFFICES ASSUME NEW l \in Sock, NEW i \in 1 .. Len(queue[l])
                 PROVE  state'[queue[l][i]] = "CONNECTING"
      OBVIOUS
    <3>1. queue[l][i] \in Sock
      BY <1>0 DEF TypeOK
    <3>2. state[queue[l][i]] = "CONNECTING"
      BY <1>0 DEF QueueSound
    <3>3. queue[l][i] \notin S
      BY <3>2
    <3> QED BY <3>1, <3>2, <3>3
  <2>3. \A s \in open' : state'[s] = "CONNECTING" =>
          \E l \in Sock : \E i \in 1 .. Len(queue[l]) : queue[l][i] = s
    <3>1. \A s \in open' : state'[s] = "CONNECTING" => s \in open /\ state[s] = "CONNECTING"
      BY <1>0
    <3> QED BY <1>0, <3>1 DEF QueueSound
  <2> QED BY <1>0, <2>1, <2>2, <2>3 DEF QueueSound, QueueBounded
<1>2. CallSound'
  <2>1. \A x \in Sock : /\ state[x] # "NONE" => state'[x] # "NONE"
                        /\ state[x] = "CONNECTED" => state'[x] = "CONNECTED"
    OBVIOUS
  <2> QED BY <1>0, <2>1, CallsSound
<1>3. WakeSound'
  <2>1. \A x \in Sock : state[x] # "NONE" =>
          state'[x] = state[x] /\ dir'[x] = dir[x] /\ peer'[x] = peer[x]
    OBVIOUS
  <2>2. OpensNew /\ Hushed
    BY <2>1 DEF OpensNew, Hushed, Readable, Dgram
  <2>3. \A x \in open \ {} : x \in open' => Unheard(x)
    BY <1>0, <2>1 DEF Unheard, Arrived, Writable
  <2> QED BY <1>0, <2>2, <2>3, Wakes
<1> QED BY <1>1, <1>2, <1>3

LEMMA SocketSound ==
  ASSUME Sound, NEW t \in Thread, Socket(t)
  PROVE  Sound'
<1>0. /\ TypeOK /\ PeerSound /\ DataSound
      /\ \A s \in open : s \in Sock /\ state[s] # "NONE"
  BY SoundParts
<1>1. PICK s \in Sock : state[s] = "NONE" /\ state' = [state EXCEPT ![s] = "NEW"] /\ open' = open \cup {s}
  BY DEF Socket
<1>2. Typed'
  BY MakesTyped, SoundParts
<1>3. UNCHANGED <<type, dir, peer, queue, backlog, bound, target, buf, call>> /\ Starts(t)
  BY DEF Socket, data
<1>4. /\ state'[s] = "NEW"
      /\ \A x \in Sock \ {s} : state'[x] = state[x] /\ dir'[x] = dir[x] /\ peer'[x] = peer[x]
  BY <1>0, <1>1, <1>3 DEF TypeOK
<1>5. QueueSound' /\ CallSound' /\ WakeSound'
  <2>1. {s} \in SUBSET Sock /\ \A x \in {s} : state[x] = "NONE" /\ state'[x] \in {"NEW", "CONNECTED"}
    BY <1>1, <1>4
  <2> QED BY <1>1, <1>3, <1>4, <2>1, MakesFrame
<1>6. PeerSound'
  BY <1>0, <1>1, <1>3, <1>4 DEF PeerSound, PeerSymmetric
<1>7. DataSound'
  BY <1>0, <1>1, <1>3, <1>4 DEF DataSound, Dgram
<1> QED BY <1>2, <1>5, <1>6, <1>7 DEF Sound

\* Two sockets that do not exist are made for each other; a pipe has a read and
\* a write end.
LEMMA MakePairSound ==
  ASSUME Sound, NEW t \in Thread, NEW d1, NEW d2, MakePair(t, d1, d2), Typed',
         \/ d1 = "READ_WRITE" /\ d2 = "READ_WRITE"
         \/ d1 = "READ_ONLY" /\ d2 = "WRITE_ONLY" /\ type = "SOCK_STREAM"
  PROVE  Sound'
<1>0. /\ TypeOK /\ PeerSound /\ DataSound
      /\ \A s \in open : s \in Sock /\ state[s] # "NONE"
  BY SoundParts
<1>1. PICK s1 \in Sock, s2 \in Sock :
         /\ s1 # s2 /\ state[s1] = "NONE" /\ state[s2] = "NONE"
         /\ state' = [state EXCEPT ![s1] = "CONNECTED", ![s2] = "CONNECTED"]
         /\ open' = open \cup {s1, s2}
         /\ dir' = [dir EXCEPT ![s1] = d1, ![s2] = d2]
         /\ peer' = [peer EXCEPT ![s1] = s2, ![s2] = s1]
  BY DEF MakePair
<1>3. UNCHANGED <<type, queue, backlog, bound, target, buf, call>> /\ Starts(t)
  BY DEF MakePair, data
<1>4. /\ state'[s1] = "CONNECTED" /\ state'[s2] = "CONNECTED"
      /\ dir'[s1] = d1 /\ dir'[s2] = d2 /\ peer'[s1] = s2 /\ peer'[s2] = s1
      /\ \A x \in Sock \ {s1, s2} : state'[x] = state[x] /\ dir'[x] = dir[x] /\ peer'[x] = peer[x]
  BY <1>0, <1>1 DEF TypeOK
<1>5. QueueSound' /\ CallSound' /\ WakeSound'
  <2>1. /\ {s1, s2} \in SUBSET Sock
        /\ \A x \in {s1, s2} : state[x] = "NONE" /\ state'[x] \in {"NEW", "CONNECTED"}
    BY <1>1, <1>4
  <2> QED BY <1>1, <1>3, <1>4, <2>1, MakesFrame
<1>6. \A x \in Sock \ {s1, s2} : peer[x] \notin {s1, s2}
  <2>1. s1 \notin open /\ s2 \notin open /\ s1 # Null /\ s2 # Null
    BY <1>0, <1>1, ConstantsAssumption
  <2> QED BY <1>0, <2>1 DEF PeerSound, PeerSymmetric
<1>7. PeerSound'
  <2>1. \A x \in Sock : peer'[x] # Null => {x, peer'[x]} \subseteq open' /\ peer'[peer'[x]] = x
    <3>1. \A x \in Sock \ {s1, s2} : peer[x] # Null => peer[x] \in Sock \ {s1, s2}
      BY <1>0, <1>6 DEF TypeOK
    <3>2. \A x \in Sock \ {s1, s2} : peer[x] # Null =>
            /\ peer'[x] = peer[x] /\ peer'[peer[x]] = peer[peer[x]]
            /\ x \in open /\ peer[x] \in open /\ peer[peer[x]] = x
      BY <1>0, <1>4, <3>1 DEF PeerSound, PeerSymmetric
    <3>3. \A x \in {s1, s2} : {x, peer'[x]} \subseteq open' /\ peer'[peer'[x]] = x
      BY <1>1, <1>4
    <3>4. ASSUME NEW x \in Sock \ {s1, s2}, peer'[x] # Null
          PROVE  {x, peer'[x]} \subseteq open' /\ peer'[peer'[x]] = x
      <4>1. peer'[x] = peer[x] /\ peer[x] # Null
        BY <1>4, <3>4
      <4>2. /\ peer'[peer[x]] = peer[peer[x]] /\ x \in open /\ peer[x] \in open
            /\ peer[peer[x]] = x
        BY <3>2, <4>1
      <4>3. x \in open' /\ peer[x] \in open'
        BY <1>1, <4>2
      <4> QED BY <4>1, <4>2, <4>3
    <3> QED BY <3>3, <3>4
  <2>2. \A x \in Sock : peer'[x] # Null => state'[x] = "CONNECTED"
    BY <1>0, <1>4 DEF PeerSound
  <2>3. ASSUME NEW x \in open' PROVE state'[x] # "NONE"
    <3>1. CASE x \in {s1, s2}
      BY <1>4, <3>1
    <3>2. CASE x \notin {s1, s2}
      <4>1. x \in open /\ x \in Sock /\ state[x] # "NONE"
        BY <1>0, <1>1, <3>2 DEF PeerSound
      <4> QED BY <1>4, <3>2, <4>1
    <3> QED BY <3>1, <3>2
  <2> QED BY <2>1, <2>2, <2>3 DEF PeerSound, PeerSymmetric
<1>8. DataSound'
  <2>1. /\ \A x \in Sock : state[x] # state'[x] => state'[x] = "CONNECTED"
        /\ type' = type /\ buf' = buf
    BY <1>3, <1>4
  <2>2. /\ Dgram' => \A x \in Sock : state'[x] \in {"NONE", "NEW", "CONNECTED"}
        /\ \A x \in Sock : buf'[x] # << >> => state'[x] = "CONNECTED" \/ Dgram'
    BY <1>0, <2>1 DEF DataSound, Dgram
  <2>3. /\ \A x \in Sock : dir'[x] # "READ_WRITE" => type' = "SOCK_STREAM" /\ state'[x] = "CONNECTED"
        /\ \A x \in Sock : dir'[x] = "WRITE_ONLY" => buf'[x] = << >>
    <3>1. type = "SOCK_STREAM" => buf[s1] = << >> /\ buf[s2] = << >>
      BY <1>0, <1>1 DEF DataSound, Dgram
    <3>2. CASE d1 = "READ_WRITE" /\ d2 = "READ_WRITE"
      BY <1>0, <1>4, <2>1, <3>2 DEF DataSound
    <3>3. CASE d1 = "READ_ONLY" /\ d2 = "WRITE_ONLY" /\ type = "SOCK_STREAM"
      BY <1>0, <1>4, <2>1, <3>1, <3>3 DEF DataSound
    <3> QED BY <3>2, <3>3
  <2>4. \A x \in Sock : peer'[x] # Null /\ dir'[peer'[x]] = "WRITE_ONLY" => dir'[x] = "READ_ONLY"
    <3>1. \A x \in Sock \ {s1, s2} : peer[x] # Null => peer[x] \in Sock \ {s1, s2}
      BY <1>0, <1>6 DEF TypeOK
    <3> QED BY <1>0, <1>4, <3>1 DEF DataSound
  <2> QED BY <2>2, <2>3, <2>4 DEF DataSound
<1> QED BY <1>5, <1>7, <1>8 DEF Sound

\* bind and connect of a datagram socket change nothing that matters here.
LEMMA NamesSound ==
  ASSUME Sound, NEW t \in Thread, Bind(t) \/ ConnectDgram(t)
  PROVE  Sound'
<1>1. Typed'
  BY MakesTyped, SoundParts
<1>2. UNCHANGED <<type, state, open, dir, peer, queue, backlog, buf, call>> /\ Starts(t)
  BY DEF Bind, ConnectDgram, data
<1>3. PeerSound' /\ QueueSound' /\ DataSound'
  BY <1>2 DEF Sound, PeerSound, PeerSymmetric, QueueSound, QueueBounded, DataSound, Dgram
<1>4. CallSound' /\ WakeSound'
  BY <1>2 DEF Sound, CallSound, WakeSound, CanGo, Readable, Writable, Arrived, Dgram
<1> QED BY <1>1, <1>3, <1>4 DEF Sound

\* listen, on a socket that is new or already listens.
LEMMA ListenSound ==
  ASSUME Sound, Careful, NEW t \in Thread, Listen(t)
  PROVE  Sound'
<1>0. /\ TypeOK /\ CallSocks /\ CallSound /\ WakeSound /\ PeerSound /\ QueueSound /\ DataSound
      /\ \A s \in open : s \in Sock /\ state[s] # "NONE"
  BY SoundParts
<1>1. Typed'
  BY MakesTyped, SoundParts
<1>2. PICK s \in open, n \in 0 .. MaxBacklog :
        /\ ListenOnce(s, n)
        /\ state' = [state EXCEPT ![s] = "LISTENING"]
        /\ backlog' = [backlog EXCEPT ![s] = n]
  BY DEF Listen
<1>3. UNCHANGED <<type, open, dir, peer, queue, buf, call>> /\ Starts(t) /\ ~Dgram
  BY DEF Listen, data
<1>4. /\ s \in Sock /\ state[s] \in {"NEW", "LISTENING"} /\ state'[s] = "LISTENING"
      /\ \A x \in Sock \ {s} : state'[x] = state[x]
      /\ n >= Len(queue[s]) /\ backlog'[s] = n /\ \A x \in Sock \ {s} : backlog'[x] = backlog[x]
  BY <1>0, <1>2 DEF ListenOnce, TypeOK
<1>5. PeerSound'
  BY <1>0, <1>3, <1>4 DEF PeerSound, PeerSymmetric
<1>6. QueueSound'
  <2>1. QueueBounded'
    BY <1>0, <1>3, <1>4 DEF QueueSound, QueueBounded, TypeOK
  <2>2. \A l \in Sock : \A i \in 1 .. Len(queue[l]) : state'[queue[l][i]] = "CONNECTING"
    <3> SUFFICES ASSUME NEW l \in Sock, NEW i \in 1 .. Len(queue[l])
                 PROVE  state'[queue[l][i]] = "CONNECTING"
      OBVIOUS
    <3>1. queue[l] \in Seq(Sock)
      BY <1>0 DEF TypeOK
    <3>2. queue[l][i] \in Sock /\ state[queue[l][i]] = "CONNECTING"
      BY <1>0, <3>1 DEF QueueSound
    <3> QED BY <1>4, <3>2
  <2> QED BY <1>0, <1>3, <1>4, <2>1, <2>2 DEF QueueSound
<1>7. DataSound'
  BY <1>0, <1>3, <1>4 DEF DataSound, Dgram
<1>8. Proceed(t, call[t], FALSE, {}) /\ call[t] \in Call /\ call[t].at = "idle" /\ ~CanGo(call[t])'
  BY <1>0, <1>3, Idles
<1>9. CallSound'
  <2>1. \A x \in Sock : /\ state[x] # "NONE" => state'[x] # "NONE"
                        /\ state[x] = "CONNECTED" => state'[x] = "CONNECTED"
    BY <1>4
  <2> QED BY <1>0, <1>8, <2>1, CallsSound
<1>10. WakeSound'
  <2>1. OpensNew /\ Hushed
    BY <1>3, <1>4 DEF OpensNew, Hushed, Readable, Dgram
  <2>2. \A x \in open \ {} : x \in open' => Unheard(x)
    BY <1>3, <1>4 DEF Unheard, Arrived, Writable
  <2> QED BY <1>0, <1>8, <2>1, <2>2, Wakes
<1> QED BY <1>1, <1>5, <1>6, <1>7, <1>9, <1>10 DEF Sound

\* connect queues the socket at a listener and goes to sleep.
LEMMA ConnectSound ==
  ASSUME Sound, Careful, NEW t \in Thread, Connect(t)
  PROVE  Sound'
<1>0. /\ TypeOK /\ CallSocks /\ CallSound /\ WakeSound /\ PeerSound /\ QueueSound /\ DataSound
      /\ \A s \in open : s \in Sock /\ state[s] # "NONE"
  BY SoundParts
<1>1. Typed'
  BY ConnectTyped, SoundParts
<1>2. PICK s \in open, n \in Name :
        /\ state[s] = "NEW" /\ GetByName(n) # Null
        /\ state[GetByName(n)] = "LISTENING" /\ HasRoom(GetByName(n))
        /\ queue' = [queue EXCEPT ![GetByName(n)] = Append(@, s)]
        /\ state' = [state EXCEPT ![s] = "CONNECTING"]
        /\ IF Len(queue'[GetByName(n)]) = 1
             THEN Proceed(t, Waiting("connect", s, Null), TRUE, {GetByName(n)} \cap open)
             ELSE Proceed(t, Waiting("connect", s, Null), FALSE, {})
  BY Zenon DEF Connect, Quietly, ConnectOnce
<1>3. UNCHANGED <<type, open, dir, peer, backlog, buf>> /\ ~Dgram
  BY DEF Connect, data
<1>4. PICK l \in Sock : l = GetByName(n)
  BY <1>0, <1>2 DEF TypeOK, GetByName
<1>5. /\ s \in Sock /\ s # l /\ state'[s] = "CONNECTING" /\ \A x \in Sock \ {s} : state'[x] = state[x]
      /\ queue[l] \in Seq(Sock) /\ queue'[l] = Append(queue[l], s)
      /\ \A x \in Sock \ {l} : queue'[x] = queue[x]
  BY <1>0, <1>2, <1>4 DEF TypeOK
<1>6. /\ Len(queue[l]) \in Nat /\ Len(queue'[l]) = Len(queue[l]) + 1 /\ queue'[l] # << >>
      /\ queue'[l][Len(queue[l]) + 1] = s
      /\ \A i \in 1 .. Len(queue[l]) : queue'[l][i] = queue[l][i]
  BY <1>5
<1>7. \A m \in Sock : \A i \in 1 .. Len(queue[m]) : queue[m][i] \in Sock /\ queue[m][i] # s
                                                    /\ state[queue[m][i]] = "CONNECTING"
  <2> SUFFICES ASSUME NEW m \in Sock, NEW i \in 1 .. Len(queue[m])
               PROVE  queue[m][i] \in Sock /\ queue[m][i] # s /\ state[queue[m][i]] = "CONNECTING"
    OBVIOUS
  <2>1. queue[m] \in Seq(Sock) /\ state[queue[m][i]] = "CONNECTING"
    BY <1>0 DEF TypeOK, QueueSound
  <2> QED BY <1>2, <2>1
<1>8. PeerSound'
  BY <1>0, <1>2, <1>3, <1>5 DEF PeerSound, PeerSymmetric
<1>9. QueueSound'
  <2>1. \A m \in Sock : \A i \in 1 .. Len(queue'[m]) :
          \/ m = l /\ i = Len(queue[l]) + 1 /\ queue'[m][i] = s
          \/ i \in 1 .. Len(queue[m]) /\ queue'[m][i] = queue[m][i]
    BY <1>5, <1>6
  <2>2. \A m \in Sock : \A i \in 1 .. Len(queue[m]) : i \in 1 .. Len(queue'[m]) /\ queue'[m][i] = queue[m][i]
    BY <1>5, <1>6
  <2>3. \A m \in Sock : queue'[m] # << >> => state'[m] = "LISTENING"
    BY <1>0, <1>2, <1>4, <1>5 DEF QueueSound
  <2>4. \A m, o \in Sock : \A i \in 1 .. Len(queue'[m]), j \in 1 .. Len(queue'[o]) :
          queue'[m][i] = queue'[o][j] => m = o /\ i = j
    <3> SUFFICES ASSUME NEW m \in Sock, NEW o \in Sock, NEW i \in 1 .. Len(queue'[m]),
                        NEW j \in 1 .. Len(queue'[o]), queue'[m][i] = queue'[o][j]
                 PROVE  m = o /\ i = j
      OBVIOUS
    <3>1. CASE i \in 1 .. Len(queue[m]) /\ j \in 1 .. Len(queue[o])
      <4>1. queue[m][i] = queue[o][j]
        BY <2>2, <3>1
      <4> QED BY <1>0, <3>1, <4>1 DEF QueueSound
    <3>2. CASE i \notin 1 .. Len(queue[m]) \/ j \notin 1 .. Len(queue[o])
      BY <1>7, <2>1, <3>2
    <3> QED BY <3>1, <3>2
  <2>5. \A m \in Sock : \A i \in 1 .. Len(queue'[m]) : state'[queue'[m][i]] = "CONNECTING"
    BY <1>5, <1>7, <2>1
  <2>6. \A x \in open : state'[x] = "CONNECTING" =>
          \E m \in Sock : \E i \in 1 .. Len(queue'[m]) : queue'[m][i] = x
    <3>1. ASSUME NEW x \in open, x # s, state'[x] = "CONNECTING"
          PROVE  \E m \in Sock : \E i \in 1 .. Len(queue'[m]) : queue'[m][i] = x
      <4>1. state[x] = "CONNECTING"
        BY <1>0, <1>5, <3>1
      <4>2. PICK m \in Sock : \E i \in 1 .. Len(queue[m]) : queue[m][i] = x
        BY <1>0, <4>1 DEF QueueSound
      <4> QED BY <2>2, <4>2
    <3>2. \E i \in 1 .. Len(queue'[l]) : queue'[l][i] = s
      BY <1>6
    <3> QED BY <3>1, <3>2
  <2>7. QueueBounded'
    <3>1. Len(queue[l]) <= backlog[l] /\ Len(queue[l]) # backlog[l] /\ backlog[l] \in Nat
      BY <1>0, <1>2, <1>4 DEF QueueSound, QueueBounded, HasRoom, TypeOK
    <3>2. Len(queue'[l]) <= backlog[l]
      BY <1>6, <3>1
    <3> QED BY <1>0, <1>3, <1>5, <3>2 DEF QueueSound, QueueBounded
  <2> QED BY <1>3, <2>3, <2>4, <2>5, <2>6, <2>7 DEF QueueSound
<1>10. DataSound'
  BY <1>0, <1>2, <1>3, <1>5 DEF DataSound, Dgram
<1> DEFINE c == Waiting("connect", s, Null)
           b == Len(queue'[l]) = 1
           N == IF b THEN {l} \cap open ELSE {}
<1>11. c \in Call /\ c.at = "connect" /\ c.sock = s /\ Proceed(t, c, b, N)
  <2>0. s \in Sock
    BY <1>5
  <2>1. c \in Call /\ c.at = "connect" /\ c.sock = s
    BY <2>0, CallFacts
  <2>2. CASE b = TRUE
    <3>1. N = {l} \cap open
      BY <2>2
    <3>2. Proceed(t, c, TRUE, {l} \cap open)
      BY <1>2, <1>4, <2>2
    <3> QED BY <2>1, <2>2, <3>1, <3>2
  <2>3. CASE b = FALSE
    <3>1. N = {}
      BY <2>3
    <3>2. Proceed(t, c, FALSE, {})
      BY <1>2, <1>4, <2>3
    <3> QED BY <2>1, <2>3, <3>1, <3>2
  <2> QED BY <2>2, <2>3
<1>12. CallSound'
  <2>1. \A x \in Sock : /\ state[x] # "NONE" => state'[x] # "NONE"
                        /\ state[x] = "CONNECTED" => state'[x] = "CONNECTED"
    BY <1>2, <1>5
  <2>2. b \in BOOLEAN
    OBVIOUS
  <2> HIDE DEF c, b, N
  <2> QED BY <1>0, <1>2, <1>5, <1>11, <2>1, <2>2, CallsSound
<1>13. WakeSound'
  <2>1. call'[t].asleep => ~CanGo(call[t])'
    <3>1. call'[t] = c
      <4> HIDE DEF c, N
      <4> QED BY <1>0, <1>11, Proceeds
    <3>2. call'[t].at = "connect" /\ call'[t].sock = s
      BY <1>11, <3>1
    <3> QED BY <1>5, <3>2 DEF CanGo, EPoll
  <2>2. OpensNew
    BY <1>3 DEF OpensNew
  <2>3. ~b => queue[l] # << >>
    BY <1>5, <1>6
  <2>4. ~b => Hushed
    <3> SUFFICES ASSUME ~b PROVE Hushed
      OBVIOUS
    <3>1. \A x \in Sock : Readable(x)' => Readable(x)
      BY <1>2, <1>3, <1>4, <1>5, <2>3 DEF Readable, Dgram
    <3> QED BY <1>3, <1>5, <2>3, <3>1 DEF Hushed
  <2>5. \A x \in open \ N : x \in open' => Unheard(x)
    <3>1. \A x \in open \ N : x # l \/ queue[x] # << >>
      BY <2>3
    <3> QED BY <1>0, <1>3, <1>5, <3>1 DEF Unheard, Arrived, Writable
  <2>6. b \in BOOLEAN
    OBVIOUS
  <2> HIDE DEF c, b, N
  <2> QED BY <1>0, <1>11, <2>1, <2>2, <2>4, <2>5, <2>6, Wakes
<1> QED BY <1>1, <1>8, <1>9, <1>10, <1>12, <1>13 DEF Sound

\* A queue that loses its first k entries.
LEMMA QueueShrinks ==
  ASSUME TypeOK, QueueSound, NEW l \in Sock, NEW r, NEW k \in 0 .. Len(queue[l]),
         Rest(r, queue[l], k), queue' = [queue EXCEPT ![l] = r]
  PROVE  /\ \A m \in Sock : queue[m] = << >> => queue'[m] = << >>
         /\ \A m \in Sock : Len(queue'[m]) <= Len(queue[m])
         /\ \A m \in Sock : \A i \in 1 .. Len(queue'[m]) : \E j \in 1 .. Len(queue[m]) :
              queue'[m][i] = queue[m][j] /\ (m = l => j > k)
         /\ \A m \in Sock : \A j \in 1 .. Len(queue[m]) : (m = l => j > k) =>
              \E i \in 1 .. Len(queue'[m]) : queue'[m][i] = queue[m][j]
         /\ \A m, o \in Sock : \A i \in 1 .. Len(queue'[m]), j \in 1 .. Len(queue'[o]) :
              queue'[m][i] = queue'[o][j] => m = o /\ i = j
<1> DEFINE off(m) == IF m = l THEN k ELSE 0
<1>0. /\ \A m \in Sock : queue[m] \in Seq(Sock) /\ Len(queue[m]) \in Nat /\ off(m) \in Nat
      /\ queue'[l] = r /\ \A m \in Sock \ {l} : queue'[m] = queue[m]
      /\ r \in Seq(Sock) /\ Len(r) = Len(queue[l]) - k /\ \A i \in 1 .. Len(r) : r[i] = queue[l][i + k]
  BY DEF TypeOK, Rest
<1>1. \A m \in Sock : queue'[m] \in Seq(Sock) /\ Len(queue'[m]) = Len(queue[m]) - off(m)
  <2> SUFFICES ASSUME NEW m \in Sock
               PROVE  queue'[m] \in Seq(Sock) /\ Len(queue'[m]) = Len(queue[m]) - off(m)
    OBVIOUS
  <2>1. CASE m = l
    BY <1>0, <2>1
  <2>2. CASE m # l
    BY <1>0, <2>2
  <2> QED BY <2>1, <2>2
<1>2. ASSUME NEW m \in Sock, NEW i \in 1 .. Len(queue'[m])
      PROVE  i + off(m) \in 1 .. Len(queue[m]) /\ queue'[m][i] = queue[m][i + off(m)]
  <2>1. CASE m = l
    BY <1>0, <2>1
  <2>2. CASE m # l
    BY <1>0, <2>2
  <2> QED BY <2>1, <2>2
<1>3. ASSUME NEW m \in Sock, NEW j \in 1 .. Len(queue[m]), m = l => j > k
      PROVE  j - off(m) \in 1 .. Len(queue'[m]) /\ queue'[m][j - off(m)] = queue[m][j]
  <2>1. j - off(m) \in 1 .. Len(queue'[m]) /\ j - off(m) + off(m) = j
    BY <1>0, <1>1, <1>3
  <2> QED BY <1>2, <2>1
<1>4. \A m \in Sock : queue[m] = << >> => queue'[m] = << >>
  <2>1. ASSUME NEW m \in Sock, queue[m] = << >> PROVE queue'[m] = << >>
    <3>1. Len(queue'[m]) = 0
      BY <1>0, <1>1, <2>1
    <3> QED BY <1>1, <3>1
  <2> QED BY <2>1
<1>5. ASSUME NEW m \in Sock, NEW o \in Sock, NEW i \in 1 .. Len(queue'[m]),
             NEW j \in 1 .. Len(queue'[o]), queue'[m][i] = queue'[o][j]
      PROVE  m = o /\ i = j
  <2>1. queue[m][i + off(m)] = queue[o][j + off(o)]
    BY <1>2, <1>5
  <2>2. m = o /\ i + off(m) = j + off(o)
    <3> HIDE DEF off
    <3> QED BY <1>2, <2>1 DEF QueueSound
  <2> QED BY <1>0, <2>2
<1>6. \A m \in Sock : Len(queue'[m]) <= Len(queue[m])
  BY <1>0, <1>1
<1>7. \A m \in Sock : \A i \in 1 .. Len(queue'[m]) : \E j \in 1 .. Len(queue[m]) :
              queue'[m][i] = queue[m][j] /\ (m = l => j > k)
  <2> SUFFICES ASSUME NEW m \in Sock, NEW i \in 1 .. Len(queue'[m])
               PROVE  \E j \in 1 .. Len(queue[m]) : queue'[m][i] = queue[m][j] /\ (m = l => j > k)
    OBVIOUS
  <2>1. m = l => i + off(m) > k
    BY <1>0
  <2>2. i + off(m) \in 1 .. Len(queue[m]) /\ queue'[m][i] = queue[m][i + off(m)]
    BY <1>2
  <2> HIDE DEF off
  <2> QED BY <2>1, <2>2
<1> QED BY <1>3, <1>4, <1>5, <1>6, <1>7

\* An accept that skips closed connections and answers nobody.
LEMMA SkipsSound ==
  ASSUME Sound, NEW t \in Thread, NEW l \in Sock, state[l] # "NONE",
         Skips(t, l, SkipClosed(queue[l])), UNCHANGED <<type, backlog, bound, target, data>>
  PROVE  Sound'
<1>0. /\ TypeOK /\ CallSocks /\ CallSound /\ WakeSound /\ PeerSound /\ QueueSound /\ DataSound
      /\ \A s \in open : s \in Sock /\ state[s] # "NONE"
  BY SoundParts
<1> DEFINE q == SkipClosed(queue[l])
<1>1. PICK k \in 0 .. Len(queue[l]) : Rest(q, queue[l], k) /\ \A i \in 1 .. k : queue[l][i] \notin open
  BY <1>0, SkipClosedFacts DEF TypeOK
<1>2. Typed'
  BY <1>1, SoundParts, AnswerTyped DEF Rest
<1>3. /\ queue' = [queue EXCEPT ![l] = q]
      /\ UNCHANGED <<type, state, open, dir, peer, backlog, buf>>
  BY DEF Skips, data
<1>4. PICK c \in {Idle, Waiting("accept", l, Null)} :
        Proceed(t, c, FALSE, {}) /\ (c = Idle \/ q = << >>)
  BY DEF Skips, Quietly
<1> HIDE DEF q
<1>5. /\ \A m \in Sock : queue[m] = << >> => queue'[m] = << >>
      /\ \A m \in Sock : Len(queue'[m]) <= Len(queue[m])
      /\ \A m \in Sock : \A i \in 1 .. Len(queue'[m]) : \E j \in 1 .. Len(queue[m]) :
           queue'[m][i] = queue[m][j] /\ (m = l => j > k)
      /\ \A m \in Sock : \A j \in 1 .. Len(queue[m]) : (m = l => j > k) =>
           \E i \in 1 .. Len(queue'[m]) : queue'[m][i] = queue[m][j]
      /\ \A m, o \in Sock : \A i \in 1 .. Len(queue'[m]), j \in 1 .. Len(queue'[o]) :
           queue'[m][i] = queue'[o][j] => m = o /\ i = j
  BY <1>0, <1>1, <1>3, QueueShrinks
<1>6. PeerSound' /\ DataSound'
  BY <1>0, <1>3 DEF PeerSound, PeerSymmetric, DataSound, Dgram
<1>7. QueueSound'
  <2>1. \A m \in Sock : \A i \in 1 .. Len(queue'[m]) : state[queue'[m][i]] = "CONNECTING"
    <3> SUFFICES ASSUME NEW m \in Sock, NEW i \in 1 .. Len(queue'[m])
                 PROVE  state[queue'[m][i]] = "CONNECTING"
      OBVIOUS
    <3>1. PICK j \in 1 .. Len(queue[m]) : queue'[m][i] = queue[m][j]
      BY <1>5
    <3> QED BY <1>0, <3>1 DEF QueueSound
  <2>2. \A s \in open : state[s] = "CONNECTING" =>
          \E m \in Sock : \E i \in 1 .. Len(queue'[m]) : queue'[m][i] = s
    <3> SUFFICES ASSUME NEW s \in open, state[s] = "CONNECTING"
                 PROVE  \E m \in Sock : \E i \in 1 .. Len(queue'[m]) : queue'[m][i] = s
      OBVIOUS
    <3>1. PICK m \in Sock : \E j \in 1 .. Len(queue[m]) : queue[m][j] = s
      BY <1>0 DEF QueueSound
    <3>2. PICK j \in 1 .. Len(queue[m]) : queue[m][j] = s
      BY <3>1
    <3>3. m = l => j > k
      BY <1>1, <3>2
    <3>4. \E i \in 1 .. Len(queue'[m]) : queue'[m][i] = queue[m][j]
      BY <1>5, <3>3
    <3> QED BY <3>2, <3>4
  <2>3. QueueBounded'
    BY <1>0, <1>3, <1>5, <1>2 DEF QueueSound, QueueBounded, TypeOK, Typed
  <2>4. \A m \in Sock : queue'[m] # << >> => state[m] = "LISTENING"
    BY <1>0, <1>5 DEF QueueSound
  <2> QED BY <1>3, <1>5, <2>1, <2>2, <2>3, <2>4 DEF QueueSound
<1>8. c \in Call /\ (c.at # "idle" => c.at = "accept" /\ c.sock = l)
  <2>1. CASE c = Idle
    BY <2>1, CallFacts
  <2>2. CASE c = Waiting("accept", l, Null)
    <3>1. /\ Waiting("accept", l, Null) \in Call
          /\ Waiting("accept", l, Null).at = "accept" /\ Waiting("accept", l, Null).sock = l
      BY CallFacts
    <3> QED BY <2>2, <3>1
  <2> QED BY <2>1, <2>2
<1>9. CallSound'
  BY <1>0, <1>3, <1>4, <1>8, CallsSound
<1>10. WakeSound'
  <2>1. call'[t].asleep => ~CanGo(call[t])'
    <3>1. call'[t] = c
      BY <1>0, <1>4, <1>8, Proceeds
    <3>2. c # Idle => c.at = "accept" /\ c.sock = l /\ queue'[l] = << >>
      <4>1. c # Idle => c = Waiting("accept", l, Null) /\ q = << >>
        BY <1>4
      <4>2. Waiting("accept", l, Null).at = "accept" /\ Waiting("accept", l, Null).sock = l
        BY DEF Waiting
      <4>3. queue'[l] = q
        BY <1>0, <1>3 DEF TypeOK
      <4> QED BY <4>1, <4>2, <4>3
    <3>3. c # Idle => ~CanGo(call[t])'
      BY <3>1, <3>2 DEF CanGo, EPoll
    <3> QED BY <3>1, <3>3, CallFacts
  <2>2. OpensNew /\ Hushed
    BY <1>3, <1>5 DEF OpensNew, Hushed, Readable, Dgram
  <2>3. \A x \in open \ {} : x \in open' => Unheard(x)
    BY <1>0, <1>3, <1>5 DEF Unheard, Arrived, Writable
  <2> QED BY <1>0, <1>4, <1>8, <2>1, <2>2, <2>3, Wakes
<1> QED BY <1>2, <1>6, <1>7, <1>9, <1>10 DEF Sound

\* An accept that answers the first connection that is still open.
LEMMA PairsSound ==
  ASSUME Sound, NEW t \in Thread, NEW l \in Sock, NEW server \in Sock,
         Pairs(t, l, SkipClosed(queue[l]), server), UNCHANGED <<type, backlog, bound, target, data>>
  PROVE  Sound'
<1>0. /\ TypeOK /\ CallSocks /\ CallSound /\ WakeSound /\ PeerSound /\ QueueSound /\ DataSound
      /\ \A s \in open : s \in Sock /\ state[s] # "NONE"
  BY SoundParts
<1> DEFINE q == SkipClosed(queue[l])
<1>1. PICK k \in 0 .. Len(queue[l]) : Rest(q, queue[l], k) /\ \A i \in 1 .. k : queue[l][i] \notin open
  BY <1>0, SkipClosedFacts DEF TypeOK
<1>2. Typed'
  BY <1>1, SoundParts, AnswerTyped DEF Rest
<1>3. /\ l \in open /\ q # << >> /\ state[server] = "NONE" /\ Head(q) \in open
      /\ queue' = [queue EXCEPT ![l] = Tail(q)]
      /\ open' = open \cup {server}
      /\ peer' = [peer EXCEPT ![server] = Head(q), ![Head(q)] = server]
      /\ state' = [state EXCEPT ![server] = "CONNECTED", ![Head(q)] = "CONNECTED"]
      /\ Proceed(t, Idle, TRUE, {l})
      /\ UNCHANGED <<type, dir, backlog, buf>>
  BY <1>0, SkipClosedFacts DEF Pairs, TypeOK, data
<1> HIDE DEF q
<1>4. PICK h \in Sock : h = Head(q)
  BY <1>0, <1>3
<1>5. /\ k + 1 \in 1 .. Len(queue[l]) /\ queue[l][k + 1] = h
      /\ Rest(Tail(q), queue[l], k + 1)
  <2>1. /\ queue[l] \in Seq(Sock) /\ Len(queue[l]) \in Nat /\ q \in Seq(Sock)
        /\ Len(q) = Len(queue[l]) - k
        /\ \A i \in 1 .. Len(q) : q[i] = queue[l][i + k]
    BY <1>0, <1>1 DEF TypeOK, Rest
  <2>2. /\ Len(q) >= 1 /\ Head(q) = q[1] /\ Tail(q) \in Seq(Sock) /\ Len(Tail(q)) = Len(q) - 1
        /\ \A i \in 1 .. Len(Tail(q)) : Tail(q)[i] = q[i + 1]
    BY <1>3, <2>1
  <2>3. k + 1 \in 1 .. Len(queue[l]) /\ queue[l][k + 1] = h
    BY <1>4, <2>1, <2>2
  <2>4. \A i \in 1 .. Len(Tail(q)) : Tail(q)[i] = queue[l][i + (k + 1)]
    BY <2>1, <2>2
  <2> QED BY <2>1, <2>2, <2>3, <2>4 DEF Rest
<1>6. /\ state[h] = "CONNECTING" /\ state[l] = "LISTENING" /\ h # l /\ h # server /\ l # server
      /\ h \in open /\ server \notin open
  <2>1. state[h] = "CONNECTING" /\ queue[l] # << >>
    BY <1>0, <1>5 DEF QueueSound
  <2> QED BY <1>0, <1>3, <1>4, <2>1 DEF QueueSound
<1>7. /\ state'[server] = "CONNECTED" /\ state'[h] = "CONNECTED"
      /\ peer'[server] = h /\ peer'[h] = server
      /\ \A x \in Sock \ {h, server} : state'[x] = state[x] /\ peer'[x] = peer[x]
      /\ \A x \in Sock \ {l} : queue'[x] = queue[x]
  BY <1>0, <1>3, <1>4, <1>6 DEF TypeOK
<1>8. peer[h] = Null /\ peer[server] = Null /\ \A x \in Sock : peer[x] \notin {h, server}
  <2>1. peer[h] = Null /\ peer[server] = Null
    BY <1>0, <1>3, <1>6 DEF PeerSound
  <2>2. h # Null /\ server # Null /\ \A x \in Sock : x # Null
    BY ConstantsAssumption
  <2> QED BY <1>0, <2>1, <2>2 DEF PeerSound, PeerSymmetric
<1>9. PeerSound'
  <2>1. ASSUME NEW x \in Sock \ {h, server}, peer'[x] # Null
        PROVE  {x, peer'[x]} \subseteq open' /\ peer'[peer'[x]] = x
    <3>1. peer'[x] = peer[x] /\ peer[x] \in Sock \ {h, server}
      BY <1>0, <1>7, <1>8, <2>1 DEF TypeOK
    <3>2. x \in open /\ peer[x] \in open /\ peer[peer[x]] = x
      BY <1>0, <2>1, <3>1 DEF PeerSound, PeerSymmetric
    <3>3. x \in open' /\ peer[x] \in open'
      BY <1>3, <3>2
    <3>4. peer'[peer[x]] = peer[peer[x]]
      BY <1>7, <3>1
    <3> QED BY <3>1, <3>2, <3>3, <3>4
  <2>2. \A x \in {h, server} : {x, peer'[x]} \subseteq open' /\ peer'[peer'[x]] = x
    BY <1>3, <1>6, <1>7
  <2>3. \A x \in Sock : peer'[x] # Null => state'[x] = "CONNECTED"
    BY <1>0, <1>7 DEF PeerSound
  <2>4. ASSUME NEW x \in open' PROVE state'[x] # "NONE"
    <3>1. CASE x \in {h, server}
      BY <1>7, <3>1
    <3>2. CASE x \notin {h, server}
      <4>1. x \in open /\ x \in Sock /\ state[x] # "NONE"
        BY <1>0, <1>3, <3>2 DEF PeerSound
      <4> QED BY <1>7, <3>2, <4>1
    <3> QED BY <3>1, <3>2
  <2> QED BY <2>1, <2>2, <2>3, <2>4 DEF PeerSound, PeerSymmetric
<1>10. /\ \A m \in Sock : queue[m] = << >> => queue'[m] = << >>
       /\ \A m \in Sock : Len(queue'[m]) <= Len(queue[m])
       /\ \A m \in Sock : \A i \in 1 .. Len(queue'[m]) : \E j \in 1 .. Len(queue[m]) :
            queue'[m][i] = queue[m][j] /\ (m = l => j > k + 1)
       /\ \A m \in Sock : \A j \in 1 .. Len(queue[m]) : (m = l => j > k + 1) =>
            \E i \in 1 .. Len(queue'[m]) : queue'[m][i] = queue[m][j]
       /\ \A m, o \in Sock : \A i \in 1 .. Len(queue'[m]), j \in 1 .. Len(queue'[o]) :
            queue'[m][i] = queue'[o][j] => m = o /\ i = j
  <2>1. k + 1 \in 0 .. Len(queue[l])
    BY <1>5
  <2> QED BY <1>0, <1>3, <1>5, <2>1, QueueShrinks
<1>11. QueueSound'
  <2>1. \A m \in Sock : \A i \in 1 .. Len(queue'[m]) : state'[queue'[m][i]] = "CONNECTING"
    <3> SUFFICES ASSUME NEW m \in Sock, NEW i \in 1 .. Len(queue'[m])
                 PROVE  state'[queue'[m][i]] = "CONNECTING"
      OBVIOUS
    <3>1. PICK j \in 1 .. Len(queue[m]) : queue'[m][i] = queue[m][j] /\ (m = l => j > k + 1)
      BY <1>10
    <3>2. queue[m] \in Seq(Sock) /\ state[queue[m][j]] = "CONNECTING"
      BY <1>0 DEF QueueSound, TypeOK
    <3>3. queue[m][j] # h
      <4>1. ~(m = l /\ j = k + 1)
        BY <3>1
      <4> QED BY <1>0, <1>5, <4>1 DEF QueueSound
    <3>4. queue[m][j] \in Sock \ {h, server}
      BY <1>3, <3>2, <3>3
    <3> QED BY <1>7, <3>1, <3>2, <3>4
  <2>2. \A s \in open' : state'[s] = "CONNECTING" =>
          \E m \in Sock : \E i \in 1 .. Len(queue'[m]) : queue'[m][i] = s
    <3> SUFFICES ASSUME NEW s \in open', state'[s] = "CONNECTING"
                 PROVE  \E m \in Sock : \E i \in 1 .. Len(queue'[m]) : queue'[m][i] = s
      OBVIOUS
    <3>1. s # h /\ s # server /\ s \in open /\ state[s] = "CONNECTING"
      BY <1>0, <1>3, <1>7
    <3>2. PICK m \in Sock : \E j \in 1 .. Len(queue[m]) : queue[m][j] = s
      BY <1>0, <3>1 DEF QueueSound
    <3>3. PICK j \in 1 .. Len(queue[m]) : queue[m][j] = s
      BY <3>2
    <3>4. m = l => j > k + 1
      BY <1>1, <1>5, <3>1, <3>3
    <3>5. \E i \in 1 .. Len(queue'[m]) : queue'[m][i] = queue[m][j]
      BY <1>10, <3>4
    <3> QED BY <3>3, <3>5
  <2>3. QueueBounded'
    <3>1. \A m \in Sock : /\ Len(queue'[m]) \in Nat /\ Len(queue[m]) \in Nat
                          /\ backlog[m] \in Nat /\ backlog'[m] = backlog[m]
      <4>1. queue \in [Sock -> Seq(Sock)] /\ backlog \in [Sock -> Nat] /\ backlog' = backlog
        <5>1. queue \in [Sock -> Seq(Sock)] /\ backlog \in [Sock -> 0 .. MaxBacklog]
          BY <1>0 DEF TypeOK
        <5>2. \A i \in 0 .. MaxBacklog : i \in Nat
          BY ConstantsAssumption
        <5>3. backlog \in [Sock -> Nat]
          BY <5>1, <5>2
        <5> QED BY <5>1, <5>3
      <4>2. queue' \in [Sock -> Seq(Sock)]
        BY <1>2 DEF Typed, TypeOK
      <4> QED BY <4>1, <4>2
    <3> QED BY <1>0, <1>10, <3>1 DEF QueueSound, QueueBounded
  <2>4. \A m \in Sock : queue'[m] # << >> => state'[m] = "LISTENING"
    <3>1. \A m \in Sock : queue'[m] # << >> => state[m] = "LISTENING"
      BY <1>0, <1>10 DEF QueueSound
    <3> QED BY <1>3, <1>6, <1>7, <3>1
  <2> QED BY <1>10, <2>1, <2>2, <2>3, <2>4 DEF QueueSound
<1>12. DataSound'
  <2>1. \A x \in Sock : state'[x] = state[x] \/ state'[x] = "CONNECTED"
    BY <1>7
  <2>2. dir[h] = "READ_WRITE" /\ dir[server] = "READ_WRITE"
    BY <1>0, <1>3, <1>6 DEF DataSound
  <2>3. \A x \in Sock : peer'[x] # Null /\ dir[peer'[x]] = "WRITE_ONLY" => dir[x] = "READ_ONLY"
    BY <1>0, <1>7, <2>2 DEF DataSound
  <2> QED BY <1>0, <1>3, <2>1, <2>3 DEF DataSound, Dgram
<1>13. CallSound'
  <2>1. \A x \in Sock : /\ state[x] # "NONE" => state'[x] # "NONE"
                        /\ state[x] = "CONNECTED" => state'[x] = "CONNECTED"
    BY <1>7
  <2> QED BY <1>0, <1>3, <2>1, CallFacts, CallsSound
<1>14. WakeSound'
  <2>1. ~call'[t].asleep
    BY <1>0, <1>3, Returns
  <2>2. OpensNew
    BY <1>3 DEF OpensNew
  <2>3. \A x \in open \ {l} : x \in open' => Unheard(x)
    <3>1. \A x \in open \ {l} : queue'[x] = queue[x] /\ (state[x] = "CONNECTED" => peer'[x] = peer[x])
      BY <1>0, <1>3, <1>6, <1>7
    <3> QED BY <1>3, <3>1 DEF Unheard, Arrived, Writable
  <2> QED BY <1>0, <1>3, <2>1, <2>2, <2>3, CallFacts, Wakes
<1> QED BY <1>2, <1>9, <1>11, <1>12, <1>13, <1>14 DEF Sound

LEMMA AcceptSound ==
  ASSUME Sound, ~Timeouts, NEW t \in Thread, Accept(t) \/ AcceptResume(t) \/ AcceptTimeout(t)
  PROVE  Sound'
<1>1. UNCHANGED <<type, backlog, bound, target, data>>
  BY DEF Accept, AcceptResume, AcceptTimeout
<1>2. ASSUME NEW l \in Sock, state[l] # "NONE", AcceptRound(t, l) PROVE Sound'
  BY <1>1, <1>2, AcceptForms, SkipsSound, PairsSound
<1>3. CASE Accept(t)
  BY <1>2, <1>3, SoundParts DEF Accept
<1>4. CASE AcceptResume(t)
  <2>1. AcceptRound(t, call[t].sock) /\ call[t].sock \in Sock /\ state[call[t].sock] # "NONE"
    BY <1>4, SoundParts DEF AcceptResume, Resumes, CallSocks, CallSound
  <2> QED BY <1>2, <2>1
<1> QED BY <1>3, <1>4 DEF AcceptTimeout

\* recvmsg that takes data makes room for its peer, which it notifies; a packet
\* that is dropped makes none that anybody waits for.
LEMMA FinishRecvSound ==
  ASSUME Sound, NEW t \in Thread, NEW s \in Sock, FinishRecv(t, s), UNCHANGED conn
  PROVE  Sound'
<1>0. /\ Typed /\ TypeOK /\ CallSocks /\ CallSound /\ WakeSound /\ PeerSound /\ QueueSound
      /\ DataSound /\ buf[s] \in Seq(BOOLEAN)
      /\ \A x \in open : x \in Sock /\ state[x] # "NONE"
  BY SoundParts DEF TypeOK
<1>1. Typed' /\ UNCHANGED <<type, state, open, dir, peer, queue, backlog>>
  BY <1>0, FinishRecvTyped DEF conn
<1>2. CASE Quietly(t, Idle) /\ UNCHANGED data
  BY <1>2, CallFacts, QuietSound
<1>3. ASSUME NEW left, NEW N, buf[s] # << >>, buf' = [buf EXCEPT ![s] = left],
             Proceed(t, Idle, FALSE, N), N = RoomNotice(s) \/ type # "SOCK_STREAM"
      PROVE  Sound'
  <2>1. buf[s] # << >> /\ \A x \in Sock \ {s} : buf'[x] = buf[x]
    BY <1>0, <1>3 DEF TypeOK
  <2>2. PeerSound' /\ QueueSound'
    BY <1>0, <1>1 DEF PeerSound, PeerSymmetric, QueueSound, QueueBounded
  <2>3. DataSound'
    BY <1>0, <1>1, <2>1 DEF DataSound, Dgram
  <2>4. CallSound'
    BY <1>0, <1>1, <1>3, CallFacts, CallsSound
  <2>5. WakeSound'
    <3>1. ~call'[t].asleep
      BY <1>0, <1>3, Returns
    <3>2. OpensNew /\ Hushed
      BY <1>1, <2>1 DEF OpensNew, Hushed, Readable, Dgram
    <3>3. ASSUME NEW x \in open \ N PROVE Unheard(x)
      <4>1. Arrived(x)' => Arrived(x)
        BY <1>0, <1>1, <2>1 DEF Arrived
      <4>2. CASE type # "SOCK_STREAM"
        BY <1>1, <4>1, <4>2 DEF Unheard, Writable
      <4>3. CASE N = RoomNotice(s)
        <5>1. peer[x] = s => peer[s] = x
          BY <1>0, ConstantsAssumption DEF PeerSound, PeerSymmetric
        <5>2. peer[x] # s
          BY <3>3, <4>3, <5>1 DEF RoomNotice
        <5>3. peer[x] # Null => buf'[peer[x]] = buf[peer[x]]
          BY <1>0, <2>1, <5>2 DEF TypeOK
        <5> QED BY <1>1, <4>1, <5>3 DEF Unheard, Writable
      <4> QED BY <1>3, <4>2, <4>3
    <3> QED BY <1>0, <1>3, <3>1, <3>2, <3>3, CallFacts, Wakes
  <2> QED BY <1>1, <2>2, <2>3, <2>4, <2>5 DEF Sound
<1>4. ASSUME NEW k \in 1 .. Len(buf[s]), buf' = [buf EXCEPT ![s] = SubSeq(@, k + 1, Len(@))],
             Proceed(t, Idle, FALSE, RoomNotice(s))
      PROVE  Sound'
  <2>1. buf[s] # << >>
    BY <1>0, <1>4
  <2> QED BY <1>3, <1>4, <2>1
<1>5. ASSUME buf[s] # << >>, type # "SOCK_STREAM", buf' = [buf EXCEPT ![s] = Tail(@)],
             Quietly(t, Idle)
      PROVE  Sound'
  BY <1>3, <1>5 DEF Quietly
<1> QED BY <1>2, <1>4, <1>5 DEF FinishRecv

LEMMA RecvSound ==
  ASSUME Sound, NEW t \in Thread, Recv(t) \/ RecvResume(t)
  PROVE  Sound'
<1>1. ASSUME NEW s \in Sock, state[s] # "NONE", RecvRound(t, s), UNCHANGED conn
      PROVE  Sound'
  <2>1. CASE /\ peer[s] # Null /\ ~IsSelectReadReady(s)
             /\ Quietly(t, Waiting("recv", s, Null)) /\ UNCHANGED data
    <3> DEFINE c == Waiting("recv", s, Null)
    <3>1. c \in Call /\ c.at = "recv" /\ c.sock = s
      BY CallFacts
    <3>2. ~Readable(s)
      BY <1>1, <2>1, SoundParts, ReadyFacts
    <3>3. ~CanGo(c)
      BY <2>1, <3>1, <3>2 DEF CanGo, EPoll
    <3> HIDE DEF c
    <3> QED BY <1>1, <2>1, <3>1, <3>3, QuietSound DEF c
  <2>2. CASE FinishRecv(t, s)
    BY <1>1, <2>2, FinishRecvSound
  <2> QED BY <1>1, <2>1, <2>2 DEF RecvRound
<1>2. CASE Recv(t)
  BY <1>1, <1>2, SoundParts DEF Recv
<1>3. CASE RecvResume(t)
  <2>1. /\ RecvRound(t, call[t].sock) /\ UNCHANGED conn
        /\ call[t].sock \in Sock /\ state[call[t].sock] # "NONE"
    BY <1>3, SoundParts DEF RecvResume, Resumes, CallSocks, CallSound
  <2> QED BY <1>1, <2>1
<1> QED BY <1>2, <1>3

\* sendmsg wakes whoever waits for the data it has delivered.
LEMMA SendSound ==
  ASSUME Sound, NEW t \in Thread, Send(t)
  PROVE  Sound'
<1>0. /\ Typed /\ TypeOK /\ CallSocks /\ CallSound /\ WakeSound /\ PeerSound /\ QueueSound
      /\ DataSound
      /\ \A x \in open : x \in Sock /\ state[x] # "NONE"
  BY SoundParts
<1>1. Typed' /\ UNCHANGED <<type, state, open, dir, peer, queue, backlog>>
  BY <1>0, SendTyped DEF Send, conn
<1>2. PICK s \in Sock, d \in Sock, more \in Seq(BOOLEAN), withFds \in BOOLEAN :
        Delivers(t, s, d, more, withFds)
  BY <1>0, SendForms
<1>3. /\ d \in Destination(s) /\ dir[s] # "READ_ONLY"
      /\ buf' = [buf EXCEPT ![d] = @ \o more]
      /\ Proceed(t, Idle, TRUE, {d} \cap open)
  BY <1>2 DEF Delivers
<1>4. \A x \in Sock \ {d} : buf'[x] = buf[x]
  BY <1>0, <1>3 DEF TypeOK
<1>5. (state[d] = "CONNECTED" \/ Dgram) /\ dir[d] # "WRITE_ONLY"
  <2>1. CASE peer[s] # Null
    <3>1. d = peer[s] /\ peer[d] = s
      BY <1>0, <1>3, <2>1 DEF Destination, PeerSound, PeerSymmetric
    <3>2. d \in Sock /\ peer[d] # Null
      BY <1>0, <1>4, <3>1, ConstantsAssumption
    <3> QED BY <1>0, <1>3, <2>1, <3>1, <3>2 DEF PeerSound, DataSound
  <2>2. CASE peer[s] = Null
    <3>1. Dgram
      BY <1>3, <2>2 DEF Destination
    <3> QED BY <1>0, <1>4, <3>1 DEF DataSound, Dgram
  <2> QED BY <2>1, <2>2
<1>6. PeerSound' /\ QueueSound'
  BY <1>0, <1>1 DEF PeerSound, PeerSymmetric, QueueSound, QueueBounded
<1>7. DataSound'
  BY <1>0, <1>1, <1>4, <1>5 DEF DataSound, Dgram
<1>8. CallSound'
  BY <1>0, <1>1, <1>3, CallFacts, CallsSound
<1>9. WakeSound'
  <2>1. ~call'[t].asleep
    BY <1>0, <1>3, Returns
  <2>2. OpensNew
    BY <1>1 DEF OpensNew
  <2>3. Len(buf[d]) <= Len(buf'[d])
    <3>1. buf[d] \in Seq(BOOLEAN) /\ buf'[d] = buf[d] \o more
      BY <1>0, <1>3 DEF TypeOK
    <3> QED BY <3>1
  <2>4. ASSUME NEW x \in open \ ({d} \cap open) PROVE Unheard(x)
    <3>1. x \in Sock /\ x # d /\ (peer[x] # Null => peer[x] \in Sock)
      BY <1>0, <2>4 DEF TypeOK
    <3>2. Arrived(x)' => Arrived(x)
      BY <1>1, <1>4, <3>1 DEF Arrived
    <3>3. peer[x] # Null => Len(buf[peer[x]]) <= Len(buf'[peer[x]])
      <4>1. \A y \in Sock : Len(buf[y]) \in Nat
        BY <1>0 DEF TypeOK
      <4>2. \A y \in Sock : Len(buf[y]) <= Len(buf'[y])
        BY <1>4, <2>3, <4>1
      <4> QED BY <3>1, <4>2
    <3>4. peer[x] # Null => Len(buf[peer[x]]) \in Nat /\ Len(buf'[peer[x]]) \in Nat
      <4>1. /\ buf \in [Sock -> Seq(BOOLEAN)] /\ buf' \in [Sock -> Seq(BOOLEAN)]
        BY <1>0, <1>1 DEF TypeOK, Typed
      <4>2. \A y \in Sock : buf[y] \in Seq(BOOLEAN) /\ buf'[y] \in Seq(BOOLEAN)
        BY <4>1
      <4>3. \A y \in Sock : Len(buf[y]) \in Nat /\ Len(buf'[y]) \in Nat
        BY <4>2
      <4> QED BY <3>1, <4>3
    <3>5. peer[x] # Null /\ Writable(x)' => Writable(x)
      BY <1>1, <3>3, <3>4, ConstantsAssumption DEF Writable
    <3> QED BY <1>1, <3>2, <3>5 DEF Unheard
  <2> QED BY <1>0, <1>3, <2>1, <2>2, <2>4, CallFacts, Wakes
<1> QED BY <1>1, <1>6, <1>7, <1>8, <1>9 DEF Sound

\* close wakes whoever waits for the peer, and the listeners of the socket.
LEMMA CloseSound ==
  ASSUME Sound, NEW t \in Thread, Close(t)
  PROVE  Sound'
<1>0. /\ Typed /\ TypeOK /\ CallSocks /\ CallSound /\ WakeSound /\ PeerSound /\ QueueSound
      /\ DataSound
      /\ \A x \in open : x \in Sock /\ state[x] # "NONE"
  BY SoundParts
<1>1. Typed' /\ UNCHANGED <<type, state, dir, queue, backlog, buf>>
  BY <1>0, CloseTyped DEF Close, data
<1>2. PICK s \in open :
        /\ open' = open \ {s} /\ peer' = Disconnected(s)
        /\ Proceed(t, Idle, Announces(s), {s})
  BY DEF Close
<1>3. /\ s \in Sock /\ peer'[s] = Null
      /\ \A x \in Sock : x # s /\ peer[x] # s => peer'[x] = peer[x]
      /\ \A x \in Sock : peer[x] = s => peer'[x] = Null
      /\ peer[s] = Null => peer' = peer
  <2>1. s \in Sock /\ s # Null
    BY <1>0, ConstantsAssumption
  <2>2. CASE peer[s] = Null
    <3>1. ASSUME NEW x \in Sock, peer[x] = s PROVE FALSE
      <4>1. peer[s] = x /\ x # Null
        BY <1>0, <2>1, <3>1, ConstantsAssumption DEF PeerSound, PeerSymmetric
      <4> QED BY <2>2, <4>1
    <3> QED BY <1>2, <2>1, <2>2, <3>1 DEF Disconnected
  <2>3. CASE peer[s] # Null
    <3>1. PICK p \in Sock : p = peer[s]
      BY <1>0, <2>1, <2>3 DEF TypeOK
    <3>2. peer[p] = s
      BY <1>0, <2>1, <2>3, <3>1 DEF PeerSound, PeerSymmetric
    <3>3. \A x \in Sock : peer[x] = s => x = p
      BY <1>0, <2>1, <3>1 DEF PeerSound, PeerSymmetric
    <3>4. peer' = [peer EXCEPT ![p] = Null, ![s] = Null]
      BY <1>2, <2>3, <3>1 DEF Disconnected
    <3> QED BY <1>0, <2>1, <2>3, <3>1, <3>2, <3>3, <3>4 DEF TypeOK
  <2> QED BY <2>2, <2>3
<1>4. \A x \in Sock : peer'[x] # Null => x # s /\ peer[x] # s /\ peer'[x] = peer[x]
  BY <1>3
<1>5. PeerSound'
  <2>1. ASSUME NEW x \in Sock, peer'[x] # Null
        PROVE  {x, peer'[x]} \subseteq open' /\ peer'[peer'[x]] = x
    <3>1. x # s /\ peer[x] # s /\ peer'[x] = peer[x] /\ peer[x] \in Sock
      BY <1>0, <1>4, <2>1 DEF TypeOK
    <3>2. x \in open /\ peer[x] \in open /\ peer[peer[x]] = x
      BY <1>0, <2>1, <3>1 DEF PeerSound, PeerSymmetric
    <3> QED BY <1>2, <1>3, <3>1, <3>2
  <2>2. /\ \A x \in Sock : peer'[x] # Null => state[x] = "CONNECTED"
        /\ \A x \in open' : state[x] # "NONE"
    BY <1>0, <1>2, <1>4 DEF PeerSound
  <2> QED BY <1>1, <2>1, <2>2 DEF PeerSound, PeerSymmetric
<1>6. QueueSound'
  BY <1>0, <1>1, <1>2 DEF QueueSound, QueueBounded
<1>7. DataSound'
  BY <1>0, <1>1, <1>4 DEF DataSound, Dgram
<1>8. Announces(s) \in BOOLEAN
  BY DEF Announces
<1>9. CallSound'
  BY <1>0, <1>1, <1>2, <1>8, CallFacts, CallsSound
<1>10. WakeSound'
  <2>1. ~call'[t].asleep
    BY <1>0, <1>2, <1>8, Returns
  <2>2. OpensNew
    BY <1>2 DEF OpensNew
  <2>3. Announces(s) \/ Hushed
    <3>1. ASSUME ~Announces(s) PROVE Hushed
      <4>1. peer' = peer
        BY <1>3, <3>1 DEF Announces
      <4> QED BY <1>1, <4>1 DEF Hushed, Readable, Dgram
    <3> QED BY <3>1
  <2>4. \A x \in open \ {s} : Unheard(x)
    BY <1>0, <1>1, <1>4 DEF Unheard, Arrived, Writable
  <2> QED BY <1>0, <1>2, <1>8, <2>1, <2>2, <2>3, <2>4, CallFacts, Wakes
<1> QED BY <1>1, <1>5, <1>6, <1>7, <1>9, <1>10 DEF Sound

LEMMA NextSound == Careful /\ ~Timeouts /\ Sound /\ [Next]_vars => Sound'
<1> SUFFICES ASSUME Careful, ~Timeouts, Sound, [Next]_vars PROVE Sound'
  OBVIOUS
<1>0. Typed
  BY SoundParts
<1>1. CASE UNCHANGED vars
  <2>1. Typed'
    BY <1>0, <1>1, NextTyped
  <2>2. UNCHANGED <<type, state, open, dir, peer, queue, backlog, buf, call>>
    BY <1>1 DEF vars
  <2>3. PeerSound' /\ QueueSound' /\ DataSound'
    BY <2>2 DEF Sound, PeerSound, PeerSymmetric, QueueSound, QueueBounded, DataSound, Dgram
  <2>4. CallSound' /\ WakeSound'
    BY <2>2 DEF Sound, CallSound, WakeSound, CanGo, Readable, Writable, Arrived, Dgram
  <2> QED BY <2>1, <2>3, <2>4 DEF Sound
<1>2. ASSUME NEW t \in Thread, Step(t) PROVE Sound'
  <2>1. CASE SocketPair(t) \/ Pipe2(t)
    <3>1. Typed'
      BY <1>0, <2>1, MakesTyped
    <3> QED BY <2>1, <3>1, MakePairSound DEF SocketPair, Pipe2
  <2>2. CASE Socket(t) \/ Bind(t) \/ ConnectDgram(t) \/ Listen(t) \/ Connect(t) \/ Close(t)
    BY <2>2, SocketSound, NamesSound, ListenSound, ConnectSound, CloseSound
  <2>3. CASE Accept(t) \/ AcceptResume(t) \/ AcceptTimeout(t) \/ Recv(t) \/ RecvResume(t) \/ Send(t)
    BY <2>3, AcceptSound, RecvSound, SendSound
  <2>4. CASE Dozes(t)
    BY <2>4, DozesSound
  <2> QED BY <1>2, <2>1, <2>2, <2>3, <2>4 DEF Step, Resume, Dozes
<1> QED BY <1>1, <1>2 DEF Next

LEMMA SoundHolds == Careful /\ ~Timeouts => (Spec => []Sound)
<1> SUFFICES ASSUME Careful, ~Timeouts PROVE Spec => []Sound
  OBVIOUS
<1>1. Sound /\ [Next]_vars => Sound'
  BY NextSound
<1> QED BY <1>1, InitSound, PTL DEF Spec

-----------------------------------------------------------------------------
(* Theorems *)

\* A connecting socket has one place in the queues.
LEMMA PlacedOnce == QueueSound => QueuedOnce
<1> SUFFICES ASSUME QueueSound PROVE QueuedOnce
  OBVIOUS
<1>1. ASSUME NEW s \in open, state[s] = "CONNECTING"
      PROVE  \E l \in Sock : \E i \in 1 .. Len(queue[l]) :
               /\ queue[l][i] = s
               /\ \A m \in Sock : \A j \in 1 .. Len(queue[m]) :
                    queue[m][j] = s => m = l /\ j = i
  <2>1. PICK l \in Sock : \E i \in 1 .. Len(queue[l]) : queue[l][i] = s
    BY <1>1 DEF QueueSound
  <2>2. PICK i \in 1 .. Len(queue[l]) : queue[l][i] = s
    BY <2>1
  <2>3. \A m \in Sock : \A j \in 1 .. Len(queue[m]) : queue[m][j] = s => m = l /\ j = i
    BY <2>2 DEF QueueSound
  <2> QED BY <2>2, <2>3
<1>2. \A l \in Sock : \A i \in 1 .. Len(queue[l]) : state[queue[l][i]] = "CONNECTING"
  BY DEF QueueSound
<1> QED BY <1>1, <1>2 DEF QueuedOnce

\* Whichever calls are made and whichever timeouts expire, the receiver of a packet
\* never finds descriptors of an older one, on a socket where every packet that
\* came with descriptors was received into a buffer.
THEOREM NoDescriptorStranded == Spec => []DescriptorsNotStranded
<1>1. Typed => DescriptorsNotStranded
  BY DEF Typed
<1> QED BY <1>1, TypedHolds, PTL

\* With careful callers and without a receive timeout of accept, the two ends of a
\* connection or a pipe know each other and are open, until close parts them.
THEOREM PeersStaySymmetric == Careful /\ ~Timeouts => (Spec => []PeerSymmetric)
<1> SUFFICES ASSUME Careful, ~Timeouts PROVE Spec => []PeerSymmetric
  OBVIOUS
<1>1. Sound => PeerSymmetric
  BY DEF Sound, PeerSound
<1>2. Spec => []Sound
  BY SoundHolds
<1> QED BY <1>1, <1>2, PTL

\* Under the same assumptions, connects, accepts, closes and listens in any order
\* keep the queues too: every open connecting socket waits in one place of one
\* queue, and no queue outgrows its backlog.
THEOREM StaysConsistent == Careful /\ ~Timeouts => (Spec => []Consistent)
<1> SUFFICES ASSUME Careful, ~Timeouts PROVE Spec => []Consistent
  OBVIOUS
<1>1. Sound => Consistent
  BY PlacedOnce DEF Sound, Typed, PeerSound, QueueSound, Consistent
<1>2. Spec => []Sound
  BY SoundHolds
<1> QED BY <1>1, <1>2, PTL

\* Under the same assumptions, no thread sleeps on a connection, an answer, data or
\* room that is there, whichever threads broadcast to the shared condition or
\* notify the listeners of a socket.
THEOREM NoWakeupLost == Careful /\ ~Timeouts => (Spec => []NoLostWakeup)
<1> SUFFICES ASSUME Careful, ~Timeouts PROVE Spec => []NoLostWakeup
  OBVIOUS
<1>1. Spec => []Sound
  BY SoundHolds
<1> QED BY <1>1, SoundWakeup, PTL

-----------------------------------------------------------------------------
(* The byte buffer *)

\* The lesser of two numbers, as both specifications define it.
LEMMA MinFacts ==
    ASSUME NEW m \in Nat, NEW n \in Nat
    PROVE  /\ Min(m, n) \in Nat /\ Min(m, n) <= m /\ Min(m, n) <= n
           /\ Min(m, n) = Fifo!Lesser(m, n)
  BY DEF Min, Fifo!Lesser

\* The bytes that read() copies out are the oldest n bytes in their order.
LEMMA BytesFacts ==
    ASSUME BufferInv, NEW n \in 0 .. size
    PROVE  /\ Bytes(n) \in Seq(Byte) /\ Len(Bytes(n)) = n
           /\ \A i \in 1 .. n : Bytes(n)[i] = buffer[Slot(i - 1)]
<1>1. \A i \in 1 .. n : Bytes(n)[i] = buffer[Slot(i - 1)]
  <2> TAKE i \in 1 .. n
  <2>1. start + (i - 1) < capacity <=> i <= capacity - start
    BY DEF BufferInv, BufferTypeOK
  <2>2. start + (i - 1) = start + i - 1 /\ start + (i - 1) - capacity = i - (capacity - start) - 1
    BY DEF BufferInv, BufferTypeOK
  <2> QED BY <2>1, <2>2 DEF Bytes, Slot
<1>2. \A i \in 1 .. n : buffer[Slot(i - 1)] \in Byte
  BY DEF BufferInv, BufferTypeOK, HoldsNoJunk
<1>3. n \in Nat
  BY DEF BufferInv, BufferTypeOK
<1>4. Bytes(n) = [i \in 1 .. n |-> Bytes(n)[i]]
  BY DEF Bytes
<1>5. Bytes(n) \in [1 .. n -> Byte]
  BY <1>1, <1>2, <1>4
<1> QED BY <1>1, <1>3, <1>5

\* A read of n bytes moves every byte that is left n places forward.
LEMMA NextStartFacts ==
    ASSUME BufferInv, NEW n \in 0 .. size, start' = NextStart(n), capacity' = capacity,
           NEW i \in 0 .. size - n - 1
    PROVE  Slot(i)' = Slot(i + n)
  BY DEF Slot, NextStart, BufferInv, BufferTypeOK, IndicesAgree

\* The bytes the buffer stands for, as the abstract queue.
LEMMA ContentFacts ==
    ASSUME BufferInv
    PROVE  Content \in Seq(Byte) /\ Len(Content) = size
<1>1. Content \in [1 .. size -> Byte]
  BY DEF BufferInv, BufferTypeOK, HoldsNoJunk, Content
<1> QED BY <1>1 DEF BufferInv, BufferTypeOK

\* write() leaves the bytes that are held alone and puts the new ones after them.
LEMMA CopiedFacts ==
    ASSUME BufferInv, NEW s \in Seq(Byte), NEW n \in Nat, n <= Len(s), n <= capacity - size
    PROVE  /\ Copied(s, n) \in [0 .. capacity - 1 -> Byte \cup {Junk}]
           /\ \A i \in 0 .. size + n - 1 :
                /\ Slot(i) \in 0 .. capacity - 1
                /\ Copied(s, n)[Slot(i)] =
                     IF i < size THEN buffer[Slot(i)] ELSE s[i - size + 1]
<1> USE DEF BufferInv, BufferTypeOK, IndicesAgree
<1>1. ASSUME NEW j \in 0 .. capacity - 1
      PROVE  Copied(s, n)[j] \in Byte \cup {Junk}
  <2>1. CASE end <= j /\ j < end + n
    BY <2>1 DEF Copied
  <2>2. CASE ~(end <= j /\ j < end + n) /\ j < n - (capacity - end)
    BY <2>2 DEF Copied
  <2>3. CASE ~(end <= j /\ j < end + n) /\ ~(j < n - (capacity - end))
    BY <2>3 DEF Copied
  <2> QED BY <2>1, <2>2, <2>3
<1>2. ASSUME NEW i \in 0 .. size + n - 1
      PROVE  Slot(i) \in 0 .. capacity - 1
  BY DEF Slot
<1>3. ASSUME NEW i \in 0 .. size + n - 1, i < size
      PROVE  Copied(s, n)[Slot(i)] = buffer[Slot(i)]
  <2>1. ~(end <= Slot(i) /\ Slot(i) < end + n) /\ ~(Slot(i) < n - (capacity - end))
    BY <1>3 DEF Slot
  <2> QED BY <1>2, <2>1 DEF Copied
<1>4. ASSUME NEW i \in 0 .. size + n - 1, ~(i < size)
      PROVE  Copied(s, n)[Slot(i)] = s[i - size + 1]
  <2>1. \/ end <= Slot(i) /\ Slot(i) < end + n /\ Slot(i) - end + 1 = i - size + 1
        \/ /\ ~(end <= Slot(i) /\ Slot(i) < end + n)
           /\ Slot(i) < n - (capacity - end)
           /\ (capacity - end) + Slot(i) + 1 = i - size + 1
    BY <1>4 DEF Slot
  <2> QED BY <1>2, <2>1 DEF Copied
<1>5. Copied(s, n) \in [0 .. capacity - 1 -> Byte \cup {Junk}]
  BY <1>1 DEF Copied
<1> QED BY <1>2, <1>3, <1>4, <1>5

-----------------------------------------------------------------------------

\* The constructor establishes the invariant.
LEMMA InvInit == BufferInit => BufferInv
  BY BufferAssumption DEF BufferInit, BufferInv, BufferTypeOK, IndicesAgree, HoldsNoJunk

\* write() keeps the invariant: the new bytes fill exactly the free offsets.
LEMMA InvWrite ==
    ASSUME BufferInv, NEW s \in Inputs, write(s)
    PROVE  BufferInv'
<1> DEFINE n == Min(Len(s), capacity - size)
<1>1. s \in Seq(Byte) /\ Len(s) \in Nat /\ capacity - size \in Nat
  BY BufferAssumption DEF BufferInv, BufferTypeOK
<1>2. n \in Nat /\ n <= Len(s) /\ n <= capacity - size
  BY <1>1, MinFacts
<1> HIDE DEF n
<1>3. /\ buffer' = Copied(s, n) /\ end' = NextEnd(n) /\ size' = size + n
      /\ start' = start /\ capacity' = capacity
      /\ given' = s /\ asked' = 0 /\ out' = << >> /\ ret' = n
  BY DEF write, n
<1>4. BufferTypeOK'
  <2>1. end' \in 0 .. capacity
    BY <1>2, <1>3 DEF NextEnd, BufferInv, BufferTypeOK, IndicesAgree
  <2>2. buffer' \in [0 .. capacity - 1 -> Byte \cup {Junk}]
    BY <1>1, <1>2, <1>3, CopiedFacts
  <2> QED BY <1>1, <1>2, <1>3, <2>1, <2>2 DEF BufferInv, BufferTypeOK
<1>5. IndicesAgree'
  BY <1>2, <1>3 DEF NextEnd, BufferInv, BufferTypeOK, IndicesAgree
<1>6. HoldsNoJunk'
  <2>1. ASSUME NEW i \in 0 .. size + n - 1 PROVE buffer'[Slot(i)] \in Byte
    <3>1. buffer'[Slot(i)] = IF i < size THEN buffer[Slot(i)] ELSE s[i - size + 1]
      BY <1>1, <1>2, <1>3, CopiedFacts
    <3>2. CASE i < size
      BY <3>1, <3>2, <1>2 DEF BufferInv, BufferTypeOK, HoldsNoJunk
    <3>3. CASE ~(i < size)
      <4>1. i - size + 1 \in 1 .. Len(s)
        BY <1>1, <1>2, <3>3 DEF BufferInv, BufferTypeOK
      <4> QED BY <3>1, <3>3, <4>1, <1>1
    <3> QED BY <3>2, <3>3
  <2>2. ASSUME NEW i \in 0 .. size' - 1 PROVE buffer'[Slot(i)'] \in Byte
    <3>1. Slot(i)' = Slot(i)
      BY <1>3 DEF Slot
    <3>2. i \in 0 .. size + n - 1
      BY <1>2, <1>3 DEF BufferInv, BufferTypeOK
    <3>3. buffer'[Slot(i)] \in Byte
      BY <2>1, <3>2
    <3> QED BY <3>1, <3>3
  <2> QED BY <2>2 DEF HoldsNoJunk
<1> QED BY <1>4, <1>5, <1>6 DEF BufferInv

\* read() keeps the invariant, also when it ends at the end of the buffer.
LEMMA InvRead ==
    ASSUME BufferInv, NEW len \in Lengths, read(len)
    PROVE  BufferInv'
<1> DEFINE n == ReadableBytes(len)
<1>1. n \in 0 .. size
  <2>1. len \in Nat /\ size \in Nat
    BY BufferAssumption DEF BufferInv, BufferTypeOK
  <2> QED BY <2>1, MinFacts DEF ReadableBytes
<1>2. Bytes(n) \in Seq(Byte)
  BY <1>1, BytesFacts
<1> HIDE DEF n
<1>3. /\ out' = Bytes(n) /\ start' = NextStart(n) /\ size' = size - n
      /\ given' = << >> /\ asked' = len /\ ret' = n
      /\ buffer' = buffer /\ end' = end /\ capacity' = capacity
  BY DEF read, n
<1>4. BufferTypeOK'
  BY <1>1, <1>2, <1>3, BufferAssumption DEF NextStart, BufferInv, BufferTypeOK, IndicesAgree
<1>5. IndicesAgree'
  BY <1>1, <1>3 DEF NextStart, BufferInv, BufferTypeOK, IndicesAgree
<1>6. ASSUME NEW i \in 0 .. size - n - 1 PROVE Slot(i)' = Slot(i + n)
  BY <1>1, <1>3, NextStartFacts
<1>7. HoldsNoJunk'
  BY <1>1, <1>3, <1>6 DEF BufferInv, BufferTypeOK, HoldsNoJunk
<1> QED BY <1>4, <1>5, <1>7 DEF BufferInv

\* clear() keeps the invariant.
LEMMA InvClear ==
    ASSUME BufferInv, clear
    PROVE  BufferInv'
  BY DEF clear, BufferInv, BufferTypeOK, IndicesAgree, HoldsNoJunk

\* set_capacity() keeps the invariant.
LEMMA InvSetCapacity ==
    ASSUME BufferInv, NEW c \in Capacities, set_capacity(c)
    PROVE  BufferInv'
<1> DEFINE n == ReadableBytes(c)
<1>1. c \in Nat /\ n \in 0 .. size /\ n <= c
  <2>1. c \in Nat /\ size \in Nat
    BY BufferAssumption DEF BufferInv, BufferTypeOK
  <2> QED BY <2>1, MinFacts DEF ReadableBytes
<1>2. Bytes(n) \in Seq(Byte) /\ Len(Bytes(n)) = n
  BY <1>1, BytesFacts
<1> HIDE DEF n
<1>3. /\ buffer' = [j \in 0 .. c - 1 |-> IF j < n THEN Bytes(n)[j + 1] ELSE Junk]
      /\ start' = 0 /\ end' = n /\ size' = n /\ capacity' = c
      /\ given' = << >> /\ asked' = 0 /\ out' = << >> /\ ret' = 0
  BY DEF set_capacity, n
<1>4. n \in Nat
  BY <1>1 DEF BufferInv, BufferTypeOK
<1>5. \A j \in 0 .. n - 1 : buffer'[j] \in Byte
  BY <1>1, <1>2, <1>3, <1>4
<1>6. buffer' \in [0 .. c - 1 -> Byte \cup {Junk}]
  BY <1>1, <1>2, <1>3, <1>4
<1>7. BufferTypeOK'
  BY <1>1, <1>3, <1>4, <1>6 DEF BufferTypeOK
<1>8. IndicesAgree' /\ HoldsNoJunk'
  BY <1>1, <1>3, <1>4, <1>5 DEF IndicesAgree, HoldsNoJunk, Slot
<1> QED BY <1>7, <1>8 DEF BufferInv

\* A step that changes nothing keeps the invariant.
LEMMA InvStutter == BufferInv /\ UNCHANGED bufferVars => BufferInv'
  BY DEF bufferVars, BufferInv, BufferTypeOK, IndicesAgree, HoldsNoJunk, Slot

\* Every step keeps the invariant.
LEMMA InvNext == BufferInv /\ [BufferNext]_bufferVars => BufferInv'
  BY InvWrite, InvRead, InvClear, InvSetCapacity, InvStutter DEF BufferNext

\* The indices always agree with the size, and only bytes that were written are
\* delivered: whatever the capacity and the lengths of the calls.
THEOREM BufferStaysSound == BufferSpec => []BufferInv
  BY InvInit, InvNext, PTL DEF BufferSpec

-----------------------------------------------------------------------------
(* The refinement *)

\* The empty buffer is the empty queue.
LEMMA RefineInit == BufferInit => Fifo!Init
<1> SUFFICES ASSUME BufferInit PROVE Fifo!Init
  OBVIOUS
<1>1. Content = << >>
  BY DEF BufferInit, Content
<1> QED BY <1>1 DEF BufferInit, Fifo!Init

\* write() appends to the queue what there is room for.
LEMMA RefineWrite ==
    ASSUME BufferInv, NEW s \in Inputs, write(s)
    PROVE  Fifo!Write(s)
<1> DEFINE n == Min(Len(s), capacity - size)
<1>1. s \in Seq(Byte) /\ Len(s) \in Nat /\ capacity - size \in Nat
  BY BufferAssumption DEF BufferInv, BufferTypeOK
<1>2. /\ n \in Nat /\ n <= Len(s) /\ n <= capacity - size
      /\ n = Fifo!Lesser(Len(s), capacity - size)
  BY <1>1, MinFacts
<1> HIDE DEF n
<1>3. /\ buffer' = Copied(s, n) /\ size' = size + n
      /\ start' = start /\ capacity' = capacity
      /\ given' = s /\ asked' = 0 /\ out' = << >> /\ ret' = n
  BY DEF write, n
<1>4. Content \in Seq(Byte) /\ Len(Content) = size
  BY ContentFacts
<1>5. SubSeq(s, 1, n) \in Seq(Byte) /\ Len(SubSeq(s, 1, n)) = n
  BY <1>1, <1>2
<1>6. Content \o SubSeq(s, 1, n) = [i \in 1 .. size + n |->
        IF i <= size THEN Content[i] ELSE s[i - size]]
  <2>1. PICK d \in Seq(Byte) : d = SubSeq(s, 1, n)
    BY <1>5
  <2>2. Len(d) = n /\ \A i \in 1 .. n : d[i] = s[i]
    BY <1>1, <1>2, <1>5, <2>1
  <2>3. size \in Nat
    BY <1>4
  <2>4. PICK c \in Seq(Byte) : c = Content
    BY <1>4
  <2>5. c \o d = [i \in 1 .. size + n |-> IF i <= size THEN c[i] ELSE d[i - size]]
    <3>1. c \o d = [i \in 1 .. Len(c) + Len(d) |->
            IF i <= Len(c) THEN c[i] ELSE d[i - Len(c)]]
      <4>1. PICK e \in Seq(Byte) : e = c \o d
        BY ConcatProperties
      <4>2. /\ Len(e) = Len(c) + Len(d)
            /\ \A i \in 1 .. Len(c) + Len(d) : e[i] = IF i <= Len(c) THEN c[i] ELSE d[i - Len(c)]
        BY <4>1, ConcatProperties
      <4>3. e = [i \in 1 .. Len(e) |-> e[i]]
        OBVIOUS
      <4> QED BY <4>1, <4>2, <4>3
    <3>2. Len(c) = size /\ Len(d) = n
      BY <1>4, <2>2, <2>4
    <3> QED BY <3>1, <3>2, Zenon
  <2>6. \A i \in 1 .. size + n : i <= size \/ d[i - size] = s[i - size]
    BY <1>2, <2>2, <2>3
  <2> QED BY <2>1, <2>4, <2>5, <2>6
<1>7. ASSUME NEW i \in 1 .. size + n
      PROVE  buffer'[Slot(i - 1)'] = IF i <= size THEN Content[i] ELSE s[i - size]
  <2>1. Slot(i - 1)' = Slot(i - 1)
    BY <1>3 DEF Slot
  <2>2. i - 1 \in 0 .. size + n - 1 /\ (i - 1 < size <=> i <= size) /\ i - 1 - size + 1 = i - size
    BY <1>2 DEF BufferInv, BufferTypeOK
  <2>3. buffer'[Slot(i - 1)] = IF i - 1 < size THEN buffer[Slot(i - 1)] ELSE s[i - 1 - size + 1]
    BY <1>1, <1>2, <1>3, <2>2, CopiedFacts
  <2>4. i <= size => Content[i] = buffer[Slot(i - 1)]
    BY DEF Content
  <2> QED BY <2>1, <2>2, <2>3, <2>4
<1>8. Content' = Content \o SubSeq(s, 1, n)
  <2>1. Content' = [i \in 1 .. size + n |-> buffer'[Slot(i - 1)']]
    BY <1>3 DEF Content
  <2> QED BY <1>6, <1>7, <2>1
<1> QED BY <1>2, <1>3, <1>4, <1>8 DEF Fifo!Write

\* read() takes the oldest bytes off the queue.
LEMMA RefineRead ==
    ASSUME BufferInv, NEW len \in Lengths, read(len)
    PROVE  Fifo!Read(len)
<1> DEFINE n == ReadableBytes(len)
<1>1. len \in Nat /\ size \in Nat
  BY BufferAssumption DEF BufferInv, BufferTypeOK
<1>2. n \in 0 .. size /\ n \in Nat /\ n = Fifo!Lesser(len, size)
  BY <1>1, MinFacts DEF ReadableBytes
<1> HIDE DEF n
<1>3. /\ out' = Bytes(n) /\ start' = NextStart(n) /\ size' = size - n
      /\ given' = << >> /\ asked' = len /\ ret' = n
      /\ buffer' = buffer /\ capacity' = capacity
  BY DEF read, n
<1>4. Content \in Seq(Byte) /\ Len(Content) = size
  BY ContentFacts
<1>5. \A i \in 1 .. size : Content[i] = buffer[Slot(i - 1)]
  BY DEF Content
<1>6. out' = SubSeq(Content, 1, n)
  <2>1. Bytes(n) \in Seq(Byte) /\ Len(Bytes(n)) = n
    BY <1>2, BytesFacts
  <2>2. \A i \in 1 .. n : Bytes(n)[i] = Content[i]
    BY <1>1, <1>2, <1>5, BytesFacts
  <2>3. SubSeq(Content, 1, n) \in Seq(Byte) /\ Len(SubSeq(Content, 1, n)) = n
    BY <1>1, <1>2, <1>4
  <2>4. \A i \in 1 .. n : SubSeq(Content, 1, n)[i] = Content[i]
    BY <1>1, <1>2, <1>4
  <2> QED BY <1>2, <1>3, <2>1, <2>2, <2>3, <2>4
<1>7. Content' = SubSeq(Content, n + 1, size)
  <2>1. Content' = [i \in 1 .. size - n |-> buffer[Slot(i - 1)']]
    BY <1>3 DEF Content
  <2>2. ASSUME NEW i \in 1 .. size - n PROVE buffer[Slot(i - 1)'] = Content[i + n]
    <3>1. i - 1 \in 0 .. size - n - 1 /\ i + n \in 1 .. size /\ (i - 1) + n = (i + n) - 1
      BY <1>1, <1>2
    <3>2. Slot(i - 1)' = Slot((i - 1) + n)
      BY <1>2, <1>3, <3>1, NextStartFacts
    <3>3. Content[i + n] = buffer[Slot((i + n) - 1)]
      BY <1>5, <3>1
    <3> QED BY <3>1, <3>2, <3>3
  <2>3. SubSeq(Content, n + 1, size) = [i \in 1 .. size - n |-> Content[i + n]]
    BY <1>1, <1>2, <1>4
  <2> QED BY <2>1, <2>2, <2>3
<1> QED BY <1>2, <1>3, <1>4, <1>6, <1>7 DEF Fifo!Read

\* clear() empties the queue.
LEMMA RefineClear ==
    ASSUME BufferInv, clear
    PROVE  Fifo!Clear
<1>1. Content' = << >>
  BY DEF clear, Content
<1> QED BY <1>1 DEF clear, Fifo!Clear

\* set_capacity() keeps the oldest bytes.
LEMMA RefineSetCapacity ==
    ASSUME BufferInv, NEW c \in Capacities, set_capacity(c)
    PROVE  Fifo!SetCapacity(c)
<1> DEFINE n == ReadableBytes(c)
<1>1. c \in Nat /\ size \in Nat
  BY BufferAssumption DEF BufferInv, BufferTypeOK
<1>2. n \in 0 .. size /\ n \in Nat /\ n <= c /\ n = Fifo!Lesser(size, c)
  BY <1>1 DEF n, ReadableBytes, Min, Fifo!Lesser
<1> HIDE DEF n
<1>3. /\ buffer' = [j \in 0 .. c - 1 |-> IF j < n THEN Bytes(n)[j + 1] ELSE Junk]
      /\ start' = 0 /\ size' = n /\ capacity' = c
      /\ given' = << >> /\ asked' = 0 /\ out' = << >> /\ ret' = 0
  BY DEF set_capacity, n
<1>4. Content \in Seq(Byte) /\ Len(Content) = size
  BY ContentFacts
<1>5. \A i \in 1 .. size : Content[i] = buffer[Slot(i - 1)]
  BY DEF Content
<1>6. Content' = [i \in 1 .. n |-> buffer'[Slot(i - 1)']]
  BY <1>3 DEF Content
<1>7. ASSUME NEW i \in 1 .. n PROVE buffer'[Slot(i - 1)'] = Content[i]
  <2>1. Slot(i - 1)' = i - 1
    BY <1>1, <1>2, <1>3 DEF Slot
  <2>2. i - 1 \in 0 .. c - 1 /\ i - 1 < n /\ (i - 1) + 1 = i /\ i \in 1 .. size
    BY <1>1, <1>2
  <2>3. buffer'[i - 1] = Bytes(n)[i]
    BY <1>3, <2>2
  <2>4. Bytes(n)[i] = buffer[Slot(i - 1)]
    BY <1>2, BytesFacts
  <2> QED BY <1>5, <2>1, <2>2, <2>3, <2>4
<1>8. SubSeq(Content, 1, n) = [i \in 1 .. n |-> Content[i]]
  BY <1>1, <1>2, <1>4
<1> QED BY <1>2, <1>3, <1>4, <1>6, <1>7, <1>8 DEF Fifo!SetCapacity

\* What leaves the buffer alone leaves the queue alone.
LEMMA RefineStutter == UNCHANGED bufferVars => UNCHANGED Fifo!vars
  BY DEF bufferVars, Fifo!vars, Content, Slot

\* Every step of the buffer is a step of the queue.
LEMMA RefineNext == BufferInv /\ [BufferNext]_bufferVars => [Fifo!Next]_(Fifo!vars)
  BY RefineWrite, RefineRead, RefineClear, RefineSetCapacity, RefineStutter
  DEF BufferNext, Fifo!Next

\* CircularBuffer is a bounded first-in first-out queue of bytes, for every
\* capacity, every argument and every sequence of its methods.
THEOREM BufferImplementsFifo == BufferSpec => ImplementsFifo
  BY BufferStaysSound, RefineInit, RefineNext, PTL DEF BufferSpec, ImplementsFifo, Fifo!Spec

=============================================================================

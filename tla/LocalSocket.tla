----------------------------- MODULE LocalSocket -----------------------------
(***************************************************************************)
(* AF_UNIX sockets, socket pairs and pipes: LocalSocket                    *)
(* (src/posix_translation/local_socket.cc), the names they are bound to    *)
(* (abstract_socket_namespace.cc, logd_socket_namespace.cc) and the calls  *)
(* that wait for them.                                                     *)
(*                                                                         *)
(* All calls run under the one VFS mutex and a locked section is one step. *)
(* The mutex is released only inside Wait() or WaitUntil(): a thread that  *)
(* waits is asleep until a Broadcast() of the VFS condition, or, inside    *)
(* epoll_wait, a NotifyListeners() of the socket, wakes it; it then runs   *)
(* the rest of its loop in a later step.                                   *)
(*                                                                         *)
(* All sockets of a behaviour have one socket type: connect refuses a      *)
(* target of another type.  Data is a sequence of units, bytes of a stream *)
(* or packets; TRUE marks a unit sent together with descriptors.           *)
(***************************************************************************)
EXTENDS Integers, Sequences, FiniteSets

CONSTANTS
    Sock,        \* LocalSocket objects; each is created at most once
    Thread,      \* the calling threads
    Name,        \* names of the two socket namespaces
    LogdName,    \* those of the logd namespace
    Types,       \* values of socket_type_
    Capacity,    \* kBufferSize; a bound of the model for packet queues
    MaxBacklog,  \* bound on the argument of listen
    MaxCmsgs,    \* bound on cmsg_fd_queue_
    Careful,     \* TRUE: callers respect ConnectOnce and ListenOnce
    Timeouts,    \* TRUE: poll and accept may time out
    Null

ASSUME ConstantsAssumption ==
    /\ Types \subseteq {"SOCK_STREAM", "SOCK_SEQPACKET", "SOCK_DGRAM"}
    /\ Capacity \in Nat \ {0} /\ MaxBacklog \in Nat /\ MaxCmsgs \in Nat
    /\ LogdName \subseteq Name
    /\ Careful \in BOOLEAN /\ Timeouts \in BOOLEAN
    /\ Null \notin Sock \cup Name

VARIABLES
    type,     \* socket_type_ of every socket, chosen once
    state,    \* connect_state_, or "NONE" before the object exists
    open,     \* the sockets that have a descriptor
    dir,      \* stream_dir_
    peer,     \* peer_
    queue,    \* connection_queue_
    backlog,  \* connection_backlog_
    bound,    \* map_ of both namespaces; a socket that is no longer open stands for NULL
    target,   \* logd_target_name_
    buf,      \* buffer_ or queue_
    cmsgs,    \* length of cmsg_fd_queue_
    emptied,  \* history: sockets where a packet with descriptors was received into
              \* no buffer
    call      \* the blocking call a thread is in

vars == <<type, state, open, dir, peer, queue, backlog, bound, target, buf, cmsgs, emptied,
          call>>
conn == <<type, state, open, dir, peer, queue, backlog, bound, target>>
data == <<buf, cmsgs, emptied>>

Idle == [at |-> "idle", sock |-> Null, event |-> Null, asleep |-> FALSE]

Events == {"POLLIN", "POLLOUT", "POLLHUP", "POLLERR"}

\* epoll_wait; the second label remembers a wait that began while the socket was
\* connecting.
EPoll == {"epoll", "epollConnecting"}

TypeOK ==
    /\ type \in Types
    /\ state \in [Sock -> {"NONE", "NEW", "CONNECTING", "CONNECTED", "LISTENING"}]
    /\ open \subseteq Sock
    /\ dir \in [Sock -> {"READ_WRITE", "READ_ONLY", "WRITE_ONLY"}]
    /\ peer \in [Sock -> Sock \cup {Null}]
    /\ queue \in [Sock -> Seq(Sock)]
    /\ backlog \in [Sock -> 0 .. MaxBacklog]
    /\ bound \in [Name -> Sock \cup {Null}]
    /\ target \in [Sock -> Name \cup {Null}]
    /\ buf \in [Sock -> Seq(BOOLEAN)] /\ \A s \in Sock : Len(buf[s]) <= Capacity
    /\ cmsgs \in [Sock -> 0 .. MaxCmsgs]
    /\ emptied \subseteq Sock
    /\ call \in [Thread ->
         [at : {"idle", "accept", "connect", "recv", "poll"} \cup EPoll,
          sock : Sock \cup {Null},
          event : Events \cup {Null},
          asleep : BOOLEAN]]

Init ==
    /\ type \in Types
    /\ state = [s \in Sock |-> "NONE"]
    /\ open = {}
    /\ dir = [s \in Sock |-> "READ_WRITE"]
    /\ peer = [s \in Sock |-> Null]
    /\ queue = [s \in Sock |-> << >>]
    /\ backlog = [s \in Sock |-> 0]
    /\ bound = [n \in Name |-> Null]
    /\ target = [s \in Sock |-> Null]
    /\ buf = [s \in Sock |-> << >>]
    /\ cmsgs = [s \in Sock |-> 0]
    /\ emptied = {}
    /\ call = [t \in Thread |-> Idle]

Dgram == type = "SOCK_DGRAM"
Bound(s) == \E n \in Name : bound[n] = s
GetByName(n) == IF bound[n] \in open THEN bound[n] ELSE Null

-----------------------------------------------------------------------------
(* Readiness *)

\* GetPollEvents of a connected READ_WRITE socket (CanRead, CanWrite).
ConnectedEvents(s) ==
    LET closed == peer[s] = Null IN
       {e \in {"POLLIN"} : buf[s] # << >> \/ (closed /\ ~Dgram)}
    \cup {e \in {"POLLOUT"} :
            closed \/ type # "SOCK_STREAM" \/ Len(buf[peer[s]]) < Capacity}
    \cup {e \in {"POLLHUP"} : closed /\ ~Dgram}

\* GetPollEvents of the read and of the write end of a pipe.
PipeEvents(s) ==
    LET closed == peer[s] = Null IN
    IF dir[s] = "READ_ONLY"
      THEN {e \in {"POLLIN"} : buf[s] # << >>} \cup {e \in {"POLLHUP"} : closed}
      ELSE {e \in {"POLLOUT"} : closed \/ Len(buf[peer[s]]) < Capacity}
           \cup {e \in {"POLLERR"} : closed}

GetPollEvents(s) ==
    CASE state[s] = "NEW" -> {"POLLOUT", "POLLHUP"}
      [] state[s] = "CONNECTING" -> {}
      [] state[s] = "LISTENING" ->
           {"POLLOUT"} \cup {e \in {"POLLIN"} : queue[s] # << >>}
      [] state[s] = "CONNECTED" ->
           IF dir[s] = "READ_WRITE" THEN ConnectedEvents(s) ELSE PipeEvents(s)

IsSelectReadReady(s) == GetPollEvents(s) \cap {"POLLIN", "POLLHUP", "POLLERR"} # {}

\* IsPollReadyLocked for one descriptor: POLLNVAL once it is closed.
PollReady(s, event) ==
    s \notin open \/ GetPollEvents(s) \cap {event, "POLLHUP", "POLLERR"} # {}

\* The scan of epoll_wait: a closed file is no longer in epoll_map_.
EPollReady(s, event) ==
    s \in open /\ GetPollEvents(s) \cap {event, "POLLHUP", "POLLERR"} # {}

-----------------------------------------------------------------------------
(* Waiting and waking *)

Waiting(where, s, event) ==
    [at |-> where, sock |-> s, event |-> event, asleep |-> TRUE]
Sleeping(c) == Waiting(c.at, c.sock, c.event)

\* The call of another thread after this step's Broadcast() (of all who wait
\* on the VFS condition) and NotifyListeners() of the sockets in notified.
Woken(c, broadcast, notified) ==
    IF \/ broadcast /\ c.at \notin EPoll
       \/ c.at \in EPoll /\ c.sock \in notified
      THEN [at |-> c.at, sock |-> c.sock, event |-> c.event, asleep |-> FALSE]
      ELSE c

\* Mutant of Proceed: Signal() in place of Broadcast(), one thread is woken.
ProceedMutant(t, c, broadcast, notified) ==
    \E v \in Thread \ {t} :
      call' = [u \in Thread |-> IF u = t THEN c
                                ELSE IF u = v THEN Woken(call[u], broadcast, notified)
                                ELSE call[u]]

\* Thread t goes on with call c, the others are woken.
Proceed(t, c, broadcast, notified) ==
    call' = [u \in Thread |-> IF u = t THEN c
                              ELSE Woken(call[u], broadcast, notified)]

Quietly(t, c) == Proceed(t, c, FALSE, {})

\* Thread t runs: it starts a call, or goes on with one it was woken in.
Starts(t) == call[t].at = "idle"
Resumes(t, where) == call[t].at = where /\ ~call[t].asleep

-----------------------------------------------------------------------------
(* Creation, names *)

\* socket(AF_UNIX, ...)
Socket(t) ==
    /\ Starts(t)
    /\ \E s \in Sock :
         /\ state[s] = "NONE"
         /\ state' = [state EXCEPT ![s] = "NEW"]
         /\ open' = open \cup {s}
    /\ UNCHANGED <<type, dir, peer, queue, backlog, bound, target, data, call>>

\* Two connected sockets: socketpair, and pipe2 with its two directions.
MakePair(t, d1, d2) ==
    /\ Starts(t)
    /\ \E s1, s2 \in Sock :
         /\ s1 # s2 /\ state[s1] = "NONE" /\ state[s2] = "NONE"
         /\ state' = [state EXCEPT ![s1] = "CONNECTED", ![s2] = "CONNECTED"]
         /\ open' = open \cup {s1, s2}
         /\ dir' = [dir EXCEPT ![s1] = d1, ![s2] = d2]
         /\ peer' = [peer EXCEPT ![s1] = s2, ![s2] = s1]
    /\ UNCHANGED <<type, queue, backlog, bound, target, data, call>>

SocketPair(t) == MakePair(t, "READ_WRITE", "READ_WRITE")
Pipe2(t) == type = "SOCK_STREAM" /\ MakePair(t, "READ_ONLY", "WRITE_ONLY")

\* bind: one name for a socket, one socket for a name, where a key of the logd
\* namespace counts although its socket was closed.
Bind(t) ==
    /\ Starts(t)
    /\ \E s \in open, n \in Name :
         /\ ~Bound(s) /\ bound[n] = Null
         /\ bound' = [bound EXCEPT ![n] = s]
    /\ UNCHANGED <<type, state, open, dir, peer, queue, backlog, target, data, call>>

\* Callers listen on a socket that is not connected, and never lower the
\* backlog below the connections that wait.
ListenOnce(s, n) == state[s] \in {"NEW", "LISTENING"} /\ n >= Len(queue[s])

Listen(t) ==
    /\ Starts(t) /\ ~Dgram
    /\ \E s \in open, n \in 0 .. MaxBacklog :
         /\ Bound(s)
         /\ Careful => ListenOnce(s, n)
         /\ state' = [state EXCEPT ![s] = "LISTENING"]
         /\ backlog' = [backlog EXCEPT ![s] = n]
    /\ UNCHANGED <<type, open, dir, peer, queue, bound, target, data, call>>

-----------------------------------------------------------------------------
(* connect and accept *)

\* Callers connect a socket from one thread.
ConnectOnce(s) == state[s] = "NEW"

\* Mutant of HasRoom: one connection too many.
HasRoomMutant(l) == Len(queue[l]) # backlog[l] + 1

\* connection_queue_ of the listener is not full.
HasRoom(l) == Len(queue[l]) # backlog[l]

\* connect on a stream or packet socket: HandleConnectLocked queues the socket
\* at a listener that has room, then WaitForLocalSocketConnect always waits.
Connect(t) ==
    /\ Starts(t) /\ ~Dgram
    /\ \E s \in open, n \in Name :
         LET l == GetByName(n) IN
         /\ state[s] \in {"NEW", "CONNECTING"}
         /\ Careful => ConnectOnce(s)
         /\ l # Null
         /\ state[l] = "LISTENING" /\ HasRoom(l)
         /\ queue' = [queue EXCEPT ![l] = Append(@, s)]
         /\ state' = [state EXCEPT ![s] = "CONNECTING"]
         /\ IF Len(queue'[l]) = 1
              THEN Proceed(t, Waiting("connect", s, Null), TRUE, {l} \cap open)
              ELSE Quietly(t, Waiting("connect", s, Null))
    /\ UNCHANGED <<type, open, dir, peer, backlog, bound, target, data>>

\* connect on a datagram socket only records the name, and only a logd one.
ConnectDgram(t) ==
    /\ Starts(t) /\ Dgram
    /\ \E s \in open, n \in Name :
         /\ state[s] # "CONNECTED" /\ GetByName(n) # Null
         /\ target' = [target EXCEPT ![s] = IF n \in LogdName THEN n ELSE Null]
    /\ UNCHANGED <<type, state, open, dir, peer, queue, backlog, bound, data, call>>

\* The loop of WaitForLocalSocketConnect after a wake-up.
ConnectResume(t) ==
    /\ Resumes(t, "connect")
    /\ Quietly(t, IF state[call[t].sock] = "CONNECTING"
                    THEN Sleeping(call[t]) ELSE Idle)
    /\ UNCHANGED <<conn, data>>

\* Mutant of SkipClosed: the loop drops one connection too many.
SkipClosedMutant(q) ==
    LET live == {i \in 1 .. Len(q) : q[i] \in open}
    IN  IF live = {} THEN << >>
        ELSE SubSeq(q, 1 + CHOOSE i \in live : \A j \in live : i <= j, Len(q))

\* The connections left after closed ones are skipped from the front.
SkipClosed(q) ==
    LET live == {i \in 1 .. Len(q) : q[i] \in open}
    IN  IF live = {} THEN << >>
        ELSE SubSeq(q, CHOOSE i \in live : \A j \in live : i <= j, Len(q))

\* The second half of accept on the connections q that are left: EBADF when
\* the listener was closed, EAGAIN when there is none, EMFILE when no socket
\* can be made; otherwise the first one is connected to a new socket.
FinishAccept(t, l, q) ==
    LET fresh == {s \in Sock : state[s] = "NONE"} IN
    IF l \notin open \/ q = << >> \/ fresh = {}
      THEN /\ queue' = [queue EXCEPT ![l] = q]
           /\ Quietly(t, Idle)
           /\ UNCHANGED <<state, open, dir, peer>>
      ELSE \E server \in fresh :
             /\ queue' = [queue EXCEPT ![l] = Tail(q)]
             /\ open' = open \cup {server}
             /\ peer' = [peer EXCEPT ![server] = Head(q), ![Head(q)] = server]
             /\ state' = [state EXCEPT ![server] = "CONNECTED",
                                       ![Head(q)] = "CONNECTED"]
             /\ Proceed(t, Idle, TRUE, {l})
             /\ UNCHANGED dir

\* One round of WaitForOpenedConnectToAccept.
AcceptRound(t, l) ==
    LET q == SkipClosed(queue[l]) IN
    IF q = << >>
      THEN /\ queue' = [queue EXCEPT ![l] = q]
           /\ Quietly(t, Waiting("accept", l, Null))
           /\ UNCHANGED <<state, open, dir, peer>>
      ELSE FinishAccept(t, l, q)

Accept(t) ==
    /\ Starts(t) /\ ~Dgram
    /\ \E l \in open : state[l] = "LISTENING" /\ AcceptRound(t, l)
    /\ UNCHANGED <<type, backlog, bound, target, data>>

AcceptResume(t) ==
    /\ Resumes(t, "accept")
    /\ AcceptRound(t, call[t].sock)
    /\ UNCHANGED <<type, backlog, bound, target, data>>

\* recv_timeout_ ran out: the loop ends without another look at the queue.
AcceptTimeout(t) ==
    /\ Timeouts /\ call[t].at = "accept"
    /\ FinishAccept(t, call[t].sock, queue[call[t].sock])
    /\ UNCHANGED <<type, backlog, bound, target, data>>

-----------------------------------------------------------------------------
(* recvmsg and sendmsg (read, recv, write and send are wrappers of these) *)

\* Mutant of PopCmsg: the descriptors handed out stay queued.
PopCmsgMutant(n) == n

\* cmsg_fd_queue_.pop_front(), if there is anything in it.
PopCmsg(n) == IF n > 0 THEN n - 1 ELSE 0

\* Mutant of RoomNotice: recvmsg notifies nobody.
RoomNoticeMutant(s) == {}

\* recvmsg tells the listeners of the peer that there is room.
RoomNotice(s) == {peer[s]} \cap open

\* recvmsg after its wait: some bytes of a stream or one packet, and with them
\* the first group of descriptors, which are delivered or closed when the
\* control buffer is too small.  The peer's listeners are notified, but there
\* is no Broadcast().  With nothing to read it is EOF or EAGAIN, and so it is
\* without a buffer to read into, but then a packet is gone nevertheless, while
\* its descriptors stay queued and nobody is notified.
FinishRecv(t, s) ==
    \/ /\ buf[s] = << >> \/ type = "SOCK_STREAM"
       /\ Quietly(t, Idle)
       /\ UNCHANGED data
    \/ /\ buf[s] # << >> /\ type # "SOCK_STREAM"
       /\ buf' = [buf EXCEPT ![s] = Tail(@)]
       /\ emptied' = IF Head(buf[s]) THEN emptied \cup {s} ELSE emptied
       /\ Quietly(t, Idle)
       /\ UNCHANGED cmsgs
    \/ \E k \in 1 .. Len(buf[s]) :
         /\ type # "SOCK_STREAM" => k = 1
         /\ buf' = [buf EXCEPT ![s] = SubSeq(@, k + 1, Len(@))]
         /\ cmsgs' = [cmsgs EXCEPT ![s] = PopCmsg(@)]
         /\ Proceed(t, Idle, FALSE, RoomNotice(s))
         /\ UNCHANGED emptied

\* The loop of a blocking recvmsg.
RecvRound(t, s) ==
    IF peer[s] # Null /\ ~IsSelectReadReady(s)
      THEN Quietly(t, Waiting("recv", s, Null)) /\ UNCHANGED data
      ELSE FinishRecv(t, s)

\* A non-blocking recvmsg that finds nothing changes nothing.
Recv(t) ==
    /\ Starts(t)
    /\ \E s \in open :
         /\ dir[s] # "WRITE_ONLY"
         /\ Dgram \/ state[s] = "CONNECTED"
         /\ RecvRound(t, s)
    /\ UNCHANGED conn

RecvResume(t) ==
    /\ Resumes(t, "recv")
    /\ RecvRound(t, call[t].sock)
    /\ UNCHANGED conn

\* Where sendmsg delivers: the peer, or for an unconnected datagram socket the
\* socket bound to the logd name; no destination is an error.
Destination(s) ==
    IF peer[s] # Null THEN {peer[s]}
    ELSE {d \in Sock : Dgram /\ target[s] # Null /\ GetByName(target[s]) = d}

\* Mutant of Room: buffer_.write() without its bound.
RoomMutant(d) == Capacity

\* What CircularBuffer::write() takes: the rest of its capacity.
Room(d) == Capacity - Len(buf[d])

\* HandleSendmsgLocked: as many of n bytes as buffer_ has room for, or one
\* packet; the descriptors travel only if something was sent, else EAGAIN.
Send(t) ==
    /\ Starts(t)
    /\ \E s \in open, n \in 1 .. Capacity, withFds \in BOOLEAN :
         \E d \in Destination(s) :
           LET sent == IF n <= Room(d) THEN n ELSE Room(d) IN
           /\ dir[s] # "READ_ONLY"
           /\ Dgram \/ state[s] = "CONNECTED"
           /\ type # "SOCK_STREAM" => n = 1
           /\ sent > 0
           /\ withFds => cmsgs[d] < MaxCmsgs
           /\ buf' = [buf EXCEPT ![d] = @ \o [i \in 1 .. sent |-> withFds /\ i = 1]]
           /\ cmsgs' = [cmsgs EXCEPT ![d] = IF withFds THEN @ + 1 ELSE @]
           /\ Proceed(t, Idle, TRUE, {d} \cap open)
    /\ UNCHANGED <<conn, emptied>>

-----------------------------------------------------------------------------
(* poll (select is the same loop) and epoll_wait on one socket *)

Poll(t) ==
    /\ Starts(t)
    /\ \E s \in open, event \in {"POLLIN", "POLLOUT"} :
         /\ ~PollReady(s, event)
         /\ Quietly(t, Waiting("poll", s, event))
    /\ UNCHANGED <<conn, data>>

PollResume(t) ==
    /\ Resumes(t, "poll")
    /\ Quietly(t, IF PollReady(call[t].sock, call[t].event)
                    THEN Idle ELSE Sleeping(call[t]))
    /\ UNCHANGED <<conn, data>>

PollTimeout(t) ==
    /\ Timeouts /\ call[t].at = "poll"
    /\ Quietly(t, Idle)
    /\ UNCHANGED <<conn, data>>

EPollWait(t) ==
    /\ Starts(t)
    /\ \E s \in open, event \in {"POLLIN", "POLLOUT"} :
         /\ ~EPollReady(s, event)
         /\ Quietly(t, Waiting(IF state[s] = "CONNECTING" THEN "epollConnecting"
                                                         ELSE "epoll", s, event))
    /\ UNCHANGED <<conn, data>>

EPollResume(t) ==
    /\ \E where \in EPoll : Resumes(t, where)
    /\ Quietly(t, IF EPollReady(call[t].sock, call[t].event)
                    THEN Idle ELSE Sleeping(call[t]))
    /\ UNCHANGED <<conn, data>>

-----------------------------------------------------------------------------
(* close of the last descriptor: ReleaseFileRef tells the listeners, then   *)
(* OnLastFileRef disconnects the peer and gives the name back; the logd     *)
(* namespace keeps the key.                                                 *)

\* Mutant of Disconnected: the peer keeps its reference.
DisconnectedMutant(s) == [peer EXCEPT ![s] = Null]

\* peer_ of both ends, when there is a peer.
Disconnected(s) ==
    IF peer[s] = Null THEN peer ELSE [peer EXCEPT ![peer[s]] = Null, ![s] = Null]

\* Mutant of Announces: the broadcast is missing.
AnnouncesMutant(s) == FALSE

\* OnLastFileRef broadcasts only when there was a peer.
Announces(s) == peer[s] # Null

Close(t) ==
    /\ Starts(t)
    /\ \E s \in open :
         /\ open' = open \ {s}
         /\ bound' = [n \in Name |-> IF bound[n] = s /\ n \notin LogdName THEN Null
                                    ELSE bound[n]]
         /\ peer' = Disconnected(s)
         /\ Proceed(t, Idle, Announces(s), {s})
    /\ UNCHANGED <<type, state, dir, queue, backlog, target, data>>

-----------------------------------------------------------------------------
Resume(t) ==
    \/ ConnectResume(t) \/ AcceptResume(t) \/ RecvResume(t)
    \/ PollResume(t) \/ EPollResume(t)

Step(t) ==
    \/ Socket(t) \/ SocketPair(t) \/ Pipe2(t) \/ Bind(t) \/ Listen(t)
    \/ Connect(t) \/ ConnectDgram(t) \/ Accept(t) \/ AcceptTimeout(t)
    \/ Recv(t) \/ Send(t)
    \/ Poll(t) \/ PollTimeout(t) \/ EPollWait(t)
    \/ Close(t)
    \/ Resume(t)

Next == \E t \in Thread : Step(t)

Spec == Init /\ [][Next]_vars

\* A woken thread gets the mutex sooner or later.
FairSpec == Spec /\ \A t \in Thread : WF_vars(Resume(t))

-----------------------------------------------------------------------------
(* Properties *)

\* The condition on which the loop of a blocked call ends.
CanProceed(c) ==
    \/ c.at = "accept" /\ SkipClosed(queue[c.sock]) # << >>
    \/ c.at = "connect" /\ state[c.sock] # "CONNECTING"
    \/ c.at = "recv" /\ (peer[c.sock] = Null \/ IsSelectReadReady(c.sock))
    \/ c.at = "poll" /\ c.event = "POLLIN" /\ c.sock \in open
         /\ PollReady(c.sock, "POLLIN")
    \/ c.at \in EPoll /\ c.event = "POLLIN" /\ c.sock \in open
         /\ (buf[c.sock] # << >> \/ queue[c.sock] # << >>)
    \/ c.at = "epoll" /\ c.event = "POLLOUT" /\ c.sock \in open
         /\ peer[c.sock] # Null /\ "POLLOUT" \in GetPollEvents(c.sock)

\* No wake-up is lost: a thread asleep in accept, connect, recvmsg, poll for
\* input or epoll_wait for data, a connection or room has nothing to do, however
\* many threads wait on the shared condition, though HandleConnectLocked
\* broadcasts only for the first queued connection, and recvmsg tells nobody but
\* the listeners of its peer.  (accept notifies the listeners of the listening
\* socket only: an epoll_wait for POLLOUT that began before is not counted.)
NoLostWakeup ==
    \A t \in Thread : call[t].asleep => ~CanProceed(call[t])

\* Two ends of a connection know each other and are both open: a socket whose
\* peer_ is set is never left waiting for a socket that is gone.
PeerSymmetric ==
    \A s \in Sock : peer[s] # Null =>
      {s, peer[s]} \subseteq open /\ peer[peer[s]] = s

\* Every open socket that is connecting waits in exactly one place of one
\* connection queue, and a queue names no socket that is already connected: no
\* connect is answered twice or forgotten.
QueuedOnce ==
    /\ \A s \in open : state[s] = "CONNECTING" =>
         \E l \in Sock : \E i \in 1 .. Len(queue[l]) :
           /\ queue[l][i] = s
           /\ \A m \in Sock : \A j \in 1 .. Len(queue[m]) :
                queue[m][j] = s => m = l /\ j = i
    /\ \A l \in Sock : \A i \in 1 .. Len(queue[l]) :
         state[queue[l][i]] = "CONNECTING"

\* connection_queue_ holds at most connection_backlog_ sockets (local_socket.h).
QueueBounded == \A l \in Sock : Len(queue[l]) <= backlog[l]

\* What connects, accepts, closes and listens with another backlog that holds the
\* queue, in any order, keep consistent: the pairs, the queues and the sockets in
\* them.
Consistent == TypeOK /\ PeerSymmetric /\ QueuedOnce /\ QueueBounded

\* On packet sockets no group of descriptors outlives the data it was sent
\* with, so that the receiver of a packet never finds descriptors of an older
\* one: as long as no packet that came with descriptors was received into no
\* buffer at all, after which recvmsg leaves them behind.
DescriptorsNotStranded ==
    type # "SOCK_STREAM" => \A s \in Sock \ emptied :
      cmsgs[s] <= Cardinality({i \in 1 .. Len(buf[s]) : buf[s][i]})

\* A blocked call returns once its answer is final: connect when it has been
\* accepted, recvmsg when the peer is gone, poll when the socket was hung up by
\* its peer, or is a connection whose own descriptor was closed.  (The poll of a
\* socket that was never connected sleeps on when its descriptor is closed:
\* OnLastFileRef broadcasts only to disconnect a peer.)
AnsweredReturn ==
    \A t \in Thread :
      /\ (call[t].at = "connect" /\ state[call[t].sock] # "CONNECTING")
           ~> call[t].at # "connect"
      /\ (call[t].at = "recv" /\ peer[call[t].sock] = Null)
           ~> call[t].at # "recv"
      /\ (call[t].at = "poll" /\ call[t].sock \in open
             /\ "POLLHUP" \in GetPollEvents(call[t].sock))
           ~> call[t].at # "poll"
      /\ (call[t].at = "poll" /\ call[t].sock \notin open
             /\ state[call[t].sock] = "CONNECTED" /\ ~Dgram)
           ~> call[t].at # "poll"
=============================================================================

------------------------------ MODULE TcpSocket ------------------------------
(***************************************************************************)
(* One AF_INET stream socket: TCPSocket                                    *)
(* (src/posix_translation/tcp_socket.cc).                                  *)
(*                                                                         *)
(* Threads call it under the VFS mutex.  The Pepper socket may be used on  *)
(* the main thread only, so the calls post tasks to it, which run in the   *)
(* order they were posted; the callback of a Pepper operation that a task  *)
(* starts is itself posted to the main thread when the operation is done.  *)
(* Every task and callback takes the mutex and is one step.  Threads wait  *)
(* for the outcome on the VFS condition, which only tasks and callbacks    *)
(* broadcast; Pepper's Listen is called with the mutex released.           *)
(*                                                                         *)
(* Buffers are numbers of bytes.  A failed ALOG_ASSERT ends the process.   *)
(***************************************************************************)
EXTENDS Integers, Sequences, FiniteSets

CONSTANTS
    Thread,       \* the calling threads
    BufSize,      \* kBufSize
    MaxSend,      \* bound on the length of one send
    Errors,       \* the Pepper operations that may fail
    RecvTimeouts, \* TRUE: SO_RCVTIMEO is set, and poll has a timeout
    SendTimeouts  \* TRUE: SO_SNDTIMEO is set

ASSUME ConstantsAssumption ==
    /\ BufSize \in Nat \ {0, 1} /\ MaxSend \in Nat \ {0}
    /\ Errors \subseteq {"Listen", "Accept", "Connect", "Read", "Write"}
    /\ RecvTimeouts \in BOOLEAN /\ SendTimeouts \in BOOLEAN

VARIABLES
    state,        \* connect_state_
    hasFd,        \* a descriptor names the socket
    closed,       \* SocketWrapper::closed_
    inBuf,        \* bytes in in_buf_
    outBuf,       \* bytes in out_buf_
    writeBuf,     \* bytes in write_buf_
    eof,          \* eof_
    readSent,     \* read_sent_
    writeSent,    \* write_sent_
    accepted,     \* accepted_socket_ is not null
    tasks,        \* the tasks and callbacks posted to the main thread
    pending,      \* the Pepper operations under way
    call,         \* the blocking call a thread is in
    ignored,      \* history: failures of Listen and Accept that passed quietly
    aborted       \* the method whose ALOG_ASSERT failed, "none" before that

incoming == <<inBuf, eof, readSent>>
outgoing == <<outBuf, writeBuf, writeSent>>
vars == <<state, hasFd, closed, incoming, outgoing, accepted, tasks, pending,
          call, ignored, aborted>>

Operations == {"Accept", "Connect", "Read", "Write"}
Callback == [Accept |-> "OnAccept", Connect |-> "OnConnect",
             Read |-> "OnRead", Write |-> "OnWrite"]

Doing(where) == [at |-> where, event |-> "none", asleep |-> FALSE]
Idle == Doing("idle")
Waiting(where, event) == [at |-> where, event |-> event, asleep |-> TRUE]

TypeOK ==
    /\ state \in {"NEW", "CONNECTING", "CONNECTED", "LISTENING", "ERROR"}
    /\ {hasFd, closed, eof, readSent, writeSent, accepted} \subseteq BOOLEAN
    /\ inBuf \in 0 .. BufSize + BufSize \div 2
    /\ outBuf \in 0 .. BufSize + MaxSend - 1
    /\ writeBuf \in 0 .. BufSize + MaxSend - 1
    /\ tasks \in Seq(Operations \cup {"Close"} \cup {Callback[op] : op \in Operations})
    /\ pending \subseteq Operations
    /\ call \in [Thread ->
         [at : {"idle", "connect", "listen", "accept", "recv", "send", "poll",
                "closeWrite", "closeTask"},
          event : {"none", "in", "out"},
          asleep : BOOLEAN]]
    /\ ignored \subseteq {"Listen", "Accept"}
    /\ aborted \in {"none", "send"} \cup Operations \cup {Callback[op] : op \in Operations}

\* A socket of socket(), or one that accept() has made of a connection: it is
\* connected and its first Read is posted.
Init ==
    /\ \/ state = "NEW" /\ readSent = FALSE /\ tasks = << >>
       \/ state = "CONNECTED" /\ readSent = TRUE /\ tasks = <<"Read">>
    /\ hasFd = TRUE /\ closed = FALSE
    /\ inBuf = 0 /\ eof = FALSE
    /\ outBuf = 0 /\ writeBuf = 0 /\ writeSent = FALSE
    /\ accepted = FALSE
    /\ pending = {}
    /\ call = [t \in Thread |-> Idle]
    /\ ignored = {} /\ aborted = "none"

-----------------------------------------------------------------------------
(* Readiness *)

IsConnected == state = "CONNECTED"
IsTerminated == closed \/ state = "ERROR"

\* Mutant of Full: send never finds the buffer full.
FullMutant == FALSE

\* The limit of out_buf_.
Full == outBuf >= BufSize

IsSelectReadReady ==
    \/ closed
    \/ state \in {"NEW", "ERROR"}
    \/ IsConnected /\ (inBuf > 0 \/ eof)
    \/ state = "LISTENING" /\ accepted

IsSelectWriteReady ==
    \/ closed
    \/ state \in {"NEW", "ERROR"}
    \/ IsConnected /\ outBuf < BufSize

\* IsPollReadyLocked for this descriptor; POLLERR implies both.
PollReady(event) == IF event = "in" THEN IsSelectReadReady ELSE IsSelectWriteReady

-----------------------------------------------------------------------------
(* Waiting, waking, posting *)

Starts(t) == call[t].at = "idle" /\ hasFd
Resumes(t, where) == call[t].at = where /\ ~call[t].asleep
TimesOut(t, where) == call[t].at = where
Goes(t, c) == call' = [call EXCEPT ![t] = c]

\* Mutant of Broadcast: Signal(), one thread is woken.
BroadcastMutant ==
    LET sleepers == {t \in Thread : call[t].asleep}
    IN  IF sleepers = {} THEN call
        ELSE [call EXCEPT ![CHOOSE t \in sleepers : TRUE].asleep = FALSE]

\* Everybody who waits is woken.
Broadcast ==
    [t \in Thread |-> [at |-> call[t].at, event |-> call[t].event, asleep |-> FALSE]]

\* CallOnMainThread
Post(task) == tasks' = Append(tasks, task)

\* The state after MarkAsErrorLocked.
MarkAsError == IF closed THEN state ELSE "ERROR"

\* Mutant of WantsRead: a read that is under way is forgotten.
WantsReadMutant(sent, bytes) == IsConnected /\ bytes < BufSize \div 2 /\ ~eof

\* PostReadTaskLocked does something.
WantsRead(sent, bytes) ==
    IsConnected /\ ~sent /\ bytes < BufSize \div 2 /\ ~eof

-----------------------------------------------------------------------------
(* connect *)

\* A blocking connect waits for the result, its own or that of a connect under
\* way; a non-blocking one returns.
Connect(t) ==
    /\ Starts(t)
    /\ \/ /\ state = "NEW"
          /\ state' = "CONNECTING"
          /\ Post("Connect")
          /\ Goes(t, Waiting("connect", "none")) \/ UNCHANGED call
       \/ /\ state = "CONNECTING"
          /\ Goes(t, Waiting("connect", "none"))
          /\ UNCHANGED <<state, tasks>>
    /\ UNCHANGED <<hasFd, closed, incoming, outgoing, accepted, pending, ignored, aborted>>

ConnectResume(t) ==
    /\ Resumes(t, "connect")
    /\ Goes(t, IF state = "CONNECTING" /\ ~closed THEN Waiting("connect", "none") ELSE Idle)
    /\ UNCHANGED <<state, hasFd, closed, incoming, outgoing, accepted, tasks, pending,
                   ignored, aborted>>

-----------------------------------------------------------------------------
(* listen and accept *)

\* Mutant of CanListen: a listening socket may listen again.
CanListenMutant == state \in {"NEW", "LISTENING"}

CanListen == state = "NEW"

\* listen up to the call of Pepper, which it makes with the mutex released.
Listen(t) ==
    /\ Starts(t) /\ CanListen
    /\ state' = "LISTENING"
    /\ Goes(t, Doing("listen"))
    /\ UNCHANGED <<hasFd, closed, incoming, outgoing, accepted, tasks, pending,
                   ignored, aborted>>

\* Pepper's Listen returned: nothing to do on a closed socket, else the first
\* Accept is posted, or the socket is marked, without a Broadcast().
ListenReturn(t) ==
    /\ call[t].at = "listen"
    /\ Goes(t, Idle)
    /\ \/ closed /\ UNCHANGED <<state, tasks, ignored>>
       \/ ~closed /\ Post("Accept") /\ UNCHANGED <<state, ignored>>
       \/ /\ ~closed /\ "Listen" \in Errors
          /\ state' = MarkAsError
          /\ ignored' = ignored \cup {"Listen"}
          /\ UNCHANGED tasks
    /\ UNCHANGED <<hasFd, closed, incoming, outgoing, accepted, pending, aborted>>

\* Mutant of TakeAccepted: the next Accept is not posted.
TakeAcceptedMutant == accepted' = FALSE /\ UNCHANGED tasks

\* accept takes the connection and has the next one accepted.
TakeAccepted == accepted' = FALSE /\ Post("Accept")

\* accept after its wait; EAGAIN without a connection.
FinishAccept(t) ==
    /\ Goes(t, Idle)
    /\ IF accepted THEN TakeAccepted ELSE UNCHANGED <<accepted, tasks>>

Accept(t) ==
    /\ Starts(t) /\ state = "LISTENING"
    /\ IF accepted
         THEN FinishAccept(t)
         ELSE Goes(t, Waiting("accept", "none")) /\ UNCHANGED <<accepted, tasks>>
    /\ UNCHANGED <<state, hasFd, closed, incoming, outgoing, pending, ignored, aborted>>

AcceptResume(t) ==
    /\ Resumes(t, "accept")
    /\ IF closed
         THEN Goes(t, Idle) /\ UNCHANGED <<accepted, tasks>>
         ELSE IF accepted
           THEN FinishAccept(t)
           ELSE Goes(t, Waiting("accept", "none")) /\ UNCHANGED <<accepted, tasks>>
    /\ UNCHANGED <<state, hasFd, closed, incoming, outgoing, pending, ignored, aborted>>

AcceptTimeout(t) ==
    /\ RecvTimeouts /\ TimesOut(t, "accept") /\ ~closed
    /\ FinishAccept(t)
    /\ UNCHANGED <<state, hasFd, closed, incoming, outgoing, pending, ignored, aborted>>

-----------------------------------------------------------------------------
(* recv *)

\* recv after its wait: some bytes, left in place with MSG_PEEK, after which
\* PostReadTaskLocked may post a Read; otherwise EOF or EAGAIN.
FinishRecv(t) ==
    /\ Goes(t, Idle)
    /\ \/ inBuf = 0 /\ UNCHANGED <<inBuf, readSent, tasks>>
       \/ \E n \in 1 .. inBuf, peek \in BOOLEAN :
            /\ inBuf' = IF peek THEN inBuf ELSE inBuf - n
            /\ readSent' = (readSent \/ WantsRead(readSent, inBuf'))
            /\ IF WantsRead(readSent, inBuf') THEN Post("Read") ELSE UNCHANGED tasks
    /\ UNCHANGED eof

\* The loop of a blocking recv.
RecvRound(t) ==
    IF IsSelectReadReady \/ IsTerminated
      THEN FinishRecv(t)
      ELSE Goes(t, Waiting("recv", "none")) /\ UNCHANGED <<incoming, tasks>>

\* A non-blocking recv that finds nothing changes nothing.
Recv(t) ==
    /\ Starts(t) /\ state \notin {"NEW", "LISTENING"}
    /\ RecvRound(t)
    /\ UNCHANGED <<state, hasFd, closed, outgoing, accepted, pending, ignored, aborted>>

RecvResume(t) ==
    /\ \/ /\ Resumes(t, "recv")
          /\ IF closed THEN Goes(t, Idle) /\ UNCHANGED <<incoming, tasks>>
                       ELSE RecvRound(t)
       \/ RecvTimeouts /\ TimesOut(t, "recv") /\ ~closed /\ FinishRecv(t)
    /\ UNCHANGED <<state, hasFd, closed, outgoing, accepted, pending, ignored, aborted>>

-----------------------------------------------------------------------------
(* send *)

\* The bytes go to out_buf_; a Write is posted unless one is under way.
Enqueue(t) ==
    /\ \E n \in 1 .. MaxSend : outBuf' = outBuf + n
    /\ IF writeSent THEN UNCHANGED tasks ELSE Post("Write")
    /\ Goes(t, Idle)
    /\ UNCHANGED <<writeBuf, writeSent>>

\* A non-blocking send to a full buffer changes nothing.
Send(t) ==
    /\ Starts(t) /\ IsConnected
    /\ IF Full
         THEN Goes(t, Waiting("send", "none")) /\ UNCHANGED <<outgoing, tasks>>
         ELSE Enqueue(t)
    /\ UNCHANGED <<state, hasFd, closed, incoming, accepted, pending, ignored, aborted>>

SendResume(t) ==
    /\ Resumes(t, "send")
    /\ IF closed \/ ~IsConnected
         THEN Goes(t, Idle) /\ UNCHANGED <<outgoing, tasks>>
         ELSE IF Full
           THEN Goes(t, Waiting("send", "none")) /\ UNCHANGED <<outgoing, tasks>>
           ELSE Enqueue(t)
    /\ UNCHANGED <<state, hasFd, closed, incoming, accepted, pending, ignored, aborted>>

\* send_timeout_ ran out.  With the buffer still full the call reaches
\* ALOG_ASSERT(!is_blocking).
SendTimeout(t) ==
    /\ SendTimeouts /\ TimesOut(t, "send") /\ ~closed
    /\ \/ ~IsConnected /\ Goes(t, Idle) /\ UNCHANGED <<outgoing, tasks, aborted>>
       \/ IsConnected /\ ~Full /\ Enqueue(t) /\ UNCHANGED aborted
       \/ /\ IsConnected /\ Full
          /\ aborted' = "send"
          /\ UNCHANGED <<outgoing, tasks, call>>
    /\ UNCHANGED <<state, hasFd, closed, incoming, accepted, pending, ignored>>

-----------------------------------------------------------------------------
(* poll (select is the same loop) *)

Poll(t) ==
    /\ Starts(t)
    /\ \E event \in {"in", "out"} : ~PollReady(event) /\ Goes(t, Waiting("poll", event))
    /\ UNCHANGED <<state, hasFd, closed, incoming, outgoing, accepted, tasks, pending,
                   ignored, aborted>>

\* A descriptor that is no longer there is POLLNVAL.
PollResume(t) ==
    /\ \/ /\ Resumes(t, "poll")
          /\ Goes(t, IF ~hasFd \/ PollReady(call[t].event)
                       THEN Idle ELSE Waiting("poll", call[t].event))
       \/ RecvTimeouts /\ TimesOut(t, "poll") /\ Goes(t, Idle)
    /\ UNCHANGED <<state, hasFd, closed, incoming, outgoing, accepted, tasks, pending,
                   ignored, aborted>>

-----------------------------------------------------------------------------
(* close of the last descriptor *)

\* CloseLocked waits for the write under way, then for the task Close.
CloseRound(t) ==
    IF writeSent /\ IsConnected
      THEN Goes(t, Waiting("closeWrite", "none")) /\ UNCHANGED tasks
      ELSE Goes(t, Waiting("closeTask", "none")) /\ Post("Close")

\* OnLastFileRef
CloseFd(t) ==
    /\ Starts(t)
    /\ hasFd' = FALSE
    /\ CloseRound(t)
    /\ UNCHANGED <<state, closed, incoming, outgoing, accepted, pending, ignored, aborted>>

CloseResume(t) ==
    /\ \/ Resumes(t, "closeWrite") /\ CloseRound(t)
       \/ /\ Resumes(t, "closeTask")
          /\ Goes(t, IF closed THEN Idle ELSE Waiting("closeTask", "none"))
          /\ UNCHANGED tasks
    /\ UNCHANGED <<state, hasFd, closed, incoming, outgoing, accepted, pending,
                   ignored, aborted>>

-----------------------------------------------------------------------------
(* Tasks and callbacks on the main thread.  Pepper refuses an operation that *)
(* is already under way, which the ALOG_ASSERT on its result notices.        *)

\* The main thread takes this task.
Runs(task) == tasks # << >> /\ Head(tasks) = task

\* An ALOG_ASSERT of the method fails.
Fail(method) ==
    /\ aborted' = method
    /\ UNCHANGED <<state, hasFd, closed, incoming, outgoing, accepted, tasks, pending,
                   call, ignored>>

RunAccept ==
    /\ Runs("Accept")
    /\ IF "Accept" \in pending
         THEN Fail("Accept")
         ELSE /\ tasks' = Tail(tasks)
              /\ pending' = pending \cup {"Accept"}
              /\ UNCHANGED <<state, hasFd, closed, incoming, outgoing, accepted, call,
                             ignored, aborted>>

\* OnAccept does not look at its result: a failed accept leaves
\* accepted_socket_ null.
OnAccept ==
    /\ Runs("OnAccept")
    /\ IF accepted
         THEN Fail("OnAccept")
         ELSE /\ tasks' = Tail(tasks)
              /\ \/ accepted' = TRUE /\ UNCHANGED ignored
                 \/ /\ "Accept" \in Errors
                    /\ ignored' = ignored \cup {"Accept"}
                    /\ UNCHANGED accepted
              /\ call' = Broadcast
              /\ UNCHANGED <<state, hasFd, closed, incoming, outgoing, pending, aborted>>

RunConnect ==
    /\ Runs("Connect")
    /\ IF state # "CONNECTING" \/ "Connect" \in pending
         THEN Fail("Connect")
         ELSE /\ tasks' = Tail(tasks)
              /\ pending' = pending \cup {"Connect"}
              /\ UNCHANGED <<state, hasFd, closed, incoming, outgoing, accepted, call,
                             ignored, aborted>>

\* A connection starts to read at once: PostReadTaskLocked calls ReadLocked.
OnConnect ==
    /\ Runs("OnConnect")
    /\ IF state # "CONNECTING"
         THEN Fail("OnConnect")
         ELSE /\ tasks' = Tail(tasks)
              /\ \/ /\ state' = "CONNECTED"
                    /\ readSent' = TRUE
                    /\ pending' = pending \cup {"Read"}
                 \/ /\ "Connect" \in Errors
                    /\ state' = MarkAsError
                    /\ UNCHANGED <<readSent, pending>>
              /\ call' = Broadcast
              /\ UNCHANGED <<hasFd, closed, inBuf, eof, outgoing, accepted, ignored, aborted>>

\* ReadLocked of a posted Read.
RunRead ==
    /\ Runs("Read")
    /\ IF ~IsTerminated /\ "Read" \in pending
         THEN Fail("Read")
         ELSE /\ tasks' = Tail(tasks)
              /\ IF IsTerminated
                   THEN readSent' = FALSE /\ call' = Broadcast /\ UNCHANGED pending
                   ELSE /\ pending' = pending \cup {"Read"}
                        /\ UNCHANGED <<readSent, call>>
              /\ UNCHANGED <<state, hasFd, closed, inBuf, eof, outgoing, accepted,
                             ignored, aborted>>

\* n bytes arrived: they are kept and the next read is started, if wanted.
ReadBytes(n) ==
    /\ inBuf' = inBuf + n
    /\ readSent' = WantsRead(FALSE, inBuf + n)
    /\ pending' = IF WantsRead(FALSE, inBuf + n) THEN pending \cup {"Read"} ELSE pending
    /\ UNCHANGED <<state, eof>>

\* OnReadLocked: bytes, the end of the stream, an error, or a dead socket.
OnRead ==
    /\ Runs("OnRead")
    /\ tasks' = Tail(tasks)
    /\ \/ ~IsTerminated /\ \E n \in 1 .. BufSize : ReadBytes(n)
       \/ /\ ~IsTerminated
          /\ eof' = TRUE /\ readSent' = FALSE
          /\ UNCHANGED <<state, inBuf, pending>>
       \/ /\ ~IsTerminated /\ "Read" \in Errors
          /\ state' = MarkAsError /\ readSent' = FALSE
          /\ UNCHANGED <<inBuf, eof, pending>>
       \/ /\ IsTerminated
          /\ readSent' = FALSE
          /\ UNCHANGED <<state, inBuf, eof, pending>>
    /\ call' = Broadcast
    /\ UNCHANGED <<hasFd, closed, outgoing, accepted, ignored, aborted>>

\* The bytes that WriteLocked moves from out_buf_ to write_buf_, of which w are
\* left from the last write: all by a swap, or a chunk if few are left.
Moved(w) ==
    IF w = 0 THEN outBuf
    ELSE IF w < BufSize \div 2
      THEN IF outBuf < BufSize - w THEN outBuf ELSE BufSize - w
      ELSE 0

\* WriteLocked of a healthy socket: the next write starts.
WriteLocked(w) ==
    /\ writeBuf' = w + Moved(w)
    /\ outBuf' = outBuf - Moved(w)
    /\ writeSent' = TRUE
    /\ pending' = pending \cup {"Write"}

\* The task Write, which does nothing while a write is under way.
RunWrite ==
    /\ Runs("Write")
    /\ IF ~writeSent /\ ~IsTerminated /\ "Write" \in pending
         THEN Fail("Write")
         ELSE /\ tasks' = Tail(tasks)
              /\ \/ writeSent /\ UNCHANGED <<outgoing, pending, call>>
                 \/ /\ ~writeSent /\ IsTerminated
                    /\ call' = Broadcast
                    /\ UNCHANGED <<outgoing, pending>>
                 \/ ~writeSent /\ ~IsTerminated /\ WriteLocked(writeBuf) /\ UNCHANGED call
              /\ UNCHANGED <<state, hasFd, closed, incoming, accepted, ignored, aborted>>

\* Mutant of WritesOn: out_buf_ is forgotten.
WritesOnMutant(w) == w > 0

\* OnWrite goes on with what is left in write_buf_ and out_buf_.
WritesOn(w) == w > 0 \/ outBuf > 0

\* n bytes have been written.
WriteEnds(n) ==
    IF WritesOn(writeBuf - n)
      THEN WriteLocked(writeBuf - n)
      ELSE /\ writeBuf' = writeBuf - n /\ writeSent' = FALSE
           /\ UNCHANGED <<outBuf, pending>>

OnWrite ==
    /\ Runs("OnWrite")
    /\ tasks' = Tail(tasks)
    /\ \/ ~IsTerminated /\ (\E n \in 1 .. writeBuf : WriteEnds(n)) /\ UNCHANGED state
       \/ /\ ~IsTerminated /\ "Write" \in Errors
          /\ state' = MarkAsError /\ writeSent' = FALSE
          /\ UNCHANGED <<outBuf, writeBuf, pending>>
       \/ /\ IsTerminated
          /\ writeSent' = FALSE
          /\ UNCHANGED <<state, outBuf, writeBuf, pending>>
    /\ call' = Broadcast
    /\ UNCHANGED <<hasFd, closed, incoming, accepted, ignored, aborted>>

\* Mutant of RunClose: posted tasks are not cancelled, nor is anybody woken.
RunCloseMutant ==
    /\ Runs("Close")
    /\ closed' = TRUE
    /\ tasks' = Tail(tasks)
    /\ UNCHANGED <<state, hasFd, incoming, outgoing, accepted, pending, call, ignored,
                   aborted>>

\* CancelAll drops every task and callback of the socket.
RunClose ==
    /\ Runs("Close")
    /\ closed' = TRUE
    /\ tasks' = << >> /\ pending' = {}
    /\ call' = Broadcast
    /\ UNCHANGED <<state, hasFd, incoming, outgoing, accepted, ignored, aborted>>

\* Pepper completes an operation: its callback is posted.
Complete(op) ==
    /\ op \in pending
    /\ pending' = pending \ {op}
    /\ Post(Callback[op])
    /\ UNCHANGED <<state, hasFd, closed, incoming, outgoing, accepted, call, ignored,
                   aborted>>

-----------------------------------------------------------------------------
Resume(t) ==
    \/ ConnectResume(t) \/ AcceptResume(t) \/ RecvResume(t) \/ SendResume(t)
    \/ PollResume(t) \/ CloseResume(t)

ThreadStep(t) ==
    \/ Connect(t) \/ Listen(t) \/ ListenReturn(t) \/ Accept(t) \/ AcceptTimeout(t)
    \/ Recv(t) \/ Send(t) \/ SendTimeout(t) \/ Poll(t) \/ CloseFd(t)
    \/ Resume(t)

MainThread ==
    \/ RunAccept \/ RunConnect \/ RunRead \/ RunWrite \/ RunClose
    \/ OnAccept \/ OnConnect \/ OnRead \/ OnWrite

Running == aborted = "none"

Next ==
    /\ Running
    /\ \/ MainThread
       \/ \E op \in Operations : Complete(op)
       \/ \E t \in Thread : ThreadStep(t)

Spec == Init /\ [][Next]_vars

\* The main thread runs what is posted, woken threads get the mutex, and Pepper
\* completes connects and writes.
FairSpec ==
    /\ Spec
    /\ WF_vars(Running /\ MainThread)
    /\ WF_vars(Running /\ Complete("Connect"))
    /\ WF_vars(Running /\ Complete("Write"))
    /\ \A t \in Thread : WF_vars(Running /\ Resume(t))

-----------------------------------------------------------------------------
(* Properties *)

\* WriteLocked makes room in out_buf_ without a Broadcast(): the one of OnWrite,
\* which is on its way, wakes those who wait for room.
RoomPending == IsConnected /\ writeSent

\* The condition on which the loop of a blocked call ends.
CanProceed(c) ==
    \/ closed
    \/ c.at = "connect" /\ state # "CONNECTING"
    \/ c.at = "accept" /\ accepted
    \/ c.at = "recv" /\ (IsSelectReadReady \/ IsTerminated)
    \/ c.at = "send" /\ (~Full \/ ~IsConnected) /\ ~RoomPending
    \/ c.at = "poll" /\ hasFd /\ PollReady(c.event) /\ ~(c.event = "out" /\ RoomPending)
    \/ c.at = "closeWrite" /\ ~(writeSent /\ IsConnected)

\* No wake-up is lost: a thread that sleeps in connect, accept, recv, send, poll
\* or close has nothing to do, whichever task, callback or failure came last,
\* unless a listen failed, which is not broadcast; one that waits for room in
\* out_buf_ may have to wait for OnWrite.
NoLostWakeup ==
    "Listen" \notin ignored =>
      \A t \in Thread : call[t].asleep => ~CanProceed(call[t])

Posted(task) == Cardinality({i \in 1 .. Len(tasks) : tasks[i] = task})
UnderWay(op) == Posted(Callback[op]) + (IF op \in pending THEN 1 ELSE 0)

\* read_sent_ stands for exactly one read, posted or under way (read_buf_ has
\* one writer), and a connected socket short of data always has one: no order
\* of recv, MSG_PEEK and callbacks leaves it deaf.
ReaderArmed ==
    ~closed =>
      /\ Posted("Read") + UnderWay("Read") = IF readSent THEN 1 ELSE 0
      /\ IsConnected /\ ~eof /\ inBuf < BufSize \div 2 => readSent

\* write_sent_ stands for the one write under way, which is never empty, and
\* bytes of a connected socket are always about to be written.
WriterArmed ==
    ~closed =>
      /\ UnderWay("Write") = IF writeSent THEN 1 ELSE 0
      /\ writeSent => writeBuf > 0
      /\ IsConnected /\ outBuf + writeBuf > 0 => writeSent \/ Posted("Write") > 0

\* A listening socket always has one accept posted, under way or done, and
\* never two (accepted_socket_ holds one), until an accept fails.
AcceptArmed ==
    ~closed /\ state = "LISTENING" /\ "Accept" \notin ignored =>
      Posted("Accept") + UnderWay("Accept") + (IF accepted THEN 1 ELSE 0)
        + Cardinality({t \in Thread : call[t].at = "listen"}) = 1

\* Whatever threads, tasks and callbacks interleave, the flags tell the truth of
\* what is posted and under way, and nothing that should go on has stopped.
Armed == TypeOK /\ ReaderArmed /\ WriterArmed /\ AcceptArmed

\* No ALOG_ASSERT on the main thread fails: connect_state_ when Connect and
\* OnConnect run, accepted_socket_ in OnAccept, and Pepper's answer to every
\* operation, which is never started twice.
NoAssertFails == aborted \in {"none", "send"}

\* connect and close return: the wake-ups of OnConnect and Close reach the thread
\* whatever the other threads do.
CallsReturn ==
    \A t \in Thread :
      /\ call[t].at = "connect" ~> (call[t].at # "connect" \/ ~Running)
      /\ call[t].at = "closeTask" ~> (call[t].at # "closeTask" \/ ~Running)
=============================================================================

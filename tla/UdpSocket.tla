------------------------------ MODULE UdpSocket ------------------------------
(***************************************************************************)
(* One AF_INET datagram socket: UDPSocket                                  *)
(* (src/posix_translation/udp_socket.cc).                                  *)
(*                                                                         *)
(* As with TCP, threads call it under the VFS mutex and post the use of    *)
(* the Pepper socket to the main thread, where every task and callback is  *)
(* one step.  bind() calls Pepper itself, with the mutex released.  Pepper *)
(* sends and receives only on a bound socket and does one operation of a   *)
(* kind at a time; an ALOG_ASSERT on its answer ends the process.          *)
(*                                                                         *)
(* The queues are numbers of messages: each message is sent or received    *)
(* whole.                                                                  *)
(***************************************************************************)
EXTENDS Integers, Sequences, FiniteSets

CONSTANTS
    Thread,       \* the calling threads
    QueueSize,    \* kQueueSize
    MaxSends,     \* bound on the number of messages sent
    Errors,       \* the Pepper operations that may fail
    RecvTimeouts  \* TRUE: SO_RCVTIMEO is set, and poll has a timeout

ASSUME ConstantsAssumption ==
    /\ QueueSize \in Nat \ {0} /\ MaxSends \in Nat
    /\ Errors \subseteq {"Bind", "Read", "Write"}
    /\ RecvTimeouts \in BOOLEAN

VARIABLES
    state,        \* state_
    bound,        \* Pepper has bound the socket
    connected,    \* connected_addr_ is not AF_UNSPEC
    hasFd,        \* a descriptor names the socket
    closed,       \* SocketWrapper::closed_
    inQueue,      \* messages in in_queue_
    outQueue,     \* messages in out_queue_
    readSent,     \* read_sent_
    writeSent,    \* write_sent_
    tasks,        \* the tasks and callbacks posted to the main thread
    pending,      \* the Pepper operations under way
    call,         \* the call a thread is in
    sends,        \* messages sent so far
    early,        \* history: a message was queued while a bind was under way
    deaf,         \* history: a read has failed
    aborted       \* the method whose ALOG_ASSERT failed, "none" before that

binding == <<state, bound, connected>>
life == <<hasFd, closed>>
incoming == <<inQueue, readSent, deaf>>
outgoing == <<outQueue, writeSent, early>>
vars == <<binding, life, incoming, outgoing, sends, tasks, pending, call, aborted>>

Operations == {"Read", "Write"}
Callback == [Read |-> "OnRead", Write |-> "OnWrite"]

Idle == [at |-> "idle", asleep |-> FALSE, result |-> "none"]
Waiting(where) == [at |-> where, asleep |-> TRUE, result |-> "none"]

TypeOK ==
    /\ state \in {"NEW", "BINDING", "BOUND"}
    /\ {bound, connected, hasFd, closed, readSent, writeSent, early, deaf}
         \subseteq BOOLEAN
    /\ inQueue \in 0 .. QueueSize
    /\ outQueue \in 0 .. MaxSends /\ sends \in 0 .. MaxSends
    /\ tasks \in Seq(Operations \cup {"Close", "OnRead", "OnWrite"})
    /\ pending \subseteq Operations
    /\ call \in [Thread ->
         [at : {"idle", "bind", "sendtoBind", "sendto", "recvfrom", "poll", "close"},
          asleep : BOOLEAN,
          result : {"none", "ok", "error"}]]
    /\ aborted \in {"none"} \cup Operations

Init ==
    /\ state = "NEW" /\ bound = FALSE /\ connected = FALSE
    /\ hasFd = TRUE /\ closed = FALSE
    /\ inQueue = 0 /\ readSent = FALSE /\ deaf = FALSE
    /\ outQueue = 0 /\ writeSent = FALSE /\ sends = 0 /\ early = FALSE
    /\ tasks = << >> /\ pending = {}
    /\ call = [t \in Thread |-> Idle]
    /\ aborted = "none"

-----------------------------------------------------------------------------
(* Waiting, waking, posting *)

IsSelectReadReady == closed \/ inQueue > 0

Starts(t) == call[t].at = "idle" /\ hasFd
Resumes(t, where) == call[t].at = where /\ ~call[t].asleep
TimesOut(t, where) == RecvTimeouts /\ call[t].at = where /\ ~closed
Goes(t, c) == call' = [call EXCEPT ![t] = c]

\* Mutant of Broadcast: Signal(), one thread is woken.
BroadcastMutant ==
    LET sleepers == {t \in Thread : call[t].asleep}
    IN  IF sleepers = {} THEN call
        ELSE [call EXCEPT ![CHOOSE t \in sleepers : TRUE].asleep = FALSE]

\* Everybody who waits is woken.
Broadcast == [t \in Thread |-> [call[t] EXCEPT !.asleep = FALSE]]

\* Mutant of WantsRead: off by one, the queue takes one message too many.
WantsReadMutant(sent, n) == ~sent /\ n <= QueueSize

\* PostReadTaskLocked does something.
WantsRead(sent, n) == ~sent /\ n < QueueSize

\* Mutant of ReadTask: a read that is under way does not count.
ReadTaskMutant(n) == IF n < QueueSize THEN <<"Read">> ELSE << >>

\* The task that PostReadTaskLocked posts from a thread, if any.
ReadTask(n) == IF WantsRead(readSent, n) THEN <<"Read">> ELSE << >>

-----------------------------------------------------------------------------
(* bind, connect *)

\* bind up to the call of Pepper; where is bind itself or the sendto it is for.
StartBind(t, where) ==
    /\ state = "NEW"
    /\ state' = "BINDING"
    /\ Goes(t, [Idle EXCEPT !.at = where])
    /\ UNCHANGED <<bound, connected, life, incoming, outgoing, tasks, pending, aborted>>

Bind(t) == Starts(t) /\ StartBind(t, "bind") /\ UNCHANGED sends

InBind(t) == call[t].at \in {"bind", "sendtoBind"}

\* Pepper binds the socket, or fails to, while the thread waits without the
\* mutex.  A closed socket cannot be bound.
PepperBinds(t) ==
    /\ InBind(t) /\ call[t].result = "none"
    /\ \/ ~closed /\ bound' = TRUE /\ Goes(t, [call[t] EXCEPT !.result = "ok"])
       \/ /\ closed \/ "Bind" \in Errors
          /\ Goes(t, [call[t] EXCEPT !.result = "error"])
          /\ UNCHANGED bound
    /\ UNCHANGED <<state, connected, life, incoming, outgoing, tasks, pending, sends, aborted>>

\* sendto queues its message; PostWriteTaskLocked posts a Write unless one is
\* posted or under way.  A blocking call then waits until out_queue_ is empty.
\* others is what the other threads do, before the tasks already posted.
Enqueue(t, others, before) ==
    /\ outQueue' = outQueue + 1
    /\ tasks' = before \o (IF writeSent THEN << >> ELSE <<"Write">>)
    /\ writeSent' = TRUE
    /\ early' = (early \/ (state = "BINDING" /\ ~InBind(t)))
    /\ \/ call' = [others EXCEPT ![t] = Waiting("sendto")]
       \/ call' = [others EXCEPT ![t] = Idle]

\* The rest of bind: nothing on a closed socket, NEW again after an error, else
\* the first read is posted and a sendto goes on with its message.
BindReturn(t) ==
    /\ InBind(t) /\ call[t].result # "none"
    /\ \/ /\ closed
          /\ Goes(t, Idle)
          /\ UNCHANGED <<state, readSent, outgoing, tasks>>
       \/ /\ ~closed /\ call[t].result = "error"
          /\ state' = "NEW"
          /\ Goes(t, Idle)
          /\ UNCHANGED <<readSent, outgoing, tasks>>
       \/ /\ ~closed /\ call[t].result = "ok"
          /\ state' = "BOUND"
          /\ readSent' = (readSent \/ WantsRead(readSent, inQueue))
          /\ IF call[t].at = "sendtoBind"
               THEN Enqueue(t, Broadcast, tasks \o ReadTask(inQueue))
               ELSE /\ tasks' = tasks \o ReadTask(inQueue)
                    /\ call' = [Broadcast EXCEPT ![t] = Idle]
                    /\ UNCHANGED outgoing
    /\ UNCHANGED <<bound, connected, life, inQueue, deaf, pending, sends, aborted>>

\* connect to a peer, or with AF_UNSPEC to none.
Connect(t) ==
    /\ Starts(t)
    /\ connected' \in BOOLEAN
    /\ UNCHANGED <<state, bound, life, incoming, outgoing, tasks, pending, call, sends, aborted>>

-----------------------------------------------------------------------------
(* sendto (send and write are sendto with the connected address) *)

\* Mutant of NeedsBind: sendto leaves it to the caller to bind the socket.
NeedsBindMutant == FALSE

\* Pepper requires a bind before a send.
NeedsBind == state = "NEW"

Sendto(t) ==
    /\ Starts(t)
    /\ sends < MaxSends /\ sends' = sends + 1
    /\ \/ NeedsBind /\ StartBind(t, "sendtoBind")
       \/ /\ ~NeedsBind
          /\ Enqueue(t, call, tasks)
          /\ UNCHANGED <<binding, life, incoming, pending, aborted>>

SendtoResume(t) ==
    /\ Resumes(t, "sendto")
    /\ Goes(t, IF closed \/ outQueue = 0 THEN Idle ELSE Waiting("sendto"))
    /\ UNCHANGED <<binding, life, incoming, outgoing, tasks, pending, sends, aborted>>

-----------------------------------------------------------------------------
(* recvfrom, poll *)

\* recvfrom after its wait: EAGAIN, or the first message, which MSG_PEEK leaves
\* in place; then PostReadTaskLocked.
FinishRecvfrom(t) ==
    /\ Goes(t, Idle)
    /\ \/ inQueue = 0 /\ UNCHANGED <<inQueue, readSent, tasks>>
       \/ /\ inQueue > 0
          /\ inQueue' \in {inQueue, inQueue - 1}
          /\ tasks' = tasks \o ReadTask(inQueue')
          /\ readSent' = (readSent \/ WantsRead(readSent, inQueue'))
    /\ UNCHANGED deaf

RecvfromRound(t) ==
    IF inQueue > 0
      THEN FinishRecvfrom(t)
      ELSE Goes(t, Waiting("recvfrom")) /\ UNCHANGED <<incoming, tasks>>

\* A non-blocking recvfrom that finds nothing changes nothing.
Recvfrom(t) ==
    /\ Starts(t)
    /\ RecvfromRound(t)
    /\ UNCHANGED <<binding, life, outgoing, pending, sends, aborted>>

RecvfromResume(t) ==
    /\ \/ /\ Resumes(t, "recvfrom")
          /\ IF closed THEN Goes(t, Idle) /\ UNCHANGED <<incoming, tasks>>
                       ELSE RecvfromRound(t)
       \/ TimesOut(t, "recvfrom") /\ FinishRecvfrom(t)
    /\ UNCHANGED <<binding, life, outgoing, pending, sends, aborted>>

\* poll for POLLIN; POLLOUT is always there.
Poll(t) ==
    /\ Starts(t) /\ ~IsSelectReadReady
    /\ Goes(t, Waiting("poll"))
    /\ UNCHANGED <<binding, life, incoming, outgoing, tasks, pending, sends, aborted>>

PollResume(t) ==
    /\ \/ /\ Resumes(t, "poll")
          /\ Goes(t, IF ~hasFd \/ IsSelectReadReady THEN Idle ELSE Waiting("poll"))
       \/ TimesOut(t, "poll") /\ Goes(t, Idle)
    /\ UNCHANGED <<binding, life, incoming, outgoing, tasks, pending, sends, aborted>>

-----------------------------------------------------------------------------
(* close of the last descriptor *)

\* OnLastFileRef, CloseLocked: wait for the task Close.
CloseFd(t) ==
    /\ Starts(t)
    /\ hasFd' = FALSE
    /\ tasks' = Append(tasks, "Close")
    /\ Goes(t, Waiting("close"))
    /\ UNCHANGED <<binding, closed, incoming, outgoing, pending, sends, aborted>>

CloseResume(t) ==
    /\ Resumes(t, "close")
    /\ Goes(t, IF closed THEN Idle ELSE Waiting("close"))
    /\ UNCHANGED <<binding, life, incoming, outgoing, tasks, pending, sends, aborted>>

-----------------------------------------------------------------------------
(* Tasks and callbacks on the main thread *)

Runs(task) == tasks # << >> /\ Head(tasks) = task

\* Pepper accepts the operation: the socket is bound and does none of its kind.
Accepts(op) == bound /\ op \notin pending

\* An ALOG_ASSERT of the method fails.
Fail(method) ==
    /\ aborted' = method
    /\ UNCHANGED <<binding, life, incoming, outgoing, tasks, pending, sends, call>>

\* ReadLocked of a posted Read.
RunRead ==
    /\ Runs("Read")
    /\ IF ~Accepts("Read")
         THEN Fail("Read")
         ELSE /\ tasks' = Tail(tasks)
              /\ pending' = pending \cup {"Read"}
              /\ UNCHANGED <<binding, life, incoming, outgoing, call, sends, aborted>>

\* The next read, which PostReadTaskLocked starts at once on the main thread.
ReadOn(n) ==
    /\ inQueue' = n
    /\ readSent' = WantsRead(FALSE, n)
    /\ pending' = IF WantsRead(FALSE, n) THEN pending \cup {"Read"} ELSE pending

\* OnRead: a message; one from another than the connected peer, which is
\* dropped; or an error, after which nothing is read or broadcast.
OnRead ==
    /\ Runs("OnRead")
    /\ tasks' = Tail(tasks)
    /\ \/ ReadOn(inQueue + 1) /\ call' = Broadcast /\ UNCHANGED deaf
       \/ connected /\ ReadOn(inQueue) /\ UNCHANGED <<call, deaf>>
       \/ /\ "Read" \in Errors
          /\ readSent' = FALSE /\ deaf' = TRUE
          /\ UNCHANGED <<inQueue, pending, call>>
    /\ UNCHANGED <<binding, life, outgoing, sends, aborted>>

\* WriteLocked of a posted Write: the first message goes to Pepper.
RunWrite ==
    /\ Runs("Write")
    /\ IF outQueue = 0 \/ ~Accepts("Write")
         THEN Fail("Write")
         ELSE /\ tasks' = Tail(tasks)
              /\ pending' = pending \cup {"Write"}
              /\ UNCHANGED <<binding, life, incoming, outgoing, call, sends, aborted>>

\* Mutant of OnWrite: after an error the message is kept and nothing is done.
OnWriteMutant ==
    /\ Runs("OnWrite")
    /\ tasks' = Tail(tasks)
    /\ \/ /\ outQueue' = outQueue - 1
          /\ writeSent' = (outQueue > 1)
          /\ pending' = IF outQueue > 1 THEN pending \cup {"Write"} ELSE pending
          /\ call' = Broadcast
       \/ "Write" \in Errors /\ writeSent' = FALSE /\ UNCHANGED <<outQueue, pending, call>>
    /\ UNCHANGED <<binding, life, incoming, early, sends, aborted>>

\* OnWrite: sent or failed, the message is gone; the next one is started.
OnWrite ==
    /\ Runs("OnWrite")
    /\ tasks' = Tail(tasks)
    /\ outQueue' = outQueue - 1
    /\ writeSent' = (outQueue > 1)
    /\ pending' = IF outQueue > 1 THEN pending \cup {"Write"} ELSE pending
    /\ call' = Broadcast
    /\ UNCHANGED <<binding, life, incoming, early, sends, aborted>>

\* CancelAll drops every task and callback of the socket.
RunClose ==
    /\ Runs("Close")
    /\ closed' = TRUE
    /\ tasks' = << >> /\ pending' = {}
    /\ call' = Broadcast
    /\ UNCHANGED <<binding, hasFd, incoming, outgoing, sends, aborted>>

\* Pepper completes an operation: its callback is posted.
Complete(op) ==
    /\ op \in pending
    /\ pending' = pending \ {op}
    /\ tasks' = Append(tasks, Callback[op])
    /\ UNCHANGED <<binding, life, incoming, outgoing, call, sends, aborted>>

-----------------------------------------------------------------------------
Resume(t) ==
    BindReturn(t) \/ SendtoResume(t) \/ RecvfromResume(t) \/ PollResume(t) \/ CloseResume(t)

ThreadStep(t) ==
    \/ Bind(t) \/ PepperBinds(t) \/ Connect(t) \/ Sendto(t) \/ Recvfrom(t)
    \/ Poll(t) \/ CloseFd(t) \/ Resume(t)

MainThread == RunRead \/ OnRead \/ RunWrite \/ OnWrite \/ RunClose

Running == aborted = "none"

Next ==
    /\ Running
    /\ \/ MainThread
       \/ \E op \in Operations : Complete(op)
       \/ \E t \in Thread : ThreadStep(t)

Spec == Init /\ [][Next]_vars

\* The main thread runs what is posted, threads get the mutex, and Pepper
\* completes binds and sends; nothing has to arrive.
FairSpec ==
    /\ Spec
    /\ WF_vars(Running /\ MainThread)
    /\ WF_vars(Running /\ Complete("Write"))
    /\ \A t \in Thread : WF_vars(Running /\ PepperBinds(t)) /\ WF_vars(Running /\ Resume(t))

-----------------------------------------------------------------------------
(* Properties *)

\* The condition on which the loop of a blocked call ends.
CanProceed(c) ==
    \/ closed
    \/ c.at = "sendto" /\ outQueue = 0
    \/ c.at \in {"recvfrom", "poll"} /\ IsSelectReadReady

\* No wake-up is lost: a thread that sleeps in sendto, recvfrom, poll or close
\* has nothing to do, although failed binds and reads are not broadcast and a
\* woken receiver may find that another took the message.
NoLostWakeup == \A t \in Thread : call[t].asleep => ~CanProceed(call[t])

Posted(task) == Cardinality({i \in 1 .. Len(tasks) : tasks[i] = task})
UnderWay(op) ==
    Posted(op) + Posted(Callback[op]) + (IF op \in pending THEN 1 ELSE 0)

\* read_sent_ stands for exactly one read (read_buf_ has one writer), and a bound
\* socket with room in in_queue_ always has one, through every order of recvfrom,
\* MSG_PEEK, dropped messages and callbacks, until a read fails.
ReaderArmed ==
    ~closed =>
      /\ UnderWay("Read") = IF readSent THEN 1 ELSE 0
      /\ state = "BOUND" /\ inQueue < QueueSize /\ ~deaf => readSent

\* Exactly one write is posted or under way while messages are queued, so that
\* none is left behind and none is sent twice.
WriterArmed ==
    ~closed =>
      /\ UnderWay("Write") = IF writeSent THEN 1 ELSE 0
      /\ writeSent <=> outQueue > 0

\* The flags tell the truth of what is posted and under way, and nothing that
\* should go on has stopped.
Armed == TypeOK /\ ReaderArmed /\ WriterArmed

\* No ALOG_ASSERT fails: the queue is not empty when Write runs and Pepper takes
\* every operation, being bound and free, unless a message was queued while the
\* bind of another thread was under way.
NoAssertFails == aborted # "none" => early

\* A blocking sendto, which waits until out_queue_ is empty, returns once the
\* others stop sending (MaxSends), and close returns, whatever fails.
CallsReturn ==
    \A t \in Thread :
      /\ call[t].at \in {"sendto", "sendtoBind"} ~> (call[t].at = "idle" \/ ~Running)
      /\ call[t].at = "close" ~> (call[t].at = "idle" \/ ~Running)
=============================================================================

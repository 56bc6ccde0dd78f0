-------------------------------- MODULE EPoll --------------------------------
(***************************************************************************)
(* Epoll streams and the listeners of files: EPollStream                   *)
(* (src/posix_translation/epoll_stream.cc) and the listener half of        *)
(* FileStream (src/posix_translation/file_stream.cc).                      *)
(*                                                                         *)
(* An epoll stream keeps the files it watches in epoll_map_, a file keeps  *)
(* the epoll streams to notify in listeners_: two maps in different        *)
(* objects that every operation must change together.  Only sockets can be *)
(* listened to.  Everything runs under the VFS mutex and is one step,      *)
(* except epoll_wait, which sleeps on the condition of its epoll stream.   *)
(***************************************************************************)
EXTENDS Naturals, FiniteSets

CONSTANTS
    Epoll,       \* epoll streams
    Socket,      \* sockets
    Plain,       \* streams of other kinds
    Thread,      \* threads that call epoll_wait
    Event,       \* the events one can ask for
    Null,        \* not an interest set or a stream
    MaxRefs,     \* bound on the descriptors of a stream
    Timeouts     \* TRUE: an epoll_wait may have a timeout

Stream == Epoll \cup Socket \cup Plain

\* POLLERR and POLLHUP are reported whether asked for or not.
Always == {"hup"}

ASSUME ConstantsAssumption ==
    /\ MaxRefs \in Nat \ {0} /\ Timeouts \in BOOLEAN
    /\ Event \cap Always = {}
    /\ Epoll \cap Socket = {} /\ Epoll \cap Plain = {} /\ Socket \cap Plain = {}
    /\ Null \notin Stream /\ \A events \in SUBSET Event : Null # events

VARIABLES
    refs,        \* file_ref_count_ of a stream: its descriptors
    listeners,   \* listeners_ of a socket
    epollMap,    \* epoll_map_ of an epoll stream: the events asked for, or Null
    ready,       \* GetPollEvents() of a stream
    wait,        \* the epoll_wait a thread is in
    aborted      \* the ALOG_ASSERT that failed, "none" before that

vars == <<refs, listeners, epollMap, ready, wait, aborted>>

Idle == [epoll |-> Null, asleep |-> FALSE]

TypeOK ==
    /\ refs \in [Stream -> 0 .. MaxRefs]
    /\ listeners \in [Socket -> SUBSET Epoll]
    /\ epollMap \in [Epoll -> [Stream -> (SUBSET Event) \cup {Null}]]
    /\ ready \in [Stream -> SUBSET (Event \cup Always)]
    /\ wait \in [Thread -> [epoll : Epoll \cup {Null}, asleep : BOOLEAN]]
    /\ aborted \in {"none", "StartListeningTo", "HandleNotificationFrom",
                    "CheckNotClosed"}

\* Open streams; those that cannot be listened to are always ready.
Init ==
    /\ refs = [s \in Stream |-> 1]
    /\ listeners = [s \in Socket |-> {}]
    /\ epollMap = [e \in Epoll |-> [s \in Stream |-> Null]]
    /\ ready = [s \in Stream |-> IF s \in Socket THEN {} ELSE Event]
    /\ wait = [t \in Thread |-> Idle]
    /\ aborted = "none"

IsClosed(s) == refs[s] = 0
Watches(e, s) == epollMap[e][s] # Null

\* The threads after cond_.Broadcast() of these epoll streams.
Broadcast(epolls) ==
    [t \in Thread |->
       IF wait[t].epoll \in epolls THEN [wait[t] EXCEPT !.asleep = FALSE] ELSE wait[t]]

-----------------------------------------------------------------------------
(* epoll_ctl *)

\* StartListeningTo, for a file that allows it.
StartListeningTo(e, s) ==
    IF e \in listeners[s]
      THEN aborted' = "StartListeningTo" /\ UNCHANGED <<listeners, wait>>
      ELSE /\ listeners' = [listeners EXCEPT ![s] = @ \cup {e}]
           /\ wait' = Broadcast({e})
           /\ UNCHANGED aborted

\* EPOLL_CTL_ADD: the entry is made first; for a file that cannot be listened to
\* the call then fails with EPERM, and the entry stays.
CtlAdd(e, s) ==
    /\ ~IsClosed(e) /\ ~IsClosed(s)
    /\ ~Watches(e, s)
    /\ \E events \in SUBSET Event : epollMap' = [epollMap EXCEPT ![e][s] = events]
    /\ IF s \in Socket THEN StartListeningTo(e, s)
                       ELSE UNCHANGED <<listeners, wait, aborted>>
    /\ UNCHANGED <<refs, ready>>

\* Mutant of CtlMod: nobody is told of the new events.
CtlModMutant(e, s) ==
    /\ ~IsClosed(e) /\ ~IsClosed(s)
    /\ Watches(e, s)
    /\ \E events \in SUBSET Event : epollMap' = [epollMap EXCEPT ![e][s] = events]
    /\ UNCHANGED <<refs, listeners, ready, wait, aborted>>

\* EPOLL_CTL_MOD
CtlMod(e, s) ==
    /\ ~IsClosed(e) /\ ~IsClosed(s)
    /\ Watches(e, s)
    /\ \E events \in SUBSET Event : epollMap' = [epollMap EXCEPT ![e][s] = events]
    /\ wait' = Broadcast({e})
    /\ UNCHANGED <<refs, listeners, ready, aborted>>

\* Mutant of StopListeningTo: the file keeps its listener.
StopListeningToMutant(e, files) == listeners

\* The listeners of all sockets when e has stopped listening to some files.
StopListeningTo(e, files) ==
    [s \in Socket |-> IF s \in files THEN listeners[s] \ {e} ELSE listeners[s]]

\* EPOLL_CTL_DEL
CtlDel(e, s) ==
    /\ ~IsClosed(e) /\ ~IsClosed(s)
    /\ Watches(e, s)
    /\ epollMap' = [epollMap EXCEPT ![e][s] = Null]
    /\ listeners' = StopListeningTo(e, {s})
    /\ UNCHANGED <<refs, ready, wait, aborted>>

-----------------------------------------------------------------------------
(* epoll_wait *)

\* Some watched file has an event that was asked for.
Found(e) ==
    \E s \in Stream : Watches(e, s) /\ ready[s] \cap (epollMap[e][s] \cup Always) # {}

\* epoll_wait with nothing to report sleeps.
WaitBegin(t, e) ==
    /\ wait[t] = Idle /\ ~IsClosed(e) /\ ~Found(e)
    /\ wait' = [wait EXCEPT ![t] = [epoll |-> e, asleep |-> TRUE]]
    /\ UNCHANGED <<refs, listeners, epollMap, ready, aborted>>

\* Woken up, the loop looks at every file again; after a timeout it returns.
WaitResume(t) ==
    LET e == wait[t].epoll
    IN  /\ e # Null
        /\ \/ /\ ~wait[t].asleep /\ ~Found(e)
              /\ wait' = [wait EXCEPT ![t] = [epoll |-> e, asleep |-> TRUE]]
           \/ ~wait[t].asleep /\ Found(e) /\ wait' = [wait EXCEPT ![t] = Idle]
           \/ Timeouts /\ wait' = [wait EXCEPT ![t] = Idle]
        /\ UNCHANGED <<refs, listeners, epollMap, ready, aborted>>

-----------------------------------------------------------------------------
(* Files *)

\* Mutant of Notified: Signal() instead of Broadcast().
NotifiedMutant(s) ==
    LET sleepers == {t \in Thread : wait[t].asleep /\ wait[t].epoll \in listeners[s]}
    IN  IF sleepers = {} THEN wait
        ELSE [wait EXCEPT ![CHOOSE t \in sleepers : TRUE].asleep = FALSE]

\* The threads after HandleNotificationFrom has run in every listener of s.
Notified(s) == Broadcast(listeners[s])

\* The assertions on the way: every listener is open and watches s.
NotifyCheck(s) ==
    aborted' = IF \E e \in listeners[s] : IsClosed(e) THEN "CheckNotClosed"
               ELSE IF \E e \in listeners[s] : ~Watches(e, s) THEN "HandleNotificationFrom"
               ELSE "none"

\* A callback or a peer changes what can be done with a socket and calls
\* NotifyListeners, which returns at once for a closed socket.
SocketChanges(s) ==
    /\ \E events \in SUBSET (Event \cup Always) :
         /\ events # ready[s]
         /\ ready' = [ready EXCEPT ![s] = events]
    /\ IF IsClosed(s) THEN UNCHANGED <<wait, aborted>>
                      ELSE NotifyCheck(s) /\ wait' = Notified(s)
    /\ UNCHANGED <<refs, listeners, epollMap>>

\* A thread takes what was there: an event goes, and nobody is told.
SocketConsumes(s) ==
    /\ ~IsClosed(s)
    /\ \E event \in ready[s] \cap Event : ready' = [ready EXCEPT ![s] = @ \ {event}]
    /\ UNCHANGED <<refs, listeners, epollMap, wait, aborted>>

\* AddFileRef, for dup
AddFileRef(s) ==
    /\ refs[s] \in 1 .. MaxRefs - 1
    /\ refs' = [refs EXCEPT ![s] = @ + 1]
    /\ UNCHANGED <<listeners, epollMap, ready, wait, aborted>>

\* Mutant of ClosingNotice: HandleNotificationFrom keeps the entry.
ClosingNoticeMutant(s) == epollMap

\* The maps after HandleNotificationFrom(s, is_closing) of every listener.
ClosingNotice(s) ==
    [e \in Epoll |->
       IF e \in listeners[s] THEN [epollMap[e] EXCEPT ![s] = Null] ELSE epollMap[e]]

\* The last descriptor of a socket is closed: its listeners forget it.
ReleaseSocket(s) ==
    /\ refs[s] = 1
    /\ aborted' = IF \E e \in listeners[s] : ~Watches(e, s)
                    THEN "HandleNotificationFrom" ELSE "none"
    /\ epollMap' = ClosingNotice(s)
    /\ wait' = Notified(s)
    /\ listeners' = [listeners EXCEPT ![s] = {}]

\* The last descriptor of an epoll stream is closed: OnLastFileRef.  The threads
\* that sleep in its epoll_wait are not woken.
ReleaseEpoll(e) ==
    /\ refs[e] = 1
    /\ listeners' = StopListeningTo(e, {s \in Stream : Watches(e, s)})
    /\ epollMap' = [epollMap EXCEPT ![e] = [s \in Stream |-> Null]]
    /\ UNCHANGED <<wait, aborted>>

\* Mutant of ReleaseFileRef: a descriptor is released once too often.
ReleaseFileRefMutant(s) ==
    /\ refs' = [refs EXCEPT ![s] = @ - 1]
    /\ UNCHANGED <<listeners, epollMap, ready, wait, aborted>>

\* ReleaseFileRef
ReleaseFileRef(s) ==
    /\ refs[s] > 0
    /\ refs' = [refs EXCEPT ![s] = @ - 1]
    /\ \/ s \in Socket /\ ReleaseSocket(s)
       \/ s \in Epoll /\ ReleaseEpoll(s)
       \/ (s \in Plain \/ refs[s] > 1) /\ UNCHANGED <<listeners, epollMap, wait, aborted>>
    /\ UNCHANGED ready

-----------------------------------------------------------------------------
Running == aborted = "none"

Next ==
    /\ Running
    /\ \/ \E e \in Epoll, s \in Stream : CtlAdd(e, s) \/ CtlMod(e, s) \/ CtlDel(e, s)
       \/ \E t \in Thread, e \in Epoll : WaitBegin(t, e)
       \/ \E t \in Thread : WaitResume(t)
       \/ \E s \in Socket : SocketChanges(s) \/ SocketConsumes(s)
       \/ \E s \in Stream : AddFileRef(s) \/ ReleaseFileRef(s)

Spec == Init /\ [][Next]_vars

-----------------------------------------------------------------------------
(* Properties *)

\* epoll_map_ and listeners_ say the same of every socket, whatever the order in
\* which sockets and epoll streams are added, removed and closed.
MapsAgree ==
    Running => \A e \in Epoll, s \in Socket : e \in listeners[s] <=> Watches(e, s)

\* A closed socket is watched by nobody and a closed epoll stream watches nobody,
\* so the reference cycle between them is broken and both can be destroyed.
CycleBroken ==
    \A e \in Epoll :
      /\ \A s \in Socket : IsClosed(s) => ~Watches(e, s)
      /\ IsClosed(e) => \A s \in Stream : ~Watches(e, s)

\* The two tables stay consistent through adds, removals and closes of both sides
\* in any order.
Consistent == TypeOK /\ MapsAgree /\ CycleBroken

\* A socket of an epoll stream has an event for the threads that wait there.
SocketReady(e) ==
    \E s \in Socket : Watches(e, s) /\ ready[s] \cap (epollMap[e][s] \cup Always) # {}

\* No wake-up is lost: a thread asleep in epoll_wait has no event of a watched
\* socket to report, whether the event, the registration or the change of the
\* registration came last, and however many threads wait on the same epoll.
NoLostWakeup ==
    Running => \A t \in Thread : wait[t].asleep => ~SocketReady(wait[t].epoll)

\* None of the assertions on listeners fails: no listener is added twice, no
\* closed one notified, no notification comes from a file that is not watched.
NoAssertFails == Running
=============================================================================

----------------------------- MODULE EPollProofs -----------------------------
(***************************************************************************)
(* The tables of epoll agree, no event is slept through and no assertion   *)
(* fails, for any number of epoll streams, files, threads and descriptors. *)
(***************************************************************************)
EXTENDS EPoll, TLAPS

\* A sleeping thread is in epoll_wait of an epoll stream.
Placed == \A t \in Thread : wait[t].asleep => wait[t].epoll \in Epoll

\* The inductive invariant: the assertions hold because the tables agree and
\* closed streams have left them, and a sleeping thread has nothing to report
\* because those who are told of an event are exactly those who watch.
Inv == Consistent /\ Placed /\ NoLostWakeup /\ NoAssertFails

\* The tables, epoll stream by epoll stream and file by file.
Agree ==
    /\ \A e \in Epoll, s \in Socket : e \in listeners[s] <=> epollMap[e][s] # Null
    /\ \A e \in Epoll, s \in Socket : refs[s] = 0 => epollMap[e][s] = Null
    /\ \A e \in Epoll, s \in Stream : refs[e] = 0 => epollMap[e][s] = Null

\* A socket gives an epoll stream something to report.
Reports(e, s) ==
    epollMap[e][s] # Null /\ ready[s] \cap (epollMap[e][s] \cup Always) # {}

\* No thread sleeps on a socket that has something to report.
Quiescent ==
    \A t \in Thread, s \in Socket : wait[t].asleep => ~Reports(wait[t].epoll, s)

\* The invariant in the parts that the actions are looked at for, before and after
\* a step.
Parts == TypeOK /\ Agree /\ Placed /\ Quiescent /\ aborted = "none"

LEMMA InvParts == (Inv <=> Parts) /\ (Inv' <=> Parts')
BY DEF Inv, Parts, Consistent, MapsAgree, CycleBroken, NoLostWakeup, NoAssertFails,
   Running, SocketReady, Watches, IsClosed, Agree, Quiescent, Reports

\* Wake-ups keep the type of wait, wake the threads of these epoll streams and
\* change nothing else.
LEMMA BroadcastFacts ==
  ASSUME TypeOK, NEW epolls \in SUBSET Epoll
  PROVE  /\ Broadcast(epolls) \in [Thread -> [epoll : Epoll \cup {Null}, asleep : BOOLEAN]]
         /\ \A t \in Thread :
              /\ Broadcast(epolls)[t].epoll = wait[t].epoll
              /\ Broadcast(epolls)[t].asleep => wait[t].asleep /\ wait[t].epoll \notin epolls
BY DEF TypeOK, Broadcast

\* A step that wakes some threads and changes entries of the tables or events of
\* sockets leaves nobody asleep on something to report, provided that whoever gets
\* something new to report is woken.
LEMMA StaysQuiescent ==
  ASSUME TypeOK, Placed, Quiescent, NEW epolls \in SUBSET Epoll,
         wait' = wait \/ wait' = Broadcast(epolls),
         \A e \in Epoll, s \in Socket :
           (e \in epolls /\ wait' = Broadcast(epolls)) \/ (Reports(e, s)' => Reports(e, s))
  PROVE  Placed' /\ Quiescent'
BY BroadcastFacts DEF Placed, Quiescent

\* Initially nothing is watched.
LEMMA InitInv == Init => Inv
<1> SUFFICES ASSUME Init PROVE Inv
  OBVIOUS
<1>1. TypeOK
  BY ConstantsAssumption DEF Init, TypeOK, Idle, Stream
<1>2. Agree /\ Placed /\ Quiescent /\ aborted = "none"
  BY ConstantsAssumption DEF Init, Agree, Placed, Quiescent, Reports, Idle, Stream
<1> QED BY <1>1, <1>2, InvParts DEF Parts

\* EPOLL_CTL_ADD makes both entries, or only its own if nobody will be told.
LEMMA CtlAddInv ==
  ASSUME Inv, NEW e \in Epoll, NEW s \in Stream, CtlAdd(e, s)
  PROVE  Inv'
<1>0. TypeOK /\ Agree /\ Placed /\ Quiescent /\ aborted = "none"
  BY InvParts DEF Parts
<1>1. PICK events \in SUBSET Event : epollMap' = [epollMap EXCEPT ![e][s] = events]
  BY DEF CtlAdd
<1>2. /\ refs[e] # 0 /\ refs[s] # 0 /\ epollMap[e][s] = Null
      /\ UNCHANGED <<refs, ready>>
  BY DEF CtlAdd, IsClosed, Watches
<1>3. \A f \in Epoll, r \in Stream :
        epollMap'[f][r] = IF f = e /\ r = s THEN events ELSE epollMap[f][r]
  BY <1>0, <1>1 DEF TypeOK
<1>4. CASE s \in Socket
  <2>1. /\ listeners' = [listeners EXCEPT ![s] = @ \cup {e}]
        /\ wait' = Broadcast({e}) /\ aborted' = "none"
    BY <1>0, <1>2, <1>4 DEF CtlAdd, StartListeningTo, Agree
  <2>2. TypeOK'
    <3>1. wait' \in [Thread -> [epoll : Epoll \cup {Null}, asleep : BOOLEAN]]
      BY <1>0, <2>1, BroadcastFacts
    <3> QED BY <1>0, <1>1, <1>2, <2>1, <3>1 DEF TypeOK
  <2>3. Agree'
    BY <1>0, <1>2, <1>3, <2>1, ConstantsAssumption DEF Agree, TypeOK, Stream
  <2>4. Placed' /\ Quiescent'
    <3>1. \A f \in Epoll, r \in Socket :
            f \in {e} \/ (Reports(f, r)' => Reports(f, r))
      BY <1>2, <1>3 DEF Reports, Stream
    <3> QED BY <1>0, <2>1, <3>1, StaysQuiescent
  <2> QED BY <2>1, <2>2, <2>3, <2>4, InvParts DEF Parts
<1>5. CASE s \notin Socket
  <2>1. UNCHANGED <<listeners, wait, aborted>>
    BY <1>5 DEF CtlAdd
  <2>2. TypeOK'
    BY <1>0, <1>1, <1>2, <2>1 DEF TypeOK
  <2>3. Agree'
    BY <1>0, <1>2, <1>3, <1>5, <2>1 DEF Agree, Stream
  <2>4. Placed' /\ Quiescent'
    <3>1. \A f \in Epoll, r \in Socket : Reports(f, r)' => Reports(f, r)
      BY <1>2, <1>3, <1>5 DEF Reports, Stream
    <3> QED BY <1>0, <2>1, <3>1, StaysQuiescent
  <2> QED BY <1>0, <2>1, <2>2, <2>3, <2>4, InvParts DEF Parts
<1> QED BY <1>4, <1>5

\* EPOLL_CTL_MOD changes the events of an entry and wakes whoever waits.
LEMMA CtlModInv ==
  ASSUME Inv, NEW e \in Epoll, NEW s \in Stream, CtlMod(e, s)
  PROVE  Inv'
<1>0. TypeOK /\ Agree /\ Placed /\ Quiescent /\ aborted = "none"
  BY InvParts DEF Parts
<1>1. PICK events \in SUBSET Event : epollMap' = [epollMap EXCEPT ![e][s] = events]
  BY DEF CtlMod
<1>2. /\ epollMap[e][s] # Null /\ wait' = Broadcast({e})
      /\ UNCHANGED <<refs, listeners, ready, aborted>>
  BY DEF CtlMod, Watches
<1>3. \A f \in Epoll, r \in Stream :
        epollMap'[f][r] = IF f = e /\ r = s THEN events ELSE epollMap[f][r]
  BY <1>0, <1>1 DEF TypeOK
<1>4. TypeOK'
  <2>1. wait' \in [Thread -> [epoll : Epoll \cup {Null}, asleep : BOOLEAN]]
    BY <1>0, <1>2, BroadcastFacts
  <2> QED BY <1>0, <1>1, <1>2, <2>1 DEF TypeOK
<1>5. Agree'
  BY <1>0, <1>2, <1>3, ConstantsAssumption DEF Agree, Stream
<1>6. Placed' /\ Quiescent'
  <2>1. \A f \in Epoll, r \in Socket : f \in {e} \/ (Reports(f, r)' => Reports(f, r))
    BY <1>2, <1>3 DEF Reports, Stream
  <2> QED BY <1>0, <1>2, <2>1, StaysQuiescent
<1> QED BY <1>0, <1>2, <1>4, <1>5, <1>6, InvParts DEF Parts

\* EPOLL_CTL_DEL removes both entries.
LEMMA CtlDelInv ==
  ASSUME Inv, NEW e \in Epoll, NEW s \in Stream, CtlDel(e, s)
  PROVE  Inv'
<1>0. TypeOK /\ Agree /\ Placed /\ Quiescent /\ aborted = "none"
  BY InvParts DEF Parts
<1>1. /\ epollMap' = [epollMap EXCEPT ![e][s] = Null]
      /\ listeners' = [r \in Socket |-> IF r = s THEN listeners[r] \ {e} ELSE listeners[r]]
      /\ UNCHANGED <<refs, ready, wait, aborted>>
  BY DEF CtlDel, StopListeningTo
<1>2. \A f \in Epoll, r \in Stream :
        epollMap'[f][r] = IF f = e /\ r = s THEN Null ELSE epollMap[f][r]
  BY <1>0, <1>1 DEF TypeOK
<1>3. TypeOK'
  BY <1>0, <1>1 DEF TypeOK
<1>4. Agree'
  BY <1>0, <1>1, <1>2 DEF Agree, Stream
<1>5. Placed' /\ Quiescent'
  <2>1. \A f \in Epoll, r \in Socket : Reports(f, r)' => Reports(f, r)
    BY <1>1, <1>2 DEF Reports, Stream
  <2> QED BY <1>0, <1>1, <2>1, StaysQuiescent
<1> QED BY <1>0, <1>1, <1>3, <1>4, <1>5, InvParts DEF Parts

\* A thread that begins or continues to wait has found nothing to report.
LEMMA WaitInv ==
  ASSUME Inv, NEW t \in Thread,
         WaitResume(t) \/ \E e \in Epoll : WaitBegin(t, e)
  PROVE  Inv'
<1>0. TypeOK /\ Agree /\ Placed /\ Quiescent /\ aborted = "none"
  BY InvParts DEF Parts
<1>1. UNCHANGED <<refs, listeners, epollMap, ready, aborted>>
  BY DEF WaitResume, WaitBegin
<1>2. PICK w \in [epoll : Epoll \cup {Null}, asleep : BOOLEAN] :
        /\ wait' = [wait EXCEPT ![t] = w]
        /\ w.asleep => w.epoll \in Epoll /\ ~Found(w.epoll)
  <2>1. CASE WaitResume(t)
    <3>1. wait[t] \in [epoll : Epoll \cup {Null}, asleep : BOOLEAN] /\ wait[t].epoll # Null
      BY <1>0, <2>1 DEF TypeOK, WaitResume
    <3>2. CASE /\ ~Found(wait[t].epoll)
               /\ wait' = [wait EXCEPT ![t] = [epoll |-> wait[t].epoll, asleep |-> TRUE]]
      <4> DEFINE w == [epoll |-> wait[t].epoll, asleep |-> TRUE]
      <4>1. w \in [epoll : Epoll \cup {Null}, asleep : BOOLEAN]
        BY <3>1
      <4>2. w.epoll = wait[t].epoll /\ w.epoll \in Epoll
        BY <3>1
      <4>3. wait' = [wait EXCEPT ![t] = w]
        BY <3>2
      <4> HIDE DEF w
      <4> QED BY <3>2, <4>1, <4>2, <4>3
    <3>3. CASE wait' = [wait EXCEPT ![t] = Idle]
      <4>1. Idle \in [epoll : Epoll \cup {Null}, asleep : BOOLEAN] /\ ~Idle.asleep
        BY DEF Idle
      <4> QED BY <3>3, <4>1
    <3> QED BY <2>1, <3>2, <3>3 DEF WaitResume
  <2>2. CASE \E e \in Epoll : WaitBegin(t, e)
    <3> PICK e \in Epoll : WaitBegin(t, e)
      BY <2>2
    <3> DEFINE w == [epoll |-> e, asleep |-> TRUE]
    <3>1. w \in [epoll : Epoll \cup {Null}, asleep : BOOLEAN] /\ w.epoll = e
      OBVIOUS
    <3>2. wait' = [wait EXCEPT ![t] = w] /\ ~Found(e)
      BY DEF WaitBegin
    <3> HIDE DEF w
    <3> QED BY <3>1, <3>2
  <2> QED BY <2>1, <2>2
<1>3. wait' \in [Thread -> [epoll : Epoll \cup {Null}, asleep : BOOLEAN]]
  BY <1>0, <1>2 DEF TypeOK
<1>4. TypeOK' /\ Agree'
  BY <1>0, <1>1, <1>3 DEF TypeOK, Agree
<1>5. Placed' /\ Quiescent'
  BY <1>0, <1>1, <1>2 DEF TypeOK, Placed, Quiescent, Reports, Found, Watches, Stream
<1> QED BY <1>0, <1>1, <1>4, <1>5, InvParts DEF Parts

\* What happens to an open socket is told to those who watch it, and they are open.
LEMMA SocketChangesInv ==
  ASSUME Inv, NEW s \in Socket, SocketChanges(s)
  PROVE  Inv'
<1>0. TypeOK /\ Agree /\ Placed /\ Quiescent /\ aborted = "none"
  BY InvParts DEF Parts
<1>1. PICK events \in SUBSET (Event \cup Always) : ready' = [ready EXCEPT ![s] = events]
  BY DEF SocketChanges
<1>2. UNCHANGED <<refs, listeners, epollMap>> /\ s \in Stream
  BY DEF SocketChanges, Stream
<1>3. listeners[s] \in SUBSET Epoll
  BY <1>0 DEF TypeOK
<1>4. /\ aborted' = "none"
      /\ \/ refs[s] = 0 /\ wait' = wait
         \/ refs[s] # 0 /\ wait' = Broadcast(listeners[s])
  BY <1>0, <1>2, <1>3
     DEF SocketChanges, NotifyCheck, Notified, Agree, IsClosed, Watches
<1>5. TypeOK' /\ Agree'
  <2>1. wait' \in [Thread -> [epoll : Epoll \cup {Null}, asleep : BOOLEAN]]
    <3>1. CASE wait' = wait
      BY <1>0, <3>1 DEF TypeOK
    <3>2. CASE wait' = Broadcast(listeners[s])
      BY <1>0, <1>3, <3>2, BroadcastFacts
    <3> QED BY <1>4, <3>1, <3>2
  <2> QED BY <1>0, <1>1, <1>2, <1>4, <2>1 DEF TypeOK, Agree
<1>6. Placed' /\ Quiescent'
  <2>1. \A f \in Epoll, r \in Socket : f \in listeners[s] \/ (Reports(f, r)' => Reports(f, r))
    BY <1>0, <1>1, <1>2 DEF TypeOK, Reports, Agree, Stream
  <2>2. CASE refs[s] = 0 /\ wait' = wait
    <3>1. listeners[s] = {}
      BY <1>0, <1>3, <2>2 DEF Agree
    <3> QED BY <1>0, <2>1, <2>2, <3>1, StaysQuiescent
  <2>3. CASE wait' = Broadcast(listeners[s])
    BY <1>0, <1>3, <2>1, <2>3, StaysQuiescent
  <2> QED BY <1>4, <2>2, <2>3
<1> QED BY <1>4, <1>5, <1>6, InvParts DEF Parts

\* An event that is consumed gives nobody something to report.
LEMMA SocketConsumesInv ==
  ASSUME Inv, NEW s \in Socket, SocketConsumes(s)
  PROVE  Inv'
<1>0. TypeOK /\ Agree /\ Placed /\ Quiescent /\ aborted = "none"
  BY InvParts DEF Parts
<1>1. PICK event : ready' = [ready EXCEPT ![s] = @ \ {event}]
  BY DEF SocketConsumes
<1>2. UNCHANGED <<refs, listeners, epollMap, wait, aborted>> /\ s \in Stream
  BY DEF SocketConsumes, Stream
<1>3. TypeOK' /\ Agree'
  BY <1>0, <1>1, <1>2 DEF TypeOK, Agree
<1>4. Placed' /\ Quiescent'
  <2>1. \A f \in Epoll, r \in Socket : Reports(f, r)' => Reports(f, r)
    BY <1>0, <1>1, <1>2 DEF TypeOK, Reports, Stream
  <2> QED BY <1>0, <1>2, <2>1, StaysQuiescent
<1> QED BY <1>0, <1>2, <1>3, <1>4, InvParts DEF Parts

\* One more descriptor of an open stream changes no table.
LEMMA AddFileRefInv ==
  ASSUME Inv, NEW s \in Stream, AddFileRef(s)
  PROVE  Inv'
<1>0. TypeOK /\ Agree /\ Placed /\ Quiescent /\ aborted = "none"
  BY InvParts DEF Parts
<1>1. /\ refs[s] \in 1 .. MaxRefs - 1 /\ refs' = [refs EXCEPT ![s] = @ + 1]
      /\ UNCHANGED <<listeners, epollMap, ready, wait, aborted>>
  BY DEF AddFileRef
<1>2. TypeOK' /\ Agree'
  BY <1>0, <1>1, ConstantsAssumption DEF TypeOK, Agree, Stream
<1>3. Placed' /\ Quiescent'
  BY <1>0, <1>1 DEF Placed, Quiescent, Reports
<1> QED BY <1>0, <1>1, <1>2, <1>3, InvParts DEF Parts

\* The number of descriptors that are left.
LEMMA RefDropped ==
  ASSUME TypeOK, NEW s \in Stream, refs[s] > 0, refs' = [refs EXCEPT ![s] = @ - 1]
  PROVE  refs' \in [Stream -> 0 .. MaxRefs]
<1>1. refs[s] \in 0 .. MaxRefs /\ MaxRefs \in Nat
  BY ConstantsAssumption DEF TypeOK
<1>2. refs[s] - 1 \in 0 .. MaxRefs
  BY <1>1
<1> QED BY <1>2 DEF TypeOK

\* A socket that closes takes its entries out of the maps of its listeners, who all
\* have one.
LEMMA ReleaseSocketInv ==
  ASSUME Inv, NEW s \in Socket, refs' = [refs EXCEPT ![s] = @ - 1],
         ReleaseSocket(s), UNCHANGED ready
  PROVE  Inv'
<1>0. TypeOK /\ Agree /\ Placed /\ Quiescent /\ aborted = "none"
  BY InvParts DEF Parts
<1>1. listeners[s] \in SUBSET Epoll /\ refs[s] = 1 /\ s \in Stream
  BY <1>0 DEF TypeOK, ReleaseSocket, Stream
<1>2. /\ aborted' = "none" /\ wait' = Broadcast(listeners[s])
      /\ listeners' = [listeners EXCEPT ![s] = {}]
  BY <1>0, <1>1 DEF ReleaseSocket, Notified, Agree, Watches
<1>3. epollMap' \in [Epoll -> [Stream -> (SUBSET Event) \cup {Null}]]
  BY <1>0, <1>1 DEF ReleaseSocket, ClosingNotice, TypeOK
<1>4. \A f \in Epoll, r \in Stream :
        epollMap'[f][r] = IF r = s THEN Null ELSE epollMap[f][r]
  BY <1>0, <1>1 DEF ReleaseSocket, ClosingNotice, TypeOK, Agree
<1>5. TypeOK'
  <2>1. wait' \in [Thread -> [epoll : Epoll \cup {Null}, asleep : BOOLEAN]]
    BY <1>0, <1>1, <1>2, BroadcastFacts
  <2>2. refs[s] > 0
    BY <1>1
  <2>3. refs' \in [Stream -> 0 .. MaxRefs]
    BY <1>0, <1>1, <2>2, RefDropped
  <2> QED BY <1>0, <1>2, <1>3, <2>1, <2>3 DEF TypeOK
<1>6. Agree'
  BY <1>0, <1>1, <1>2, <1>4, ConstantsAssumption DEF TypeOK, Agree, Stream
<1>7. Placed' /\ Quiescent'
  <2>1. \A f \in Epoll, r \in Socket : Reports(f, r)' => Reports(f, r)
    BY <1>4 DEF Reports, Stream
  <2> QED BY <1>0, <1>1, <1>2, <2>1, StaysQuiescent
<1> QED BY <1>2, <1>5, <1>6, <1>7, InvParts DEF Parts

\* An epoll stream that closes leaves the listeners of all its files.
LEMMA ReleaseEpollInv ==
  ASSUME Inv, NEW e \in Epoll, refs' = [refs EXCEPT ![e] = @ - 1],
         ReleaseEpoll(e), UNCHANGED ready
  PROVE  Inv'
<1>0. TypeOK /\ Agree /\ Placed /\ Quiescent /\ aborted = "none"
  BY InvParts DEF Parts
<1>1. /\ refs[e] = 1 /\ e \in Stream /\ UNCHANGED <<wait, aborted>>
      /\ epollMap' = [epollMap EXCEPT ![e] = [s \in Stream |-> Null]]
  BY DEF ReleaseEpoll, Stream
<1>2. listeners' = [s \in Socket |-> listeners[s] \ {e}]
  <2>1. \A s \in Socket : epollMap[e][s] = Null => e \notin listeners[s]
    BY <1>0 DEF Agree
  <2>2. \A s \in Socket :
          (IF s \in {r \in Stream : Watches(e, r)} THEN listeners[s] \ {e} ELSE listeners[s])
            = listeners[s] \ {e}
    BY <2>1 DEF Watches, Stream
  <2> QED BY <2>2 DEF ReleaseEpoll, StopListeningTo
<1>3. \A f \in Epoll, r \in Stream :
        epollMap'[f][r] = IF f = e THEN Null ELSE epollMap[f][r]
  BY <1>0, <1>1 DEF TypeOK
<1>4. TypeOK'
  <2>1. refs[e] > 0
    BY <1>1
  <2>2. refs' \in [Stream -> 0 .. MaxRefs]
    BY <1>0, <1>1, <2>1, RefDropped
  <2> QED BY <1>0, <1>1, <1>2, <2>2 DEF TypeOK
<1>5. Agree'
  BY <1>0, <1>1, <1>2, <1>3, ConstantsAssumption DEF TypeOK, Agree, Stream
<1>6. Placed' /\ Quiescent'
  <2>1. \A f \in Epoll, r \in Socket : Reports(f, r)' => Reports(f, r)
    BY <1>3 DEF Reports, Stream
  <2> QED BY <1>0, <1>1, <2>1, StaysQuiescent
<1> QED BY <1>0, <1>1, <1>4, <1>5, <1>6, InvParts DEF Parts

\* One descriptor less; the last one of a stream closes it.
LEMMA ReleaseFileRefInv ==
  ASSUME Inv, NEW s \in Stream, ReleaseFileRef(s)
  PROVE  Inv'
<1>0. TypeOK /\ Agree /\ Placed /\ Quiescent /\ aborted = "none"
  BY InvParts DEF Parts
<1>1. refs[s] > 0 /\ refs' = [refs EXCEPT ![s] = @ - 1] /\ UNCHANGED ready
  BY DEF ReleaseFileRef
<1>2. CASE s \in Socket /\ ReleaseSocket(s)
  BY <1>1, <1>2, ReleaseSocketInv
<1>3. CASE s \in Epoll /\ ReleaseEpoll(s)
  BY <1>1, <1>3, ReleaseEpollInv
<1>4. CASE (s \in Plain \/ refs[s] > 1) /\ UNCHANGED <<listeners, epollMap, wait, aborted>>
  <2>1. TypeOK'
    <3>1. refs' \in [Stream -> 0 .. MaxRefs]
      BY <1>0, <1>1, RefDropped
    <3> QED BY <1>0, <1>1, <1>4, <3>1 DEF TypeOK
  <2>2. Agree'
    BY <1>0, <1>1, <1>4, ConstantsAssumption DEF TypeOK, Agree, Stream
  <2>3. Placed' /\ Quiescent'
    BY <1>0, <1>1, <1>4 DEF Placed, Quiescent, Reports
  <2> QED BY <1>0, <1>4, <2>1, <2>2, <2>3, InvParts DEF Parts
<1> QED BY <1>2, <1>3, <1>4 DEF ReleaseFileRef

\* Every step preserves the invariant.
LEMMA NextInv == Inv /\ [Next]_vars => Inv'
<1> SUFFICES ASSUME Inv, [Next]_vars PROVE Inv'
  OBVIOUS
<1>1. CASE Next
  BY <1>1, CtlAddInv, CtlModInv, CtlDelInv, WaitInv, SocketChangesInv, SocketConsumesInv,
     AddFileRefInv, ReleaseFileRefInv DEF Next
<1>2. CASE UNCHANGED vars
  BY <1>2, InvParts DEF Parts, TypeOK, Agree, Placed, Quiescent, Reports, vars
<1> QED BY <1>1, <1>2

\* The tables of epoll streams and files agree and hold no closed stream.
THEOREM TablesConsistent == Spec => []Consistent
<1>1. Inv => Consistent
  BY DEF Inv
<1> QED BY <1>1, InitInv, NextInv, PTL DEF Spec

\* No thread sleeps in epoll_wait while a watched socket has an event for it.
THEOREM NoWakeupLost == Spec => []NoLostWakeup
<1>1. Inv => NoLostWakeup
  BY DEF Inv
<1> QED BY <1>1, InitInv, NextInv, PTL DEF Spec

\* No assertion of the listeners fails.
THEOREM AssertionsHold == Spec => []NoAssertFails
<1>1. Inv => NoAssertFails
  BY DEF Inv
<1> QED BY <1>1, InitInv, NextInv, PTL DEF Spec
=============================================================================

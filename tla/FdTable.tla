------------------------------ MODULE FdTable ------------------------------
(***************************************************************************)
(* The file descriptor table of the POSIX translation layer:               *)
(* FdToFileStreamMap (src/posix_translation/fd_to_file_stream_map.cc), the *)
(* reference count of FileStream (file_stream.cc) and the calls of         *)
(* VirtualFileSystem that allocate, duplicate and close descriptors        *)
(* (virtual_file_system.cc).                                               *)
(*                                                                         *)
(* Every call holds the one VFS mutex, so a locked section is one step.    *)
(* The mutex is released in the middle of a call in two places:            *)
(*   - OpenLocked calls handler->open() after it has reserved a descriptor *)
(*     and PepperFileHandler::open() unlocks: a thread is then "opening";  *)
(*   - the OnLastFileRef() of a TCP or UDP socket waits: the thread that   *)
(*     dropped the last reference is then "closing" (from close()) or      *)
(*     "dup2ing" (from the CloseLocked(newfd) inside DupLocked).           *)
(*                                                                         *)
(* A failed ALOG_ASSERT aborts the process: aborted becomes TRUE and       *)
(* nothing happens any more (the build with assertions compiled in).       *)
(***************************************************************************)
EXTENDS Integers, FiniteSets

CONSTANTS
    Thread,       \* threads that call into VirtualFileSystem
    Stream,       \* FileStream objects; each is created at most once
    Blocking,     \* the streams whose OnLastFileRef() releases the mutex
    MinFd, MaxFd, \* min_file_id_, max_file_id_
    CallerFds,    \* descriptors that dup2 and RegisterFileStream are given
    Absent,       \* the descriptor has no entry in streams_
    Null          \* the descriptor is reserved: its entry in streams_ is NULL

Fd == (MinFd .. MaxFd) \cup CallerFds

ASSUME ConstantsAssumption ==
    /\ MinFd \in Nat /\ MaxFd \in Nat /\ MinFd <= MaxFd
    /\ CallerFds \subseteq Nat /\ IsFiniteSet(CallerFds)
    /\ Blocking \subseteq Stream
    /\ Absent \notin Stream /\ Null \notin Stream /\ Absent # Null

VARIABLES
    streams,  \* streams_: descriptor -> stream, Null or Absent
    unused,   \* unused_fds_: how many copies of a descriptor the heap holds
    refs,     \* FileStream::file_ref_count_
    had,      \* FileStream::had_file_refs_
    pc,       \* where a thread is while the mutex is released
    fdOf,     \* the descriptor the suspended call works on
    srcOf,    \* the stream a suspended dup2 is about to add
    aborted,  \* an ALOG_ASSERT failed
    rude      \* history: a caller of dup2 has broken Dup2Discipline

vars == <<streams, unused, refs, had, pc, fdOf, srcOf, aborted, rude>>

TypeOK ==
    /\ streams \in [Fd -> Stream \cup {Absent, Null}]
    /\ unused \in [Fd -> Nat]
    /\ refs \in [Stream -> Nat]
    /\ had \in [Stream -> BOOLEAN]
    /\ pc \in [Thread -> {"idle", "opening", "closing", "dup2ing"}]
    /\ fdOf \in [Thread -> Fd]
    /\ srcOf \in [Thread -> Stream \cup {Null}]
    /\ aborted \in BOOLEAN /\ rude \in BOOLEAN

Init ==
    /\ streams = [fd \in Fd |-> Absent]
    /\ unused = [fd \in Fd |-> IF fd \in MinFd .. MaxFd THEN 1 ELSE 0]
    /\ refs = [s \in Stream |-> 0]
    /\ had = [s \in Stream |-> FALSE]
    /\ pc = [t \in Thread |-> "idle"]
    /\ fdOf = [t \in Thread |-> MinFd]
    /\ srcOf = [t \in Thread |-> Null]
    /\ aborted = FALSE /\ rude = FALSE

-----------------------------------------------------------------------------
(* FileStream *)

\* FileStream::IsClosed
IsClosed(s) == had[s] /\ refs[s] = 0

\* Mutant of CheckNotClosed: the build without assertions.
CheckNotClosedMutant(s) == TRUE

\* The assertion that AddFileRef starts with.
CheckNotClosed(s) == ~IsClosed(s)

\* A stream object that no call has created yet.
Fresh(s) == ~had[s]

\* The release of this descriptor drops the last reference to a stream whose
\* OnLastFileRef() waits with the mutex released.
LastBlocking(fd) ==
    streams[fd] \in Blocking /\ refs[streams[fd]] = 1

-----------------------------------------------------------------------------
(* FdToFileStreamMap.  The operators that change it take the new value of   *)
(* one entry and leave the rest of the state to the action.                 *)

\* The top of the min-heap: no descriptor when unused_fds_ is empty, which the
\* callers turn into EMFILE.
FirstUnused ==
    {fd \in Fd : /\ unused[fd] > 0
                 /\ \A g \in Fd : unused[g] > 0 => fd <= g}

\* GetFirstUnusedDescriptor pops one copy of fd.
Popped(u, fd) == [u EXCEPT ![fd] = @ - 1]

\* AddFileStream on a descriptor that has no entry drops every copy of it from
\* unused_fds_; on a reserved one unused_fds_ stays as it is.
Claimed(u, fd) == IF streams[fd] = Absent THEN [u EXCEPT ![fd] = 0] ELSE u

\* Mutant of AddRef: the reference is forgotten.
AddRefMutant(r, s) == r

\* AddFileRef
AddRef(r, s) == [r EXCEPT ![s] = @ + 1]

\* Mutant of DropRef: the reference is dropped twice.
DropRefMutant(r, s) == [r EXCEPT ![s] = @ - 2]

\* ReleaseFileRef
DropRef(r, s) == [r EXCEPT ![s] = @ - 1]

\* Mutant of Pushed: the descriptor is not given back.
PushedMutant(u, fd) == u

\* RemoveFileStream pushes fd on the heap before the reference is released.
Pushed(u, fd) == [u EXCEPT ![fd] = @ + 1]

\* Mutant of Released: the reference of the replaced entry is not released.
ReleasedMutant(r, x) == r

\* The reference count after the entry x of streams_ has been dropped.
Released(r, x) == IF x \in Stream THEN DropRef(r, x) ELSE r

Abort ==
    /\ aborted' = TRUE
    /\ UNCHANGED <<streams, unused, refs, had, pc, fdOf, srcOf, rude>>

\* The thread is at this point of its call and the process has not aborted.
At(t, where) == ~aborted /\ pc[t] = where

Suspend(t, where, fd, s) ==
    /\ pc' = [pc EXCEPT ![t] = where]
    /\ fdOf' = [fdOf EXCEPT ![t] = fd]
    /\ srcOf' = [srcOf EXCEPT ![t] = s]

\* The call returns; what it worked on is forgotten.
Return(t) == Suspend(t, "idle", MinFd, Null)

-----------------------------------------------------------------------------
(* Calls that complete in one locked section *)

\* socket, epoll_create1 and AddFileStreamLocked (accept, fences): claim the
\* first unused descriptor for a new stream.
AddFileStreamLocked(t) ==
    /\ At(t, "idle")
    /\ \E fd \in FirstUnused, s \in {x \in Stream : Fresh(x)} :
         /\ streams' = [streams EXCEPT ![fd] = s]
         /\ unused' = Popped(unused, fd)
         /\ refs' = AddRef(refs, s)
         /\ had' = [had EXCEPT ![s] = TRUE]
    /\ UNCHANGED <<pc, fdOf, srcOf, aborted, rude>>

\* socketpair and pipe2: two descriptors or none.  With a single free
\* descriptor the first is given back and the call fails: no state change.
AddPair(t) ==
    /\ At(t, "idle")
    /\ \E fd1 \in FirstUnused, fd2 \in Fd,
          s1, s2 \in {x \in Stream : Fresh(x)} :
         LET rest == Popped(unused, fd1) IN
         /\ rest[fd2] > 0
         /\ \A g \in Fd : rest[g] > 0 => fd2 <= g
         /\ s1 # s2
         /\ streams' = [streams EXCEPT ![fd1] = s1, ![fd2] = s2]
         /\ unused' = Popped(rest, fd2)
         /\ refs' = AddRef(AddRef(refs, s1), s2)
         /\ had' = [had EXCEPT ![s1] = TRUE, ![s2] = TRUE]
    /\ UNCHANGED <<pc, fdOf, srcOf, aborted, rude>>

\* dup, and the DupLocked(fd, -1) of fence merges and of descriptors sent over
\* a local socket.
Dup(t) ==
    /\ At(t, "idle")
    /\ \E fd \in Fd, newfd \in FirstUnused :
         /\ streams[fd] \in Stream
         /\ streams' = [streams EXCEPT ![newfd] = streams[fd]]
         /\ unused' = Popped(unused, newfd)
         /\ refs' = AddRef(refs, streams[fd])
    /\ UNCHANGED <<had, pc, fdOf, srcOf, aborted, rude>>

\* Mutant of IsKnownDescriptor: a reserved descriptor is not known.
IsKnownDescriptorMutant(fd) == streams[fd] \in Stream

\* The descriptor has an entry, reserved or not.
IsKnownDescriptor(fd) == streams[fd] # Absent

\* RegisterFileStream refuses a known descriptor.
RegisterFileStream(t) ==
    /\ At(t, "idle")
    /\ \E fd \in CallerFds, s \in {x \in Stream : Fresh(x)} :
         /\ ~IsKnownDescriptor(fd)
         /\ streams' = [streams EXCEPT ![fd] = s]
         /\ unused' = Claimed(unused, fd)
         /\ refs' = AddRef(refs, s)
         /\ had' = [had EXCEPT ![s] = TRUE]
    /\ UNCHANGED <<pc, fdOf, srcOf, aborted, rude>>

-----------------------------------------------------------------------------
(* close *)

\* CloseLocked on a descriptor without a stream is EBADF: no state change.
Close(t) ==
    /\ At(t, "idle")
    /\ \E fd \in Fd :
         /\ streams[fd] \in Stream
         /\ streams' = [streams EXCEPT ![fd] = Absent]
         /\ unused' = Pushed(unused, fd)
         /\ refs' = DropRef(refs, streams[fd])
         /\ IF LastBlocking(fd)
              THEN Suspend(t, "closing", MinFd, Null)
              ELSE UNCHANGED <<pc, fdOf, srcOf>>
    /\ UNCHANGED <<had, aborted, rude>>

\* The OnLastFileRef() of the socket has finished waiting.
CloseEnd(t) ==
    /\ At(t, "closing")
    /\ Return(t)
    /\ UNCHANGED <<streams, unused, refs, had, aborted, rude>>

\* ReplaceFileStream gives the new stream its reference before the old one
\* loses its own.
ReplaceFileStream(t) ==
    /\ At(t, "idle")
    /\ \E fd \in Fd, s \in {x \in Stream : Fresh(x)} :
         /\ streams[fd] \in Stream
         /\ streams' = [streams EXCEPT ![fd] = s]
         /\ refs' = DropRef(AddRef(refs, s), streams[fd])
         /\ had' = [had EXCEPT ![s] = TRUE]
         /\ IF LastBlocking(fd)
              THEN Suspend(t, "closing", MinFd, Null)
              ELSE UNCHANGED <<pc, fdOf, srcOf>>
    /\ UNCHANGED <<unused, aborted, rude>>

-----------------------------------------------------------------------------
(* open: reserve, unlock in the handler, then add the stream or give the     *)
(* descriptor back                                                           *)

OpenBegin(t) ==
    /\ At(t, "idle")
    /\ \E fd \in FirstUnused :
         /\ streams' = [streams EXCEPT ![fd] = Null]
         /\ unused' = Popped(unused, fd)
         /\ Suspend(t, "opening", fd, Null)
    /\ UNCHANGED <<refs, had, aborted, rude>>

\* handler->open() returned no stream: RemoveFileStream(fd), whatever the
\* entry holds by now.
OpenFail(t) ==
    /\ At(t, "opening")
    /\ LET fd == fdOf[t] IN
         IF streams[fd] = Absent
           THEN Abort
           ELSE /\ streams' = [streams EXCEPT ![fd] = Absent]
                /\ unused' = Pushed(unused, fd)
                /\ refs' = Released(refs, streams[fd])
                /\ IF LastBlocking(fd)
                     THEN Suspend(t, "closing", MinFd, Null)
                     ELSE Return(t)
                /\ UNCHANGED <<had, aborted, rude>>

\* handler->open() returned a stream: AddFileStream(fd, stream), which asserts
\* that an existing entry is still NULL.
OpenEnd(t) ==
    /\ At(t, "opening")
    /\ LET fd == fdOf[t] IN
         IF streams[fd] \in Stream
           THEN Abort
           ELSE \E s \in {x \in Stream : Fresh(x)} :
                  /\ streams' = [streams EXCEPT ![fd] = s]
                  /\ unused' = Claimed(unused, fd)
                  /\ refs' = AddRef(refs, s)
                  /\ had' = [had EXCEPT ![s] = TRUE]
                  /\ Return(t)
                  /\ UNCHANGED <<aborted, rude>>

-----------------------------------------------------------------------------
(* dup2 *)

\* What a caller has to respect for dup2 to be atomic: newfd is not reserved by
\* another thread's open(), and closing it does not release the mutex.
Dup2Discipline(newfd) ==
    /\ streams[newfd] # Null
    /\ ~LastBlocking(newfd)

\* DupLocked(fd, newfd) up to the first release of the mutex: all of it, unless
\* CloseLocked(newfd) waits.
Dup2(t) ==
    /\ At(t, "idle")
    /\ \E fd \in Fd, newfd \in CallerFds :
         /\ streams[fd] \in Stream
         /\ fd # newfd
         /\ rude' = (rude \/ ~Dup2Discipline(newfd))
         /\ IF LastBlocking(newfd)
              THEN /\ streams' = [streams EXCEPT ![newfd] = Absent]
                   /\ unused' = Pushed(unused, newfd)
                   /\ refs' = DropRef(refs, streams[newfd])
                   /\ Suspend(t, "dup2ing", newfd, streams[fd])
              ELSE /\ streams' = [streams EXCEPT ![newfd] = streams[fd]]
                   /\ unused' = IF streams[newfd] = Null
                                  THEN unused
                                  ELSE [unused EXCEPT ![newfd] = 0]
                   /\ refs' = AddRef(Released(refs, streams[newfd]), streams[fd])
                   /\ UNCHANGED <<pc, fdOf, srcOf>>
    /\ UNCHANGED <<had, aborted>>

\* The rest of DupLocked after CloseLocked(newfd) waited: AddFileRef asserts
\* that the source is not closed, AddFileStream that newfd has no stream.
Dup2End(t) ==
    /\ At(t, "dup2ing")
    /\ LET newfd == fdOf[t]
           s == srcOf[t] IN
         IF ~CheckNotClosed(s) \/ streams[newfd] \in Stream
           THEN Abort
           ELSE /\ streams' = [streams EXCEPT ![newfd] = s]
                /\ unused' = Claimed(unused, newfd)
                /\ refs' = AddRef(refs, s)
                /\ Return(t)
                /\ UNCHANGED <<had, aborted, rude>>

-----------------------------------------------------------------------------
Step(t) ==
    \/ AddFileStreamLocked(t)
    \/ AddPair(t)
    \/ Dup(t)
    \/ RegisterFileStream(t)
    \/ Close(t)
    \/ CloseEnd(t)
    \/ ReplaceFileStream(t)
    \/ OpenBegin(t)
    \/ OpenFail(t)
    \/ OpenEnd(t)
    \/ Dup2(t)
    \/ Dup2End(t)

Next == \E t \in Thread : Step(t)

Spec == Init /\ [][Next]_vars

-----------------------------------------------------------------------------
(* Properties *)

DescriptorsOf(s) == {fd \in Fd : streams[fd] = s}

\* The reference count of a stream is the number of descriptors that name it,
\* whatever opens, closes, dups and failed opens happened in whichever unlocked
\* window (AddFileRef and ReleaseFileRef in AddFileStream/RemoveFileStream).
RefCountExact ==
    \A s \in Stream : refs[s] = Cardinality(DescriptorsOf(s))

\* GetStream never hands out a closed stream, the hazard the comment in
\* RemoveFileStream describes: a stream the table names is not closed, even
\* while another thread waits in its OnLastFileRef().
NoClosedStreamReachable ==
    \A fd \in Fd : streams[fd] \in Stream => ~IsClosed(streams[fd])

\* unused_fds_ and streams_ partition the descriptors: no descriptor is in the
\* heap twice or both in the heap and in use, and none of min..max is lost.
FdPartition ==
    \A fd \in Fd :
      /\ streams[fd] # Absent => unused[fd] = 0
      /\ streams[fd] = Absent => unused[fd] <= 1
      /\ streams[fd] = Absent /\ fd \in MinFd .. MaxFd => unused[fd] = 1

\* A closed stream stays closed: no dup2 that was suspended while its source
\* was closed brings it back (CheckNotClosed in AddFileRef).
ClosedForever ==
    [][\A s \in Stream : IsClosed(s) => IsClosed(s)']_vars

\* The reserved descriptors are exactly those of the calls inside
\* handler->open(), one each.
Owned ==
    /\ \A t \in Thread : pc[t] = "opening" => streams[fdOf[t]] = Null
    /\ \A t, u \in Thread :
         pc[t] = "opening" /\ pc[u] = "opening" /\ fdOf[t] = fdOf[u] => t = u
    /\ \A fd \in Fd : streams[fd] = Null =>
         \E t \in Thread : pc[t] = "opening" /\ fdOf[t] = fd

\* As long as dup2 is used with Dup2Discipline, no ALOG_ASSERT of AddFileStream,
\* RemoveFileStream or AddFileRef fails, no descriptor stays reserved for ever
\* and no open() comes back to a descriptor it no longer owns.
Disciplined == ~rude => ~aborted /\ Owned
=============================================================================

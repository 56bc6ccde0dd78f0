# A TLA+ model of ARC's POSIX translation layer

ARC runs Android applications inside Chrome. Android's native code makes POSIX
calls; `src/posix_translation` implements them in user space on top of Pepper
(Chrome's plug-in API), and this is where ARC's own concurrent logic lives. The
rest of the repository is Android code with changes (`mods/android`), the
translation of OpenGL ES 1 (`mods/graphics_translation`), and Python build tools.
This project models the translation layer.

Source paths below are relative to the repository.

## 1. Inventory

### How the parts interact

`VirtualFileSystem` (VFS) is a singleton with **one mutex and one condition
variable** for everything. A libc entry point (`file_wrap.cc`, `sockets_wrap.cc`)
calls a VFS method, which takes the mutex, resolves a descriptor with
`FdToFileStreamMap` or a path with `MountPointManager`, and calls the `FileStream`
or `FileSystemHandler`. The mutex is given up in the middle of a call only

* in `Wait()`/`WaitUntil()` on the VFS condition (sockets, poll, preopen), and
  `Broadcast()` wakes *every* waiter of *every* file;
* in `base::AutoUnlock` around blocking Pepper calls (Pepper files, TCP listen,
  UDP bind, the host resolver).

So a section between two such points is atomic, and every hazard is about what
happened while the mutex was away. Pepper sockets belong to the main thread: other
threads post tasks there, and Pepper's completion callbacks run there.

| Component | State | Operations | Hard behaviour | What makes it correct |
|---|---|---|---|---|
| Descriptor table: `fd_to_file_stream_map.cc`, `file_stream.cc`, open/dup/close of `virtual_file_system.cc` | `streams_`, `unused_fds_` (heap), reference counts | open, register, dup, dup2, close, failed open | open reserves a descriptor and unlocks; closing a TCP/UDP socket waits; dup2 is close + add | counts are exact, no descriptor lost or doubled, a closed stream is unreachable and stays closed |
| Local sockets and pipes: `local_socket.cc`, `abstract_socket_namespace.cc`, `socket_stream.cc` | connect state, `peer_`, queue and backlog, names, buffers, descriptors in flight | socket, socketpair, pipe2, bind, listen, connect, accept, sendmsg, recvmsg, close | waits on a shared condition, wake-ups only "when needed", closes while others wait, timeouts | no lost wake-up, both ends agree, each connect answered once, descriptors neither leaked nor misdelivered |
| Byte buffer: `common/circular_buffer.cc` | `buffer_`, `capacity_`, `start_`, `end_`, `size_` | write, read, peek, remove, clear, set_capacity | wrap-around, redundant indices, resizing with content | it is a bounded FIFO |
| TCP sockets: `tcp_socket.cc` | connect state, `in_buf_`, `out_buf_`, `write_buf_`, `read_sent_`, `write_sent_`, `accepted_socket_` | connect, listen, accept, send, recv, poll, close; tasks Connect/Accept/Read/Write/Close; callbacks | threads, posted tasks and callbacks in any order; failures; timeouts; close while an operation runs | one read and one write under way, never neither when needed; nobody sleeps for ever; close waits for data |
| Preopen cache: `virtual_file_system.cc` | `scheduled_preopens_`, `preopened_fds_` | schedule, preopen thread, open, invalidation by create/remove/rename | iterator kept over an unlock, invalidation while opens wait | cached results are fresh, waiters are woken |
| epoll: `epoll_stream.cc`, listeners of `file_stream.cc` | `epoll_map_`, `listeners_`, condition | epoll_ctl, epoll_wait, notifications on change and close | several streams and listeners closing in any order | an event is reported while it lasts; no entry for a dead stream |
| UDP sockets: `udp_socket.cc` | state, message queues, `read_sent_`, `write_sent_` | bind, connect, send, recv, close | as TCP, with an unlock in bind | as TCP |
| Fences: `fence_stream.cc` | timelines, counters, pending sync points | create, merge, increment, wait, destroy | four lock levels, signals while merging and destroying | a fence is signalled exactly when all its points have passed; lock order |
| Pepper files: `pepper_file.cc`, inode table of `virtual_file_system.cc` | metadata cache, inode numbers, open files | open, write, stat, mkdir, rename, remove, truncate, utimes | every call unlocks in Pepper and updates cache and inodes afterwards | the cache is true, an open file keeps its number |
| Memory regions: `memory_region.cc`, and ashmem: `dev_ashmem.cc` | map of start and end nodes, reference counts; state of the shared memory | mmap, MAP_FIXED, munmap, close | splitting, partial overlap, failure half-way, pages kept after the last munmap | each page belongs to the stream the map names, and is still its own when read |
| Directory manager, mount points, paths | trees | add/remove, mount, resolve | longest prefix, trailing slashes | agree with a reference definition |
| Host resolver, external files | small state machines | resolve; mount | unlock while resolving | – |
| Process emulator: `common/process_emulator.cc` | uid per process and thread | enter, exit | nesting | – |
| Wrappers, read-only and device files, tracing, options | (almost) none | – | – | – |

The hazards, each at the line where it bites, are in `PROJECT.json`.

### Plan

Done: `FdTable`, `CircularBuffer`/`BoundedFifo`, `LocalSocket`, `TcpSocket`,
`Preopen`, `Fence`, `UdpSocket`, `EPoll`, `PepperFile`, `MemoryRegion`, and proofs
of all the safety properties that their runs check.

Next, in this order:

1. `DirectoryManager`, `MountPoint`, `Path`: pure operators against reference
   definitions.
2. `ExternalFile`, `HostResolver`, `ProcessEmulator`: small state machines; socket
   options of `UdpSocket`; directory listings of `PepperFile`.

## 2. Modules

Common conventions. A locked section is one action. Operators that compute the new
value of one field are named after the method. A `...Mutant` operator next to a
definition is that definition with a plausible mistake; it is used only to see that
the properties notice. Each build that matters is the one with assertions: a failed
`ALOG_ASSERT` sets `aborted` and nothing happens afterwards. A thread that waits
is a record in `call` with the point it waits at and `asleep`; `Broadcast()` clears
`asleep` of every waiter, and the rest of the loop body is a `...Resume` action.

### FdTable (`MCFdTable`, `FdTableProofs`)

`streams` is `streams_` (a stream, `Null` for a reserved descriptor, `Absent`
for no entry), `unused` counts copies of a descriptor in the heap `unused_fds_`
(the heap can hold duplicates in principle, and that none appear is something to
prove), `refs` and `had` are the fields of `FileStream`. A call is cut in two where
the mutex is released: an open in its handler (`opening`), a close in a waiting
`OnLastFileRef()` (`closing`), and the `CloseLocked(newfd)` inside dup2
(`dup2ing`). The history variable `rude` becomes TRUE when a caller uses dup2
against `Dup2Discipline`: its target is a descriptor that an open in flight has
reserved, or the last reference to a socket whose close waits.

### CircularBuffer, BoundedFifo (`MCCircularBuffer`, `LocalSocketProofs`)

`CircularBuffer` translates every method of `CircularBuffer` with its two-part
`memcpy`s: `buffer_` is a function on positions, with `Junk` where nothing was
written. `BoundedFifo` is what a user of the class expects: a queue with a
capacity, short writes and short reads. `given`, `asked`, `out` and `ret` are the
argument and result of the last call and are part of both, so the refinement
says that the results agree and not only that the contents do. The mapping reads
the content from the buffer: `queue <- Content`.

### LocalSocket (`MCLocalSocket`, `LocalSocketProofs`)

All sockets of a behaviour have one type, which `Init` chooses from `Types`
(connect and send refuse a peer of another type). `queue`, `backlog`,
`peer`, `bound` are the fields named in the declarations. `buf` holds units (bytes
of a stream or packets); `TRUE` marks a unit sent together with descriptors, and
`cmsgs` is the length of `cmsg_fd_queue_`. The calls that wait are connect,
accept, recvmsg, poll and epoll_wait. `Careful` is TRUE when callers
call connect on a socket from one thread only (`ConnectOnce`) and never listen again
with a backlog below the present queue (`ListenOnce`). The history variable `emptied`
names the sockets where a packet that carried descriptors was received into no buffer
at all. A name of the logd namespace (`LogdName`) keeps its key when its socket is
closed and can be bound no more; an abstract name can.

### TcpSocket (`MCTcpSocket`, `TcpSocketProofs`)

One socket, several threads, the main thread's queue `tasks` (tasks posted by the
calls and completion callbacks posted by Pepper, one FIFO) and the Pepper
operations under way (`pending`). Buffers are byte counts. `Complete(op)` is the
external part: Pepper finishes an operation with success or, if `op \in Errors`,
failure, and posts its callback. `Init` has two cases: a fresh socket, and one that
accept() has made of a connection. Two history variables: `ignored` names the
failures (of Listen and Accept) that the code drops without telling anybody, and
`aborted` names the method whose assertion failed.

### UdpSocket (`MCUdpSocket`, `UdpSocketProofs`)

The same structure: `tasks` and `pending`, threads that post, and a close that waits
for its task. The queues are numbers of messages. bind() calls Pepper itself with
the mutex released, so it is three steps (`Bind`, `PepperBinds`, `BindReturn`), and
sendto() on a socket that is not bound yet makes the same three first. Two history
variables: `early` (a message was queued while another thread's bind was under way)
and `deaf` (a read has failed, after which the code starts no other).

### EPoll (`MCEPoll`, `EPollProofs`)

`epollMap` and `listeners` are the two tables, one in the epoll stream and one in
the file, which every operation must change together. `refs` counts descriptors as
FdTable does; the last one runs `OnLastFileRef` (an epoll stream leaves the listeners
of all its files) or the closing notification (the listeners of a socket forget it).
A socket's events change (`SocketChanges`, with `NotifyListeners`) or are consumed.
epoll streams can be added to each other: that is EPOLL_CTL_ADD on a file that cannot
be listened to, which fails with EPERM after it has made its entry.

### Fence (`MCFence`, `FenceProofs`)

`vfs` and `lock[timeline]` are mutexes held over several steps; the locks of fences
and sync points are leaves of the hierarchy and what is done under them is one step.
`IncrementCounter` takes a timeline's lock, marks the points that are due one by
one, and signals the fences one by one (`IncrementBegin`, `IncrementMark`,
`IncrementSignal`); `SYNC_IOC_MERGE` copies the points of two fences and attaches
the copies one by one; the destructor detaches them one by one. `parents` remembers
what a fence was merged from, `full` that a fence got no descriptor.

### PepperFile (`MCPepperFile`, `PepperFileProofs`)

`disk` is Pepper's file system (external), a tree of two levels; a file has a version
that every change of size or time raises. `cache` is `PepperFileCache`, `inodes` and
`next_inode_` are in VFS. A call is three steps: what it does under the mutex before
Pepper (`Stat`, `Open`, `Mkdir`, `Modify`, `Rename`, `Ftruncate`: cache look-ups and
early returns, invalidation), what Pepper does (`Pepper...`: success or failure), and
what it does after it (`Return...`). The history variable `raced` collects the paths
that two overlapping calls are about, or a call and the write of an open file; the
properties are about all the others.

### MemoryRegion (`MCMemoryRegion`, `MemoryRegionProofs`)

`map_` has a node at the first and at the last byte of every region, as in
`MemoryRegion::map_`; a page is two addresses, which keeps the parity by which the
code tells start from end. `os` says whose the pages really are. `Registers` is what
VFS::mmap does after the stream has mapped the pages; `Removed` is
`RemoveFileStreamsByAddr` with `RemoveOneRegion`. `dev` holds the fields of
`DevAshmem`, whose shared memory is mapped once and counted; `Copied` are the pages
that its pread and read copy. A munmap that VFS refuses with ENOSYS, because no region
is there, goes on to the operating system in `__wrap_munmap` (`file_wrap.cc:869`): that
is `MunmapFallback`. All calls hold the mutex, so one call is one step: what is hard here
is the sequence of calls.

### Preopen (`MCPreopen`, `PepperFileProofs`)

Paths are those of `PathTree`, a tree of two levels that PepperFile uses too, with what
a rename does to a directory and to what is below it (`TreeRenamed`). They name files
(numbers, so that a file re-created at the same path is another file) or directories
(`Folder`); a cached descriptor is the number of the file it was opened on. Calls are cut
where `PepperFileHandler` unlocks; mkdir and rmdir, which do not touch the cache, are one
step each, and so is the creation of a file with the beginning of the open that makes it.
The list of preopens names paths of `Listed`. The preopen thread keeps its iterator `it` over
its unlocked open; if the entry has been erased meanwhile, writing through it sets
`dangling`, after which the behaviour of the program is undefined and the model
stops. The history variable `disturbed` becomes TRUE when a create, remove or rename
erases an entry that is still pending; `overlooked` names the paths whose entries the
code left alone although the path had changed, or whose preopen failed with the file there.

## 3. Runs

| Run | Checks | Shows |
|---|---|---|
| `fd_table` | `TypeOK`, `RefCountExact`, `NoClosedStreamReachable`, `FdPartition`, `Disciplined`, `ClosedForever` | the bookkeeping with arbitrary dup2, up to the first failed assertion; and that only a dup2 against `Dup2Discipline` makes an assertion fail or a reservation change hands |
| `circular_buffer` | `BufferInv`, `ImplementsFifo` | refinement of the FIFO |
| `local_socket_connect` | `Consistent` (`PeerSymmetric`, `QueuedOnce`, `QueueBounded`), `NoLostWakeup` | SEQPACKET connections through an abstract name: a listener, two clients, what accept creates |
| `local_socket_data` | `NoLostWakeup`, `PeerSymmetric`, `DescriptorsNotStranded` | stream pairs, pipes and connections, datagram sockets paired or named in the logd namespace; no packet's descriptors reach the receiver of another, unless one was received into no buffer |
| `local_socket_live` | `AnsweredReturn` | calls whose answer is final return, timeouts included: a connect accepted, a recvmsg without peer, a poll of a socket hung up by its peer, or of a connection whose own descriptor is closed |
| `tcp_socket` | `Armed` (`ReaderArmed`, `WriterArmed`, `AcceptArmed`), `NoLostWakeup`, `NoAssertFails`, `CallsReturn` | every operation may fail and every wait may time out |
| `udp_socket` | `Armed` (`ReaderArmed`, `WriterArmed`), `NoLostWakeup`, `NoAssertFails`, `CallsReturn` | the same for UDP, with binds that overlap sends and closes |
| `preopen` | `EntriesSound`, `EntriesFresh`, `OpenReturns` | files and directories created, removed and renamed while the preopen thread works, up to a write to an erased entry |
| `epoll` | `Consistent` (`MapsAgree`, `CycleBroken`), `NoLostWakeup`, `NoAssertFails` | both sides watched, duplicated and closed in any order while threads wait |
| `fence` | `PointersSound`, `NeverEarly`, `NeverForgotten`, `NoLostWakeup`, `NoAssertFails`, `LockHierarchy` | increments, merges, waits and closes of three threads |
| `pepper_file` | `CacheFresh`, `InodesSound` (`InodeKept`, `InodeUnique`) | calls of two threads, each cut in three |
| `memory_region` | `MapSound` (`WellFormed`, `MapMatchesPages`), `ReadsOwnPages`, `RefCountExact`, `NoAssertFails` | any sequence of mmap, MAP_FIXED and munmap of parts, with failures, that leaves memory already unmapped alone |

A property in parentheses is a named conjunct of the one before it, which also
contains the module's `TypeOK`.

### Where the code and its own comments or assertions disagree

The models contain these behaviours; the properties say what the code guarantees in
spite of them. Where one is an event of a behaviour, a history variable remembers it
and the property that depends on it mentions it, so the run still covers every
interleaving. Where it is a way to call, a constant of the module leaves it out
(`Careful` and `Timeouts` of LocalSocket, `ReusesUnmapped` of MemoryRegion); set it
the other way to see the counterexample.

* **dup2** (`virtual_file_system.cc:841`; `rude`). `DupLocked` calls
  `CloseLocked(newfd)` and then `AddFileStream(newfd, stream)`. When newfd holds the
  last reference to a TCP or UDP socket the close waits with the mutex released, and
  another thread can take newfd or close the source; a dup2 onto a descriptor that an
  open in flight has reserved does the same to that open. The `ALOG_ASSERT(!it->second)`
  of `AddFileStream` then fails.
* **accept with a receive timeout** (`local_socket.cc:340`; `Timeouts`). The loop ends
  at the timeout without another look at the queue, so a client that queued and was
  closed is paired, against "Skip any queued connects which have since been closed".
  For this reason `local_socket_live`, which has timeouts, does not check
  `PeerSymmetric`.
* **send with a timeout** (`tcp_socket.cc:470`; `aborted = "send"`). It leaves its loop
  with `out_buf_` full and meets `ALOG_ASSERT(!is_blocking)`.
* **close right after send** (`tcp_socket.cc:927`). "Wait for write operations to
  complete" waits while `write_sent_` is set; a write that is posted and has not
  started is cancelled, and its bytes are dropped.
* **preopen** (`virtual_file_system.cc:2247`; `disturbed`, `dangling`). The iterator is
  kept over `OpenLocked`, which unlocks; a removal or rename of that path erases the
  entry. The comment above it covers only invalidation before the call. The erasure
  wakes nobody either.
* **stale preopens** (`virtual_file_system.cc:2255`; `overlooked`). Entries are
  invalidated by the exact path of a successful open for writing, remove, unlink or
  rename. They stay, and the next open takes them, after mkdir (`:1769`) and rmdir
  (`:1926`) of the path, after the rename of a directory above it (`:1920`), and after an
  open that creates the file in Pepper and then fails (`pepper_file.cc:386-424`). A
  preopen that failed although the file is there is remembered as an error.
* **recvmsg into no buffer** (`local_socket.cc:448-455`; `emptied`). A packet is popped,
  but its group in `cmsg_fd_queue_` only when a byte was copied: after a recvmsg with
  empty buffers the descriptors stay, and the receiver of the next packet gets them.
* **UDP sendto during a bind** (`udp_socket.cc:305`; `early`). sendto binds only a
  socket that is `UDP_SOCKET_NEW`; while another thread is binding it, the message goes
  to Pepper, whose refusal is an assertion. After a failed read (`deaf`) no other read
  is posted.
* **a fence without a descriptor** (`fence_stream.cc:87`; `full`). `CreateFence` holds
  the timeline's lock when the fence it cannot return is destroyed, which takes the
  same lock.
* **the metadata cache** (`pepper_file.cc:521`; `raced`). stat stores what it learnt
  before another call changed the path, and stores every failed query as "absent";
  remove marks the path absent after it unlocked; rename copies metadata it read
  before; a write through a descriptor opened before a rename invalidates the old path.
* **inodes below a renamed directory** (`virtual_file_system.cc:283`; `adrift`). Their
  numbers stay at the old paths, though "rename() should not change inode".
* **ashmem**. A failed `::mmap` leaves the stream `MAPPED` (`dev_ashmem.cc:191`), and
  the next mmap meets an assertion (`failed = "initial"`). A MAP_FIXED mapping over the
  pages that a stream keeps after its last munmap goes unnoticed
  (`dev_ashmem.cc:324`; `ReusesUnmapped`), and pread then reads the other's memory; a
  second munmap there is refused by VFS and carried out by the real munmap
  (`file_wrap.cc:869-873`; `ReusesUnmapped`), and pread then reads unmapped memory.
  pread and read are bounded by `size_` and not by `mmap_length_`
  (`dev_ashmem.cc:284`, `298-300`): where the mapping is the shorter of the two they go
  on into the pages that follow, and `ReadsOwnPages` excepts these.

Others, smaller:

* a descriptor outside min..max that dup2 introduced goes to the heap when it is
  closed, and a later open returns it (`FdToFileStreamMap`);
* listen called again with a smaller backlog: connect compares queue length and
  backlog for equality, so the queue is never full any more (excluded by `Careful`),
  and two threads that connect the same local socket queue it twice (`Careful`);
* recvmsg notifies epoll of the room it makes and wakes no thread in poll or select
  for POLLOUT: `NoLostWakeup` asks it of epoll only;
* accept notifies the epoll listeners of the listening socket, not those of the
  client it connects: an epoll_wait for POLLOUT that began while the client was
  connecting sleeps on (label `epollConnecting`, which `NoLostWakeup` excepts);
* descriptors queued on a local socket that is closed are not closed;
* the poll of a local socket without a peer sleeps on when its descriptor is closed:
  `OnLastFileRef` broadcasts only to disconnect a peer (`local_socket.cc:48`), so
  `AnsweredReturn` asks it of connections only;
* a name of the logd namespace is never free again
  (`logd_socket_namespace.cc:35-40`);
* a connect queued on a listener that is then closed, an accept that waits on it, and
  an epoll_wait whose epoll stream is closed are not woken: the `NoLostWakeup`s do not
  count them as able to proceed;
* EPOLL_CTL_ADD that fails with EPERM leaves its entry, which epoll_wait then reports;
* a failed TCP listen sets the error state without a broadcast (`ignored`), and
  `OnAccept` drops the result of a failed accept.

### Bounds

* FdTable: 3 threads, 4 streams (2 with a waiting close), 3 descriptors in range
  and one outside. Three threads are enough for two calls in flight and a third
  that interferes; four streams outnumber the descriptors.
* CircularBuffer: capacities up to 3, arguments up to 4 bytes of 2 values: every
  wrap position, an argument longer than the buffer, all resizings.
* LocalSocket: 4 sockets, 3 threads and capacity 1 for connections; 3 sockets, 2
  threads, one logd name and capacity 2 for data; backlog at most 2, at most 2 groups of
  descriptors in flight (none in the run about connections, which sends none). Four sockets are a listener, two clients and one accepted
  socket; three threads are two sleepers and one that acts; capacity 2 makes a
  buffer empty, partly full and full. A socket object is created once, so behaviours
  end when all are used and all threads sleep: deadlock checking is off, and
  sleeping threads are what `NoLostWakeup` is about.
* TcpSocket: 2 threads besides the main thread, a buffer of 4 bytes (`kBufSize / 2`
  is 2), sends of at most 2 bytes: a send can fit, overfill and be refused, and
  the half-buffer threshold of reading can be on, under and over.
* Preopen: the paths `a`, `b`, `a/f` and `b/f`, of which the list names `a` and `a/f`,
  2 scheduled entries (both paths, or one twice), 2 file creations, 2 calls that change
  files, 2 threads: a directory with a preopened file can be renamed away and another
  renamed to its place, and a change can meet a second one or a waiting open.
* UdpSocket: 2 threads besides the main thread, `kQueueSize` 2 (empty, partly full and
  full), 3 messages sent: one under way, one queued behind it and one more.
* EPoll: 2 epoll streams, which also serve as the files that cannot be watched, a
  socket, 2 threads, at most 2 descriptors of a stream, one event besides POLLHUP.
* Fence: 3 threads, 2 timelines, 3 fences and 3 descriptors, counters up to 1. Two
  increments can overlap a merge, a wait or a close; the third fence is a merge of the
  other two, or finds no descriptor. A counter of 1 has every point either due or not.
* PepperFile: 2 threads, the paths `a`, `b`, `a/f`, `b/f`, one open file, one change
  of a file's version, 3 calls: a call, one that overlaps it and one that sees the
  result. Every tree is an initial state, so that no call is spent on setting it up.
* MemoryRegion: 2 ashmem streams and a file in 3 pages, a shared region mapped at most
  twice: three pages are the least in which a region can be split in the middle.

The safety properties do not depend on these bounds: section 4 proves them for every
value of the constants (`Careful`, `Timeouts` and `ReusesUnmapped`, which leave out
ways to call, are hypotheses of the theorems that need them).

Symmetry (of threads, sockets, paths or other model values) is used only in runs without liveness properties.

### Fairness

* LocalSocket: a woken thread runs (`WF` of each thread's resume steps): the mutex is
  released by everybody who takes it. Nothing makes a thread *start* a call, so no
  property depends on another thread accepting or sending.
* TcpSocket: the main thread runs its queue (it never waits in this code), woken
  threads run, and Pepper completes a Connect or a Write, as it does, with an error if
  need be, when the network fails. Completion of Read and Accept depends on the
  peer and is not assumed.
* UdpSocket: the main thread runs its queue, threads get the mutex, Pepper answers binds
  and completes sends; nothing has to arrive. A blocking sendto waits for an empty
  queue, so it returns only because the number of sends is bounded.
* Preopen: the preopen thread is started and makes progress, Pepper's open
  returns, and woken opens run.

## 4. Proofs

Every safety property that a run checks is stated by a theorem about the same
specification. A proof module holds the proofs of one component, or of two that belong
together: `LocalSocketProofs` also has the buffer of the sockets, `PepperFileProofs` the
preopen cache, which opens Pepper files; their definitions carry different names
(`BufferSpec`, `PreopenSpec`).

`FdTableProofs` proves, for any sets of threads and streams and any descriptor
range:

* `InvHolds`, `TypeCorrect`, `RefCountsExact`, `DescriptorsPartitioned`,
  `ClosedUnreachable`, `ClosedStaysClosed`: what run `fd_table` checks;
* `DisciplinedNoAssertFails` (`Disciplined`): as long as no dup2 has broken `Dup2Discipline` (`rude`
  is FALSE), no assertion fails and every reserved descriptor belongs to exactly one
  open in flight. The invariant `DInv` adds that no dup2 is then suspended half-way:
  that is what the discipline buys.

`RefCountExact` says that `refs[s]` is the *cardinality* of the set of descriptors
that name `s`; it is not inductive alone. The invariant adds that a descriptor is
either in the table or once in the heap, that a stream with references has
`had_file_refs_` set and that a suspended close or dup2 is not owed a reference any
more. Each action changes one descriptor, and the lemmas on cardinality (adding,
removing, replacing one element) are stated once and cited by each action. The
assumptions are those of `ConstantsAssumption`: the descriptor range is finite.

`LocalSocketProofs` proves of `CircularBuffer`, for every capacity and every length of
arguments:

* `BufferStaysSound` (`BufferInv`): `BufferTypeOK`, `IndicesAgree` (`end_` is
  `start_ + size_` modulo the capacity, with the asymmetric wrap of the code) and `HoldsNoJunk` (each position
  that is in use was written). The two need each other: what a read returns is
  data only because the indices agree.
* `BufferImplementsFifo`: `BufferSpec => Fifo!Spec`. Initial states map to initial
  states and each action maps to the FIFO's action of the same name; the lemmas say
  what `Content` is after each of the two-part copies.

`EPollProofs` proves, for any sets of epoll streams, sockets, other files, threads and
events and any bound on descriptors, all that run `epoll` checks: `TablesConsistent`,
`NoWakeupLost` and `AssertionsHold`. The three need each other. The assertions hold
because the tables agree and closed streams are in neither; no wake-up is lost because
those who are told of an event (`listeners_`) are exactly those who watch
(`epoll_map_`). The inductive invariant adds only that a sleeping thread is in some
epoll stream's epoll_wait (`Placed`). The lemma `StaysQuiescent` is the argument about
wake-ups: a step that gives an epoll stream something new to report wakes it.

`LocalSocketProofs` proves of `LocalSocket`, for any sets of sockets, names and
threads, any capacity, backlog and mix of socket types:

* `NoDescriptorStranded`, whatever `Careful` and `Timeouts` are, for the sockets that are
  not `emptied`. Its invariant, `Typed`, is the type invariant, that a blocked call is about a socket, and the property itself, which
  counts: a receiver takes one group of descriptors with each marked packet, so the
  lemmas are about the number of marked units in a buffer when one is put in or taken out.
* `PeersStaySymmetric`, `StaysConsistent`, `NoWakeupLost`, assuming
  `Careful /\ ~Timeouts`, as the runs that check these properties do. Both hypotheses
  are needed, see the list of disagreements: a second listen or a second connect of the
  same socket breaks the queue, and an accept whose timeout expires pairs itself with a
  closed client. The invariant `Sound` adds to `Typed`: a socket with a peer is
  connected and a socket still to be made is not open (`PeerSound`); only listeners have
  queues, what is queued is connecting, and what is open and connecting is queued once
  (`QueueSound`); only connections and datagram sockets hold data, and the write end of a
  pipe none (`DataSound`); the state of the socket of a blocked
  call (`CallSound`); and that who sleeps has nothing to do
  (`WakeSound`). The argument about wake-ups is in two lemmas. `ReadyFacts` says what
  makes each kind of sleeper able to proceed, in terms of one socket; `Wakes` says that
  a step is harmless when it either broadcasts or makes no socket ready, and either
  notifies a socket's listeners or tells them nothing new. Each action is then shown to
  be such a step. That accept skips closed clients and takes the first open one is
  `SkipClosedFacts`, from the well-ordering of the numbers.

`TcpSocketProofs` proves, for any set of threads, any `BufSize` of at least 2 and any
sends, all failures and timeouts included: `SocketStaysArmed`, `NoWakeupLost` and
`AssertionsHold`. The invariant adds to them who may be closing and what is left for the
main thread once it has (`CloseSound`), that a connecting socket has exactly one
Connect posted or under way (`ConnectSound`), that only a connection has data
(`FreshSound`), that a read has room for what it brings (`ReaderSound`), that there is
at most one accept (`AcceptSound`), and, for the writer, that every
Write in the main thread's queue is before the OnWrite in it (`WritesFirst`), so that
none of them starts a second write: the assertions and the truth of `write_sent_` depend
on the *order* in which the main thread finds its tasks. The counting
lemmas say how the number of copies
of a task changes when one is posted or run.

`UdpSocketProofs` proves, for any set of threads, any `kQueueSize`, any number of sends
and all failures and timeouts: `DatagramsStayArmed`, `DatagramsWakeUp` and
`DatagramAssertionsHold`. The invariant adds that a close leaves nothing for the main
thread once its task has run (`CloseSound`), that one thread binds at a time and what the code
takes for bound is (`BindSound`), that only a bound socket is read and a read has room
(`ReaderSound`), that only a bound socket has messages to send, unless one was queued
early (`WriterSound`), and that a message that waits for the bind of its own sendto is
already among the sends that are counted (`SendsSound`).

`PepperFileProofs` proves of `PepperFile`, for any sets of threads, names and
descriptors and any bounds on calls and versions, `CacheStaysFresh` and
`InodesStaySound`. Both properties are about what holds *between* the steps of calls
that have released the mutex, so the invariant says what each call under way may rely
on:

* `RacedSound`: calls that overlap meet only at paths in `raced` (`OverlapRaced`), and a
  rename is about raced paths only or about none (`RenamesWhole`), so that it cannot
  carry what is stale to a path that is not raced;
* `CacheSound`: besides `CacheFresh`, nothing puts back an entry that a call under way
  has invalidated (`TouchedUnknown`), and what a call has learnt of its path, or done to
  it, is still so when it stores it (`LearntTrue`);
* `NumbersSound`: no two paths share a number, and where the number of an open file is
  while a remove or rename is between Pepper and the update of the numbers: at its path
  or at the one a rename is about to take it from (`NumberAt`), nowhere else
  (`NumberOnly`), while no other open file is at the path that was left (`LeftBehind`)
  and the number that is taken along is the moved file's (`TakenAlong`);
* `TreeSound`, `FilesExist`: the tree is one, and open files are in it.

There is one preservation lemma per action and part; `RenameFacts` says what Pepper's
rename does to a path and to what is below it. The facts on paths need no induction
because the tree has two levels.

`PepperFileProofs` proves of `Preopen`, for any sets of paths and threads, any number of
scheduled entries, files and calls: `IteratorValid` and `EntriesStayFresh`. The invariant
adds that the iterator of the preopen thread is at an entry of the path it opens, pending
unless one was invalidated (`IteratorSound`), that a remove or rename in Pepper has left
no entry of its paths and that none comes back (`Invalidated`), and that the entries, and
the result that the preopen thread brings back from Pepper, are stale at most between an
open for writing and its invalidation, or at a path that is `overlooked`
(`EntriesCurrent`, `ResultCurrent`). What creations, deletions and renames do to other
paths is in lemmas of their own (`CreatesFacts`, `DeletesFacts`, `RenamesFacts`), and
`UnnoticedInv` is the argument for all calls that tell the cache nothing.

`MemoryRegionProofs` proves, for any numbers of streams and pages, `MapStaysSound`,
`ReadsStayOwn`, `ReferencesExact` and `AssertionsHold`, assuming `~ReusesUnmapped` as
the run does: the disagreements listed above violate the second one without it. `map_`
is a function from addresses to start and end nodes; the proofs speak of the set of
regions that such a function represents (`Represents`), no two of which overlap
(`Disjoint`). One lemma for each operation on the map says which set it represents
afterwards: `AddedRegions`, `RefChangedRegions`, and `RemovedRegions`, where a munmap
leaves of each region what is before and after it (`Trimmed`). That the map can be
walked from node to node, as the code does, follows from the set (`WalkFacts`). The
invariant `Sound` is about that set: the pages of a region are its stream's (`Owned`);
a mapped page is in a region or kept by an ashmem stream after its last munmap (`Kept`);
an ashmem stream has an address when its state says so (`Placed`); what it keeps is in no
region (`Delayed`); what it has mapped is one region with as many references as calls
have left (`MappedOnce`), and no other region is referenced more than once (`ManyRefs`).

`FenceProofs` proves, for any finite sets of threads and timelines, any number of fences
and descriptors and any counters, all that run `fence` checks: `PointersStaySound`,
`NotSignalledEarly`, `SignalNotForgotten`, `NoWakeupLost`, `AssertionsHold` and
`LocksOrdered`. The invariant says who holds which lock at which step (`LocksHeld`) and
what each step refers to (`CallsSound`), that the points of a fence have a
timestamp only when their timeline has reached them (`PointsSigned`), and that a fence
which has a descriptor or a waiting thread exists with all its points attached, while
one that is being made or destroyed has neither (`ReferencesSound`). The
loop of IncrementCounter is the hard part: `LoopSound` says that its raw pointers are to
attached points, `DueMarked` that an attached point that is due is marked or about to
be, and `MarkedSignaled` that a fence whose points are all marked is signalled unless
somebody is about to look. `ParentsBefore` relates a merged fence to those it was
merged from.

Only model-checked: liveness (`AnsweredReturn`, `CallsReturn`, `OpenReturns`), which
the prover does not do.

## 5. What is left out

* LocalSocket: packets of length zero (`sendmsg` with empty buffers queues one without
  waking anybody), flags of recv, truncated control messages, credentials, `errno`,
  socket options, descriptor numbers reused while a poll sleeps on them, the event
  that epoll reports for a hung-up peer. Capacity of a packet queue is a bound of the
  model: the code's queue is not limited.
* TcpSocket: addresses, options other than the two timeouts, sends of length zero,
  getsockname, `connect_error_` and the `errno` of each failure. `AcceptArmed` is
  about a socket until its first failed accept: `OnAccept` ignores its result (there
  is a TODO in the code).
* FdTable: `DebugWriteLocked` (`virtual_file_system.cc:566-607`, option
  `save_logs_to_file`), which opens a log file at the first write to stdout or stderr: it
  reserves a descriptor and never gives it back when that open fails, and its `O_CREAT`
  invalidates no preopen.
* Preopen: `errno`, trees of more than two levels, truncation (which keeps the file).
* UdpSocket: addresses, setsockopt and getsockopt, getsockname, message sizes.
* EPoll: `maxevents` and the order of the scan (by address, so that with a small
  `maxevents` a busy file can hide another), the data of events, edge triggering
  (which the code does not have).
* Fence: SYNC_IOC_FENCE_INFO, names, the values of timestamps, the overflow of the
  32-bit counter (an assertion of `IncrementCounter`).
* PepperFile: read, lseek, fcntl, directory listings, file contents, trees of more than
  two levels, the limit of the cache (an entry may be forgotten at any time). The query
  that `OnMounted` makes (`pepper_file.cc:784-810`) releases the mutex between its look at
  the cache and its update; mounting is one step here.
* MemoryRegion: mprotect and madvise, the bookkeeping of `write_mapped_` (a second mmap
  of a region with PROT_WRITE is not recorded there), file offsets, protection bits.
* All: formatting, tracing, statistics; several processes (there is one).
* Components with status `not_modelled` in `PROJECT.json`, with the reason there.

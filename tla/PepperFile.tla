----------------------------- MODULE PepperFile -----------------------------
(***************************************************************************)
(* Files of the Pepper file system: PepperFileHandler, PepperFileCache and *)
(* PepperFile (src/posix_translation/pepper_file.cc), and the inode        *)
(* numbers of VirtualFileSystem (virtual_file_system.cc).                  *)
(*                                                                         *)
(* A call looks at the cache under the VFS mutex, invalidates what it is   *)
(* about to change, releases the mutex while Pepper works, and updates the *)
(* cache and the inode numbers when it has the mutex again: three steps,   *)
(* between which the calls of other threads take theirs.                   *)
(*                                                                         *)
(* The tree has two levels.  What Pepper says of a path is its type and a  *)
(* version, which stands for size and modification time.                   *)
(***************************************************************************)
EXTENDS Integers, Sequences, FiniteSets, PathTree

CONSTANTS
    Thread,      \* the calling threads
    Slot,        \* descriptors of open files
    MaxVersion,  \* bound on the changes of a file
    MaxInode,    \* bound on the inode numbers
    MaxCalls     \* bound on the number of calls

ASSUME ConstantsAssumption ==
    MaxVersion \in Nat \ {0} /\ MaxInode \in Nat \ {0} /\ MaxCalls \in Nat

VARIABLES
    disk,        \* Pepper: what is at a path
    cache,       \* PepperFileCache::cache_
    inodes,      \* VirtualFileSystem::inodes_, 0 for a path without a number
    nextInode,   \* next_inode_
    stream,      \* the open files
    call,        \* the call a thread is in
    calls,       \* calls so far
    raced        \* history: paths that overlapping calls are about

numbers == <<inodes, nextInode>>
vars == <<disk, cache, numbers, stream, call, calls, raced>>

Unknown == [is |-> "unknown", version |-> 0]
Absent == [is |-> "absent", version |-> 0]
Directory == [is |-> "dir", version |-> 0]
File(v) == [is |-> "file", version |-> v]
Info == {Absent, Directory} \cup {File(v) : v \in 0 .. MaxVersion}

\* path is pathname_, at the path where the file is now; adrift says that it is
\* there because its directory was renamed.
Closed == [open |-> FALSE, writable |-> FALSE, path |-> NoPath, at |-> NoPath,
           inode |-> 0, adrift |-> FALSE]
Idle == [op |-> "idle", path |-> NoPath, to |-> NoPath, at |-> NoPath, phase |-> "none",
         info |-> Unknown]
Ops == {"stat", "openRead", "openWrite", "openCreate", "mkdir", "remove", "rename",
        "utimes", "truncate", "ftruncate"}

TypeOK ==
    /\ disk \in [Path -> Info] /\ cache \in [Path -> Info \cup {Unknown}]
    /\ inodes \in [Path -> 0 .. MaxInode] /\ nextInode \in 1 .. MaxInode + 1
    /\ \A p \in Path : inodes[p] < nextInode
    /\ stream \in [Slot -> [open : BOOLEAN, writable : BOOLEAN, path : Path \cup {NoPath},
                            at : Path \cup {NoPath}, inode : 0 .. MaxInode,
                            adrift : BOOLEAN]]
    /\ \A t \in Thread :
         /\ call[t].op \in Ops \cup {"idle"}
         /\ {call[t].path, call[t].to, call[t].at} \subseteq Path \cup {NoPath}
         /\ call[t].phase \in {"none", "asked", "ok"}
         /\ call[t].info \in Info \cup {Unknown}
    /\ calls \in 0 .. MaxCalls /\ raced \subseteq Path

InDirectory(p) == Len(p) = 1 \/ disk[<<p[1]>>] = Directory
\* Whatever earlier runs of the program have left on disk.
Init ==
    /\ disk \in [Path -> {Absent, Directory, File(0)}]
    /\ \A p \in Path : disk[p] # Absent => InDirectory(p)
    /\ \A p \in Path : Below(p) = {} => disk[p] # Directory
    /\ cache = [p \in Path |-> Unknown]
    /\ inodes = [p \in Path |-> 0] /\ nextInode = 1
    /\ stream = [s \in Slot |-> Closed]
    /\ call = [t \in Thread |-> Idle] /\ calls = 0
    /\ raced = {}

-----------------------------------------------------------------------------
(* Pepper's file system (external) *)

IsEmpty(p) == \A q \in Below(p) : disk[q] = Absent

\* The file at p has another size or time.
Changeable(p) == p # NoPath /\ disk[p].is = "file" /\ disk[p].version < MaxVersion
Change(p) == disk' = [disk EXCEPT ![p].version = @ + 1]

CanRename(o, n) ==
    /\ disk[o] # Absent /\ InDirectory(n) /\ n \notin AtOrBelow(o)
    /\ disk[n] # Absent => disk[n].is = disk[o].is /\ IsEmpty(n)
    /\ Len(n) > Len(o) => IsEmpty(o)

Renamed(o, n) == TreeRenamed(disk, Absent, o, n)

\* Where a file at p is after the rename; NoPath if it was replaced.
Moved(o, n, p) ==
    IF p \in AtOrBelow(o) THEN Rebased(p, o, n)
    ELSE IF p \in AtOrBelow(n) THEN NoPath ELSE p

-----------------------------------------------------------------------------
(* The cache and the inode numbers *)

IsNonExistent(p) == cache[p] = Absent
Set(p, info) == [cache EXCEPT ![p] = info]

\* Invalidate(p)
Invalidated(p) == Set(p, Unknown)

\* Mutant of InvalidatedBelow: the entries below a directory are forgotten.
InvalidatedBelowMutant(paths) ==
    [q \in Path |-> IF q \in paths THEN Unknown ELSE cache[q]]

\* InvalidateEntriesWithPrefix, for each of the paths
InvalidatedBelow(paths) ==
    [q \in Path |-> IF \E p \in paths : q \in AtOrBelow(p) THEN Unknown ELSE cache[q]]

\* The number GetInodeLocked returns for p.
Inode(p) == IF inodes[p] = 0 THEN nextInode ELSE inodes[p]

\* Mutant of GetInode: the number is taken again by the next path.
GetInodeMutant(p) ==
    /\ inodes[p] = 0 => nextInode <= MaxInode
    /\ inodes' = [inodes EXCEPT ![p] = Inode(p)]
    /\ UNCHANGED nextInode

\* GetInodeLocked(p)
GetInode(p) ==
    /\ inodes[p] = 0 => nextInode <= MaxInode
    /\ inodes' = [inodes EXCEPT ![p] = Inode(p)]
    /\ nextInode' = IF inodes[p] = 0 THEN nextInode + 1 ELSE nextInode

\* Mutant of RemoveInode: the next file of that name gets the number.
RemoveInodeMutant(p) == inodes

\* inodes_ after RemoveInodeLocked
RemoveInode(p) == [inodes EXCEPT ![p] = 0]

\* Mutant of ReassignInode: the new path keeps the number it has.
ReassignInodeMutant(o, n) == [inodes EXCEPT ![o] = 0]

\* inodes_ after ReassignInodeLocked(o, n)
ReassignInode(o, n) == [inodes EXCEPT ![n] = inodes[o], ![o] = 0]

-----------------------------------------------------------------------------
(* Calls that overlap *)

\* The paths a call is about.
Concerns(c) == UNION {AtOrBelow(p) : p \in {c.path, c.to} \ {NoPath}}

\* No call under way is about this path.
Quiet(p) == \A t \in Thread : p \notin Concerns(call[t])

ReadsOnly(op) == op \in {"stat", "openRead"}

\* The paths that t's call c shares with calls under way, one of which changes
\* something.
Overlap(t, c) ==
    UNION {Concerns(c) \cap Concerns(call[u]) :
             u \in {v \in Thread \ {t} : ~(ReadsOnly(c.op) /\ ReadsOnly(call[v].op))}}

\* A rename takes the doubt about one of its paths to the other.
Spread(paths, cs) ==
    paths \cup UNION {Concerns(c) : c \in {r \in cs : /\ r.op = "rename"
                                                        /\ Concerns(r) \cap paths # {}}}

\* A step changes these paths while calls may be under way.
Disturbs(paths) == raced' = Spread(raced \cup paths, {call[t] : t \in Thread})

-----------------------------------------------------------------------------
(* The start of a call, up to the release of the mutex *)

Counted == calls < MaxCalls /\ calls' = calls + 1

Asks(t, c) ==
    /\ call[t] = Idle
    /\ call' = [call EXCEPT ![t] = c]
    /\ Counted
    /\ raced' = Spread(raced \cup Overlap(t, c), {c} \cup {call[u] : u \in Thread})
    /\ UNCHANGED <<disk, numbers, stream>>

Request(op, p) == [Idle EXCEPT !.op = op, !.path = p, !.phase = "asked"]

\* stat answers from the cache, or asks Pepper; it numbers what exists.
Stat(t, p) ==
    \/ /\ cache[p] = Unknown
       /\ Asks(t, Request("stat", p))
       /\ UNCHANGED cache
    \/ /\ call[t] = Idle
       /\ cache[p] \notin {Unknown, Absent}
       /\ GetInode(p) /\ Counted
       /\ UNCHANGED <<disk, cache, stream, call, raced>>

\* open without O_CREAT trusts the cache that there is no file.  Opening for
\* writing or creating invalidates the entry.
Open(t, p, op) ==
    /\ op # "openCreate" => ~IsNonExistent(p)
    /\ cache' = IF op = "openRead" THEN cache ELSE Invalidated(p)
    /\ Asks(t, Request(op, p))

\* mkdir trusts the cache that something is there.
Mkdir(t, p) ==
    /\ cache[p] \in {Unknown, Absent}
    /\ cache' = Invalidated(p)
    /\ Asks(t, Request("mkdir", p))

\* remove, rmdir, unlink and utimes; truncate, which opens the file first.
Modify(t, p, op) ==
    /\ ~IsNonExistent(p)
    /\ cache' = Invalidated(p)
    /\ Asks(t, Request(op, p))

\* rename of two different paths remembers what the cache knows of the first.
Rename(t, o, n) ==
    /\ o # n /\ ~IsNonExistent(o)
    /\ cache' = InvalidatedBelow({o, n})
    /\ Asks(t, [Request("rename", o) EXCEPT !.to = n, !.info = cache[o]])

\* ftruncate of a file open for writing
Ftruncate(t, s) ==
    /\ stream[s].open /\ stream[s].writable
    /\ cache' = Invalidated(stream[s].path)
    /\ Asks(t, [Request("ftruncate", stream[s].path) EXCEPT !.at = stream[s].at])

-----------------------------------------------------------------------------
(* Pepper does what a call asked for.  Where the call has nothing left to do *)
(* with the mutex it ends here.                                              *)

Asked(t, ops) == call[t].phase = "asked" /\ call[t].op \in ops
Ends(t) == call' = [call EXCEPT ![t] = Idle]

PepperFails(t) ==
    /\ Asked(t, Ops \ {"stat"})
    /\ Ends(t)
    /\ UNCHANGED <<disk, cache, numbers, stream, raced, calls>>

\* Every error of a query is taken for "there is no such file".
PepperQueryFails(t) ==
    /\ Asked(t, {"stat"})
    /\ call' = [call EXCEPT ![t].phase = "ok", ![t].info = Absent]
    /\ Disturbs({p \in {call[t].path} : disk[p] # Absent})
    /\ UNCHANGED <<disk, cache, numbers, stream, calls>>

PepperQueries(t) ==
    /\ Asked(t, {"stat"})
    /\ call' = [call EXCEPT ![t].phase = "ok", ![t].info = disk[call[t].path]]
    /\ UNCHANGED <<disk, cache, numbers, stream, raced, calls>>

\* O_TRUNC changes the file, O_CREAT makes it.
PepperOpens(t) ==
    LET p == call[t].path
    IN  /\ Asked(t, {"openRead", "openWrite", "openCreate", "truncate"})
        /\ \/ disk[p].is = "file" /\ UNCHANGED disk
           \/ disk[p] = Directory /\ call[t].op = "openRead" /\ UNCHANGED disk
           \/ /\ Changeable(p) /\ call[t].op \in {"openWrite", "openCreate"}
              /\ Change(p)
           \/ /\ disk[p] = Absent /\ InDirectory(p) /\ call[t].op = "openCreate"
              /\ disk' = [disk EXCEPT ![p] = File(0)]
        /\ call' = [call EXCEPT ![t].phase = "ok", ![t].at = p, ![t].info = disk'[p]]
        /\ UNCHANGED <<cache, numbers, stream, raced, calls>>

PepperMakesDirectory(t) ==
    LET p == call[t].path
    IN  /\ Asked(t, {"mkdir"}) /\ disk[p] = Absent /\ InDirectory(p)
        /\ disk' = [disk EXCEPT ![p] = Directory]
        /\ Ends(t)
        /\ UNCHANGED <<cache, numbers, stream, raced, calls>>

PepperTouches(t) ==
    /\ Asked(t, {"utimes"}) /\ Changeable(call[t].path)
    /\ Change(call[t].path)
    /\ Ends(t)
    /\ UNCHANGED <<cache, numbers, stream, raced, calls>>

\* SetLength: the file may have left the path it was opened with.
PepperSetsLength(t) ==
    /\ Asked(t, {"ftruncate"}) /\ Changeable(call[t].at)
    /\ Change(call[t].at)
    /\ Disturbs({call[t].at} \ {call[t].path})
    /\ Ends(t)
    /\ UNCHANGED <<cache, numbers, stream, calls>>

\* Open files and calls under way keep the file that moved to where[its path].
FilesMove(t, where, drifts) ==
    /\ stream' = [s \in Slot |->
         [stream[s] EXCEPT !.at = where[@],
                           !.adrift = @ \/ stream[s].at \in drifts]]
    /\ call' = [u \in Thread |->
         [call[u] EXCEPT !.at = where[@], !.phase = IF u = t THEN "ok" ELSE @]]
    /\ UNCHANGED <<cache, numbers, raced, calls>>

PepperDeletes(t) ==
    LET p == call[t].path
    IN  /\ Asked(t, {"remove"}) /\ disk[p] # Absent /\ IsEmpty(p)
        /\ disk' = [disk EXCEPT ![p] = Absent]
        /\ FilesMove(t, [q \in Path \cup {NoPath} |-> IF q = p THEN NoPath ELSE q], {})

PepperRenames(t) ==
    LET o == call[t].path
        n == call[t].to
    IN  /\ Asked(t, {"rename"}) /\ CanRename(o, n)
        /\ disk' = Renamed(o, n)
        /\ FilesMove(t, [q \in Path \cup {NoPath} |-> Moved(o, n, q)], Below(o))

-----------------------------------------------------------------------------
(* The end of a call, with the mutex *)

Answered(t, ops) == call[t].phase = "ok" /\ call[t].op \in ops

\* The answer goes to the cache, whatever has happened since.
ReturnStat(t) ==
    /\ Answered(t, {"stat"})
    /\ cache' = Set(call[t].path, call[t].info)
    /\ IF call[t].info = Absent THEN UNCHANGED numbers ELSE GetInode(call[t].path)
    /\ Ends(t)
    /\ UNCHANGED <<disk, stream, raced, calls>>

\* The constructor of the stream takes the inode number of the path.  The
\* stream of a directory keeps nothing else that matters here.
ReturnOpen(t) ==
    LET s == CHOOSE r \in Slot : ~stream[r].open
        p == call[t].path
    IN  /\ Answered(t, {"openRead", "openWrite", "openCreate"})
        /\ \E r \in Slot : ~stream[r].open
        /\ stream' = IF call[t].info = Directory THEN stream
                     ELSE [stream EXCEPT ![s] =
                             [open |-> TRUE, writable |-> call[t].op # "openRead",
                              path |-> p, at |-> call[t].at,
                              inode |-> Inode(p), adrift |-> FALSE]]
        /\ GetInode(p)
        /\ Ends(t)
        /\ UNCHANGED <<disk, cache, raced, calls>>

\* truncate has the file open and goes on with ftruncate.
TruncateOpened(t) ==
    /\ Answered(t, {"truncate"})
    /\ GetInode(call[t].path)
    /\ cache' = Invalidated(call[t].path)
    /\ call' = [call EXCEPT ![t].op = "ftruncate", ![t].phase = "asked"]
    /\ UNCHANGED <<disk, stream, raced, calls>>

ReturnRemove(t) ==
    /\ Answered(t, {"remove"})
    /\ inodes' = RemoveInode(call[t].path)
    /\ cache' = Set(call[t].path, Absent)
    /\ Ends(t)
    /\ UNCHANGED <<disk, nextInode, stream, raced, calls>>

\* What is known below the old path is gone, the new path has what was
\* remembered, and the inode number moves.
ReturnRename(t) ==
    LET o == call[t].path
        n == call[t].to
    IN  /\ Answered(t, {"rename"})
        /\ cache' = [q \in Path |->
                       IF q = n /\ call[t].info # Unknown THEN call[t].info
                       ELSE IF q \in Below(o) /\ cache[q] # Unknown THEN Absent
                       ELSE cache[q]]
        /\ inodes' = ReassignInode(o, n)
        /\ Ends(t)
        /\ UNCHANGED <<disk, nextInode, stream, raced, calls>>

-----------------------------------------------------------------------------
(* Steps that do not release the mutex *)

\* PepperFile::write invalidates the path the file was opened with.
Write(s) ==
    LET at == stream[s].at
    IN  /\ stream[s].open /\ Counted
        /\ \/ UNCHANGED <<disk, raced>>
           \/ /\ stream[s].writable /\ Changeable(at)
              /\ Change(at)
              /\ Disturbs({p \in {at} : p # stream[s].path \/ ~Quiet(p)})
        /\ cache' = Invalidated(stream[s].path)
        /\ UNCHANGED <<numbers, stream, call>>

Close(s) ==
    /\ stream[s].open /\ Counted
    /\ stream' = [stream EXCEPT ![s] = Closed]
    /\ UNCHANGED <<disk, cache, numbers, call, raced>>

\* OnUnmounted, or the entry is the least recently used of a full cache.
Forget(p) ==
    /\ cache[p] # Unknown /\ Counted
    /\ cache' = Invalidated(p)
    /\ UNCHANGED <<disk, numbers, stream, call, raced>>

\* OnMounted of a directory.  Its query of the path is an assertion; where it is
\* compiled in and releases the mutex, the step is the part after it.
Mounted(p) ==
    /\ disk[p] = Directory /\ Counted
    /\ cache' = Set(p, Directory)
    /\ Disturbs({q \in {p} : ~Quiet(q)})
    /\ UNCHANGED <<disk, numbers, stream, call>>

-----------------------------------------------------------------------------
Starts(t) ==
    \/ \E p \in Path :
         \/ Stat(t, p) \/ Mkdir(t, p)
         \/ \E op \in {"openRead", "openWrite", "openCreate"} : Open(t, p, op)
         \/ \E op \in {"remove", "utimes", "truncate"} : Modify(t, p, op)
         \/ \E n \in Path : Rename(t, p, n)
    \/ \E s \in Slot : Ftruncate(t, s)

Pepper(t) ==
    \/ PepperFails(t) \/ PepperQueryFails(t) \/ PepperQueries(t)
    \/ PepperOpens(t) \/ PepperMakesDirectory(t) \/ PepperTouches(t)
    \/ PepperSetsLength(t) \/ PepperDeletes(t) \/ PepperRenames(t)

Returns(t) ==
    ReturnStat(t) \/ ReturnOpen(t) \/ TruncateOpened(t) \/ ReturnRemove(t) \/ ReturnRename(t)

Next ==
    \/ \E t \in Thread : Starts(t) \/ Pepper(t) \/ Returns(t)
    \/ \E s \in Slot : Write(s) \/ Close(s)
    \/ \E p \in Path : Forget(p) \/ Mounted(p)

Spec == Init /\ [][Next]_vars

-----------------------------------------------------------------------------
(* Properties *)

\* The cache tells the truth of every path no overlapping calls were about: what
\* it knows is what Pepper would say, through every sequence of creations,
\* renames of files and directories, writes and removals, and while calls about
\* other paths are under way.
CacheFresh == \A p \in Path \ raced : cache[p] \in {Unknown, disk[p]}

\* fstat and stat agree: the inode number of an open file is that of the path
\* where the file is now.
SameInode(s) ==
    LET p == stream[s].at
    IN  p # NoPath /\ Quiet(p) => inodes[p] \in {0, stream[s].inode}

\* An open file keeps its inode number through renames, unless overlapping calls
\* were about it or the directory it is in was renamed.
InodeKept == \A s \in Slot : ~stream[s].adrift /\ stream[s].at \notin raced => SameInode(s)

\* The inode number of an open file, even one that was removed, is that of no
\* other path: SQLite's locks and MemoryRegion tell files apart by it.
InodeUnique ==
    \A s \in Slot, p \in Path \ raced :
      /\ stream[s].open /\ ~stream[s].adrift /\ stream[s].at \notin raced
      /\ p # stream[s].at /\ Quiet(p)
      => inodes[p] # stream[s].inode

\* fstat, SQLite's locks and MemoryRegion can rely on the inode numbers.
InodesSound == TypeOK /\ InodeKept /\ InodeUnique
=============================================================================

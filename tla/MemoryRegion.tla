---------------------------- MODULE MemoryRegion ----------------------------
(***************************************************************************)
(* Memory mapped streams: VirtualFileSystem::mmap and munmap               *)
(* (src/posix_translation/virtual_file_system.cc), the map of regions they *)
(* keep (memory_region.cc), the shared memory device (dev_ashmem.cc),      *)
(* whose pages outlive their last munmap, and the real munmap that         *)
(* __wrap_munmap (file_wrap.cc) falls back to.                             *)
(*                                                                         *)
(* map_ has a node for the first and one for the last byte of a region,    *)
(* told apart by the parity of the address; a page is two addresses here,  *)
(* which keeps the parities.  All calls hold the VFS mutex throughout, so a *)
(* call is one step.  An assertion that fails ends the behaviour.          *)
(***************************************************************************)
EXTENDS Integers, FiniteSets, FiniteSetsExt

CONSTANTS
    Ashmem,            \* streams of /dev/ashmem
    File,              \* streams whose mmap always gives a fresh address
    NumPages,          \* size of the address space
    Sizes,             \* what ASHMEM_SET_SIZE is called with, in pages
    MaxRef,            \* bound on the mmaps of one shared region
    OsFails,           \* may ::mmap fail?
    ReusesUnmapped,    \* may callers put MAP_FIXED on memory they unmapped, or unmap
                       \* it again?
    None

ASSUME ConstantsAssumption ==
    /\ NumPages \in Nat \ {0} /\ Sizes \subseteq Nat /\ MaxRef \in Nat \ {0}
    /\ {OsFails, ReusesUnmapped} \subseteq BOOLEAN
    /\ Ashmem \cap File = {} /\ None \notin Ashmem \cup File

VARIABLES
    map_,      \* MemoryRegion::map_: a node, or NoNode, at each address
    os,        \* the operating system: the owner of each page
    opened,    \* the ashmem streams with a descriptor
    dev,       \* the fields of each DevAshmem
    count,     \* history: mmaps of the shared region minus its munmaps
    failed     \* the assertion that failed

vars == <<map_, os, opened, dev, count, failed>>

Stream == Ashmem \cup File
Page == 0 .. NumPages - 1
Addr == 0 .. 2 * NumPages - 1
NoNode == [ref |-> 0, stream |-> None]
Free == [by |-> None, kind |-> "free"]
NoContent == -1

\* A new DevAshmem
Fresh == [size |-> 0, content |-> NoContent, length |-> 0, private |-> FALSE,
          state |-> "INITIAL"]

TypeOK ==
    /\ map_ \in [Addr -> [ref : 0 .. MaxRef, stream : Stream \cup {None}]]
    /\ os \in [Page -> [by : Stream \cup {None}, kind : {"free", "shared", "private", "file"}]]
    /\ opened \subseteq Ashmem
    /\ dev \in [Ashmem -> [size : Sizes \cup {0}, content : Page \cup {NoContent},
                           length : 0 .. NumPages, private : BOOLEAN,
                           state : {"INITIAL", "MAPPED", "PARTIALLY_UNMAPPED",
                                    "UNMAP_DELAYED"}]]
    /\ count \in [Ashmem -> 0 .. MaxRef]
    /\ failed \in {"none", "initial", "partial", "fixed", "unexpected"}

Init ==
    /\ map_ = [a \in Addr |-> NoNode]
    /\ os = [p \in Page |-> Free]
    /\ opened = {} /\ dev = [s \in Ashmem |-> Fresh]
    /\ count = [s \in Ashmem |-> 0]
    /\ failed = "none"

-----------------------------------------------------------------------------
(* The map.  A region [first, last] is in pages; l pages from p on are       *)
(* Span(p, l).                                                               *)

Span(p, l) == p .. p + l - 1
StartNode(p) == 2 * p
EndNode(p) == 2 * p + 1
IsPageEndAddress(a) == a % 2 = 1

Nodes(m) == {a \in Addr : m[a] # NoNode}
StartNodes(m) == {a \in Nodes(m) : ~IsPageEndAddress(a)}
NextNode(m, a) == Min({b \in Nodes(m) : b > a})

Regions(m) ==
    LET nodes == Nodes(m)
    IN  {[first |-> a \div 2, last |-> Min({b \in nodes : b > a}) \div 2,
          ref |-> m[a].ref, stream |-> m[a].stream] :
           a \in {b \in nodes : ~IsPageEndAddress(b)}}

PagesOf(r) == r.first .. r.last

\* FindRegion: the region that is exactly Span(p, l), if any
FoundRegions(m, p, l) == {r \in Regions(m) : r.first = p /\ r.last = p + l - 1}

\* The insertions of AddFileStreamByAddr fail, or IsOverlap holds: a node lies
\* between, or two start nodes would follow each other.
IsOverlap(m, p, l) ==
    \/ \E a \in Nodes(m) : StartNode(p) <= a /\ a <= EndNode(p + l - 1)
    \/ \E a \in StartNodes(m) : a < StartNode(p) /\ NextNode(m, a) > StartNode(p)

Added(m, p, l, s) ==
    [m EXCEPT ![StartNode(p)] = [ref |-> 1, stream |-> s],
              ![EndNode(p + l - 1)] = [ref |-> 1, stream |-> s]]

\* The map after the references of the region that starts at p change
RefChanged(m, p, by) == [m EXCEPT ![StartNode(p)].ref = @ + by]

\* Mutant of RefAdded: the reference is counted twice.
RefAddedMutant(m, p) == RefChanged(m, p, 2)

\* The map after mmap of a region that is mapped already
RefAdded(m, p) == RefChanged(m, p, 1)

\* Mutant of RefDropped: munmap does not give up its reference.
RefDroppedMutant(m, p) == m

\* The map after munmap of a region that was mapped more than once
RefDropped(m, p) == RefChanged(m, p, -1)

\* The regions RemoveFileStreamsByAddr comes across
Touched(m, p, l) == {r \in Regions(m) : PagesOf(r) \cap Span(p, l) # {}}

\* Mutant of Removed: what is left after Span(p, l) gets no start node.
RemovedMutant(m, p, l) ==
    LET left == {r \in Touched(m, p, l) : r.first < p}
    IN  [a \in Addr |->
           IF a \in StartNode(p) .. EndNode(p + l - 1) THEN NoNode
           ELSE IF a = EndNode(p - 1) /\ left # {}
             THEN [ref |-> 1, stream |-> (CHOOSE r \in left : TRUE).stream]
           ELSE m[a]]

\* The map after RemoveOneRegion of each of them: what is left of a region on
\* either side of Span(p, l) gets a node of its own there.
Removed(m, p, l) ==
    LET touched == Touched(m, p, l)
        left == {r \in touched : r.first < p}
        right == {r \in touched : r.last > p + l - 1}
        Node(rs) == [ref |-> 1, stream |-> (CHOOSE r \in rs : TRUE).stream]
    IN  [a \in Addr |->
           IF a \in StartNode(p) .. EndNode(p + l - 1) THEN NoNode
           ELSE IF a = EndNode(p - 1) /\ left # {} THEN Node(left)
           ELSE IF a = StartNode(p + l) /\ right # {} THEN Node(right)
           ELSE m[a]]

-----------------------------------------------------------------------------
(* DevAshmem *)

Content(d) == IF d.content = NoContent THEN {} ELSE Span(d.content, d.length)

\* The pages pread and read copy from, up to size_ and not to the mapped length
Copied(d) ==
    IF d.content # NoContent /\ d.state \in {"MAPPED", "UNMAP_DELAYED"}
      THEN Span(d.content, d.size) ELSE {}

\* IsMapShared, of the first page
IsMapShared(d, p) == p \in Content(d)

\* The parts of the touched regions inside Span(p, l)
Clips(m, p, l) ==
    {[first |-> Max({p, r.first}), last |-> Min({p + l - 1, r.last}), stream |-> r.stream] :
       r \in Touched(m, p, l)}

SharedClips(m, p, l, s) ==
    {c \in Clips(m, p, l) : c.stream = s /\ IsMapShared(dev[s], c.first)}

IsWhole(c, d) == PagesOf(c) = Content(d) /\ d.state = "MAPPED"

\* Mutant of AfterMunmap: a part is treated like the whole region.
AfterMunmapMutant(m, p, l, s) ==
    IF SharedClips(m, p, l, s) = {} THEN dev[s].state ELSE "UNMAP_DELAYED"

\* state_ after DevAshmem::munmap of the clips: the whole region is kept until
\* the stream is destroyed.
AfterMunmap(m, p, l, s) ==
    LET shared == SharedClips(m, p, l, s)
    IN  IF shared = {} \/ dev[s].state = "UNMAP_DELAYED" THEN dev[s].state
        ELSE IF \E c \in shared : IsWhole(c, dev[s]) THEN "UNMAP_DELAYED"
        ELSE "PARTIALLY_UNMAPPED"

\* Whether munmap of the stream of a clip calls ::munmap
Unmaps(c) ==
    c.stream \in Ashmem /\ IsMapShared(dev[c.stream], c.first)
      => ~IsWhole(c, dev[c.stream]) /\ dev[c.stream].state # "UNMAP_DELAYED"

\* Mutant of Overwritten: the object does not notice.
OverwrittenMutant(m, d, p, l) == d

\* The objects after OnUnmapByOverwritingMmap of the clips
Overwritten(m, d, p, l) ==
    [s \in Ashmem |->
       IF d[s].state = "MAPPED"
          /\ \E c \in Clips(m, p, l) : c.stream = s /\ IsMapShared(d[s], c.first)
         THEN [d[s] EXCEPT !.state = "PARTIALLY_UNMAPPED"] ELSE d[s]]

-----------------------------------------------------------------------------
(* The end of a call.  A DevAshmem is destroyed when neither a descriptor    *)
(* nor a node refers to it.                                                  *)

Unreferenced(m, fds) == {s \in Ashmem \ fds : \A a \in Addr : m[a].stream # s}

\* Mutant of Destroyed: the destructor does not unmap.
DestroyedMutant(d) == {}

\* The pages ~DevAshmem unmaps
Destroyed(d) == IF d.state = "UNMAP_DELAYED" THEN Content(d) ELSE {}

Ends(m, pages, fds, d) ==
    LET dead == Unreferenced(m, fds)
    IN  /\ map_' = m /\ opened' = fds
        /\ dev' = [s \in Ashmem |-> IF s \in dead THEN Fresh ELSE d[s]]
        /\ os' = [p \in Page |->
                    IF \E s \in dead : p \in Destroyed(d[s]) THEN Free ELSE pages[p]]
        /\ UNCHANGED failed

Fails(why) ==
    /\ failed' = why
    /\ UNCHANGED <<map_, os, opened, dev, count>>

\* Pages that are mapped, but in no region
DelayedPages ==
    {p \in Page : os[p] # Free} \ UNION {PagesOf(r) : r \in Regions(map_)}

\* Where the operating system can map l pages
Mappable(p, l, fixed) ==
    /\ Span(p, l) \subseteq Page
    /\ ~fixed => \A q \in Span(p, l) : os[q] = Free
    /\ fixed /\ ~ReusesUnmapped => Span(p, l) \cap DelayedPages = {}

\* VirtualFileSystem::mmap after stream->mmap has returned page p: with
\* MAP_FIXED the old regions go, then the new one is added.  pages and d are the
\* pages and the objects after stream->mmap.
Registers(s, p, l, fixed, pages, d) ==
    LET same == FoundRegions(map_, p, l)
        old == IF fixed THEN Touched(map_, p, l) ELSE {}
        m == IF fixed THEN Removed(map_, p, l) ELSE map_
        d1 == IF fixed THEN Overwritten(map_, d, p, l) ELSE d
    IN  \/ /\ fixed /\ \E r \in old : r.ref > 1
           /\ Fails(IF same # {} THEN "fixed" ELSE "partial")
        \/ /\ \A r \in old : r.ref = 1
           /\ FoundRegions(m, p, l) = {}
           /\ IF IsOverlap(m, p, l) THEN Fails("unexpected")
              ELSE Ends(Added(m, p, l, s), pages, opened, d1)
        \/ /\ ~fixed /\ same # {}
           /\ IF \E r \in same : s \notin Ashmem \/ r.stream \notin Ashmem
                THEN Fails("unexpected")
                ELSE Ends(RefAdded(m, p), pages, opened, d1)

Mapped(p, l, s, kind) ==
    [q \in Page |-> IF q \in Span(p, l) THEN [by |-> s, kind |-> kind] ELSE os[q]]

-----------------------------------------------------------------------------
Running == failed = "none"

Open(s) ==
    /\ Running /\ s \notin opened /\ dev[s] = Fresh /\ count[s] = 0
    /\ opened' = opened \cup {s}
    /\ UNCHANGED <<map_, os, dev, count, failed>>

\* ASHMEM_SET_SIZE
SetSize(s, n) ==
    /\ Running /\ s \in opened
    /\ dev[s].state = "INITIAL" /\ ~dev[s].private
    /\ dev' = [dev EXCEPT ![s].size = n]
    /\ UNCHANGED <<map_, os, opened, count, failed>>

Close(s) ==
    /\ Running /\ s \in opened
    /\ Ends(map_, os, opened \ {s}, dev)
    /\ count' = IF s \in Unreferenced(map_, opened \ {s}) THEN [count EXCEPT ![s] = 0]
                ELSE count

\* mmap of a file, or of anonymous memory
MmapFile(s, p, l, fixed) ==
    /\ Running /\ Mappable(p, l, fixed)
    /\ Registers(s, p, l, fixed, Mapped(p, l, s, "file"), dev)
    /\ UNCHANGED count

\* mmap of ashmem without MAP_SHARED
MmapPrivate(s, p, l, fixed) ==
    /\ Running /\ s \in opened /\ dev[s].size > 0 /\ Mappable(p, l, fixed)
    /\ Registers(s, p, l, fixed, Mapped(p, l, s, "private"),
                 [dev EXCEPT ![s].private = TRUE])
    /\ UNCHANGED count

\* The first mmap of ashmem with MAP_SHARED chooses the address.
MmapShared(s, p, l, fixed) ==
    /\ Running /\ s \in opened /\ dev[s].size > 0 /\ dev[s].content = NoContent
    /\ Mappable(p, l, fixed)
    /\ IF dev[s].state # "INITIAL" THEN Fails("initial")
       ELSE /\ Registers(s, p, l, fixed, Mapped(p, l, s, "shared"),
                         [dev EXCEPT ![s].content = p, ![s].length = l,
                                     ![s].state = "MAPPED"])
            /\ count' = IF failed' = "none" THEN [count EXCEPT ![s] = 1] ELSE count

\* ::mmap fails: the object has no content, but its state has changed.
MmapSharedFails(s, l) ==
    /\ Running /\ OsFails /\ s \in opened /\ dev[s].size > 0
    /\ dev[s].content = NoContent
    /\ IF dev[s].state # "INITIAL" THEN Fails("initial")
       ELSE /\ dev' = [dev EXCEPT ![s].length = l, ![s].state = "MAPPED"]
            /\ UNCHANGED <<map_, os, opened, count, failed>>

\* Later ones return the same address.
MmapSharedAgain(s, fixed) ==
    LET p == dev[s].content
        l == dev[s].length
    IN  /\ Running /\ s \in opened /\ p # NoContent
        /\ dev[s].state # "PARTIALLY_UNMAPPED" /\ count[s] < MaxRef
        /\ fixed /\ ~ReusesUnmapped => dev[s].state # "UNMAP_DELAYED"
        /\ Registers(s, p, l, fixed, os, [dev EXCEPT ![s].state = "MAPPED"])
        /\ count' = IF failed' = "none" /\ ~fixed THEN [count EXCEPT ![s] = @ + 1]
                    ELSE count

\* munmap: one mapping less of a region that was mapped more than once, or the
\* regions go.
Munmap(p, l) ==
    LET same == FoundRegions(map_, p, l)
        touched == Touched(map_, p, l)
        unmapped == UNION {PagesOf(c) : c \in {d \in Clips(map_, p, l) : Unmaps(d)}}
    IN  /\ Running /\ Span(p, l) \subseteq Page /\ touched # {}
        /\ \/ /\ \E r \in same : r.ref > 1
              /\ Ends(RefDropped(map_, p), os, opened, dev)
              /\ count' = [s \in Ashmem |->
                             IF \E r \in same : r.stream = s THEN count[s] - 1 ELSE count[s]]
           \/ /\ ~\E r \in same : r.ref > 1
              /\ \E r \in touched : r.ref > 1
              /\ Fails("partial")
           \/ /\ \A r \in touched : r.ref = 1
              /\ Ends(Removed(map_, p, l),
                      [q \in Page |-> IF q \in unmapped THEN Free ELSE os[q]],
                      opened,
                      [s \in Ashmem |-> [dev[s] EXCEPT !.state = AfterMunmap(map_, p, l, s)]])
              /\ count' = [s \in Ashmem |->
                             IF SharedClips(map_, p, l, s) # {} THEN 0 ELSE count[s]]

\* munmap where no region is: MemoryRegion returns ENOSYS, and __wrap_munmap calls
\* the real munmap, which takes away what an ashmem stream keeps there.
MunmapFallback(p, l) ==
    /\ Running /\ Span(p, l) \subseteq Page /\ Touched(map_, p, l) = {}
    /\ ~ReusesUnmapped => Span(p, l) \cap DelayedPages = {}
    /\ os' = [q \in Page |-> IF q \in Span(p, l) THEN Free ELSE os[q]]
    /\ UNCHANGED <<map_, opened, dev, count, failed>>

Next ==
    \/ \E s \in Ashmem :
         \/ Open(s) \/ Close(s)
         \/ \E n \in Sizes : SetSize(s, n)
         \/ \E l \in 1 .. NumPages : MmapSharedFails(s, l)
    \/ \E fixed \in BOOLEAN :
         \/ \E s \in Ashmem : MmapSharedAgain(s, fixed)
         \/ \E p \in Page, l \in 1 .. NumPages :
              \/ \E s \in Ashmem : MmapPrivate(s, p, l, fixed) \/ MmapShared(s, p, l, fixed)
              \/ \E s \in File : MmapFile(s, p, l, fixed)
    \/ \E p \in Page, l \in 1 .. NumPages : Munmap(p, l) \/ MunmapFallback(p, l)

Spec == Init /\ [][Next]_vars

-----------------------------------------------------------------------------
(* Properties *)

\* Start and end nodes alternate and both nodes of a region name its stream: the
\* loops over map_ rely on it, through every split and overwriting.
WellFormed ==
    \A a \in Nodes(map_) :
      LET later == {b \in Nodes(map_) : b > a}
          partner == Min(later)
      IN  IF IsPageEndAddress(a)
            THEN later # {} => ~IsPageEndAddress(partner)
            ELSE /\ later # {}
                 /\ IsPageEndAddress(partner)
                 /\ map_[partner].stream = map_[a].stream

\* map_ says of every page whose it is, as the operating system has it; only the
\* pages that an ashmem stream keeps after its last munmap are in no region, and
\* none outlives its stream.
MapMatchesPages ==
    /\ \A r \in Regions(map_) : \A p \in PagesOf(r) : os[p].by = r.stream
    /\ \A p \in DelayedPages :
         \E s \in Ashmem : dev[s].state = "UNMAP_DELAYED" /\ p \in Content(dev[s])

\* Through every mapping, overwriting, split and failure, map_ can be walked and
\* names the owner of every page.
MapSound == TypeOK /\ WellFormed /\ MapMatchesPages

\* Every page pread copies from is still the shared memory of this stream, not
\* unmapped and not mapped by anybody else since, or it is past the end of a
\* mapping that is shorter than size_: there pread goes on into whatever follows.
ReadsOwnPages ==
    \A s \in opened : \A p \in Copied(dev[s]) :
      p \in Content(dev[s]) => os[p] = [by |-> s, kind |-> "shared"]

\* As long as the caller has mappings of the whole shared memory, it is one
\* region with as many references.
RefCountExact ==
    \A s \in Ashmem :
      count[s] > 0 /\ dev[s].state = "MAPPED" =>
        \E r \in Regions(map_) :
          PagesOf(r) = Content(dev[s]) /\ r.stream = s /\ r.ref = count[s]

\* No assertion fails but those against calls that are said to be unsupported
\* (parts of memory mapped several times, MAP_FIXED onto it), and that of a
\* second mmap after ::mmap failed.
NoAssertFails == failed # "unexpected"
=============================================================================

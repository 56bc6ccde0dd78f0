-------------------------- MODULE PepperFileProofs --------------------------
(***************************************************************************)
(* The caches in front of the Pepper file system tell the truth, for any   *)
(* paths, threads and files.  What PepperFileCache knows of a path that no *)
(* overlapping calls were about is what Pepper would say, and the inode    *)
(* numbers of open files are those of their paths (PepperFile).  No        *)
(* interleaving of preopens with the calls that invalidate a path leaves a *)
(* stale entry of it in the preopen cache, and the iterator of the preopen *)
(* thread is valid until a pending entry is invalidated (Preopen).         *)
(***************************************************************************)
EXTENDS PepperFile, Preopen, SequenceTheorems, WellFoundedInduction, TLAPS

-----------------------------------------------------------------------------
(* The invariant *)

PathOrNone == Path \cup {NoPath}
Call == [op : Ops \cup {"idle"}, path : PathOrNone, to : PathOrNone, at : PathOrNone,
         phase : {"none", "asked", "ok"}, info : Info \cup {Unknown}]
Stream == [open : BOOLEAN, writable : BOOLEAN, path : PathOrNone, at : PathOrNone,
           inode : 0 .. MaxInode, adrift : BOOLEAN]

Opens == {"openRead", "openWrite", "openCreate"}

\* A call under way is about a path, a rename about two.
CallSound(c) ==
    \/ c = Idle
    \/ /\ c.op \in Ops /\ c.path \in Path /\ c.phase \in {"asked", "ok"}
       /\ IF c.op = "rename" THEN c.to \in Path /\ c.to # c.path ELSE c.to = NoPath
StreamSound(f) == IF f.open THEN f.path \in Path /\ f.inode # 0 ELSE f = Closed

Typed ==
    /\ TypeOK /\ call \in [Thread -> Call]
    /\ \A t \in Thread : CallSound(call[t])
    /\ \A s \in Slot : StreamSound(stream[s]) /\ stream[s].inode < nextInode

\* Calls that overlap, one of them changing something, are about raced paths.
OverlapRaced ==
    \A t, u \in Thread :
      \/ t = u
      \/ ReadsOnly(call[t].op) /\ ReadsOnly(call[u].op)
      \/ Concerns(call[t]) \cap Concerns(call[u]) \subseteq raced

\* A rename under way is about raced paths only or about none.
RenamesWhole ==
    \A t \in Thread :
      call[t].op = "rename" =>
        Concerns(call[t]) \subseteq raced \/ Concerns(call[t]) \cap raced = {}

RacedSound == OverlapRaced /\ RenamesWhole

\* The paths of which a call under way has invalidated the entries.
Touched(c) ==
    IF c.op = "idle" \/ ReadsOnly(c.op) THEN {}
    ELSE IF c.op = "rename" THEN Concerns(c) ELSE {c.path}

\* Nothing puts an entry back while the call is under way.
TouchedUnknown ==
    \A t \in Thread : \A p \in Touched(call[t]) \ raced : cache[p] = Unknown

\* What a call has learnt of its path, or done to it, is still so.
Learnt(c) ==
    /\ c.op = "stat" /\ c.phase = "ok" /\ c.path \notin raced => c.info = disk[c.path]
    /\ c.op = "remove" /\ c.phase = "ok" /\ c.path \notin raced => disk[c.path] = Absent
    /\ c.op = "rename" /\ c.info # Unknown /\ c.path \notin raced =>
         c.info = disk[IF c.phase = "ok" THEN c.to ELSE c.path]
LearntTrue == \A t \in Thread : Learnt(call[t])

CacheSound == CacheFresh /\ TouchedUnknown /\ LearntTrue

\* What exists is in a directory; open files and those being opened exist.
TreeSound == \A p \in Path : disk[p] # Absent => InDirectory(p)
Exists(p) == p # NoPath => disk[p] # Absent
FilesExist ==
    /\ \A s \in Slot : Exists(stream[s].at)
    /\ \A t \in Thread : Exists(call[t].at)

\* No two paths have one number.
Injective == \A p, q \in Path : inodes[p] = inodes[q] /\ inodes[p] # 0 => p = q

\* A call has removed or renamed the file; its inode numbers are still to follow.
Removed(t, p) == call[t].op = "remove" /\ call[t].phase = "ok" /\ call[t].path = p
Moving(t, o, n) ==
    /\ call[t].op = "rename" /\ call[t].phase = "ok"
    /\ call[t].path = o /\ call[t].to = n
Leaving(p) ==
    \E t \in Thread : Removed(t, p) \/ \E q \in Path : (Moving(t, p, q) \/ Moving(t, q, p))

\* A file that is being opened is where it was found, or its path is raced.
OpenedThere ==
    \A t \in Thread :
      call[t].op \in Opens /\ call[t].phase = "ok" /\ call[t].at # call[t].path =>
        call[t].path \in raced /\ call[t].at \in raced \cup {NoPath}

\* The open files whose numbers can be relied on.
Steady(s) == stream[s].open /\ ~stream[s].adrift

\* The number of an open file is at the path where the file is, or, while a
\* rename is about to follow it, at the path it had before.
NumberAt ==
    \A s \in Slot, p \in Path \ raced :
      Steady(s) /\ stream[s].at = p =>
        \/ /\ inodes[p] = stream[s].inode
           /\ \A t \in Thread, o \in Path : ~Moving(t, o, p)
        \/ \E t \in Thread, o \in Path : Moving(t, o, p) /\ inodes[o] = stream[s].inode

\* It is nowhere else, but where a call is about to take it from.
NumberOnly ==
    \A s \in Slot, p \in Path \ raced :
      Steady(s) /\ inodes[p] = stream[s].inode => p = stream[s].at \/ Leaving(p)

\* No open file is at the path that a file has just left.
LeftBehind ==
    \A t \in Thread, s \in Slot, p \in Path \ raced :
      (Removed(t, p) \/ \E n \in Path : Moving(t, p, n)) => stream[s].at # p

\* The number that a rename is about to take along is that of the file it moved.
TakenAlong ==
    \A t \in Thread, s \in Slot, o, n \in Path \ raced :
      Moving(t, o, n) /\ Steady(s) /\ inodes[o] = stream[s].inode => stream[s].at = n

NumbersSound ==
    /\ Injective /\ OpenedThere /\ NumberAt /\ NumberOnly /\ LeftBehind /\ TakenAlong

\* The inductive invariant.
Inv == Typed /\ RacedSound /\ CacheSound /\ TreeSound /\ FilesExist /\ NumbersSound

-----------------------------------------------------------------------------
(* Paths *)

\* The directory of a path.
Parent(p) == <<p[1]>>

\* A path is a name or a name in a directory.
LEMMA PathLength ==
  /\ NoPath \notin Path
  /\ \A p \in Path : p # NoPath /\ Len(p) \in {1, 2} /\ p[1] \in Name
<1>1. ASSUME NEW p \in Path PROVE p # NoPath /\ Len(p) \in {1, 2} /\ p[1] \in Name
  BY DEF Path, NoPath
<1> QED BY <1>1

LEMMA PathShape ==
  ASSUME NEW p \in Path
  PROVE  \/ Len(p) = 1 /\ p = Parent(p)
         \/ Len(p) = 2 /\ p[2] \in Leaf /\ p = <<p[1], p[2]>>
  BY DEF Path, Parent

LEMMA ParentFacts ==
  ASSUME NEW p \in Path
  PROVE  Parent(p) \in Path /\ Len(Parent(p)) = 1 /\ Parent(p)[1] = p[1]
  BY DEF Path, Parent

LEMMA FirstOfTwo ==
  ASSUME NEW a, NEW b
  PROVE  SubSeq(<<a, b>>, 1, 1) = <<a>>
<1> DEFINE s == <<a, b>>
<1>1. s \in Seq({a, b}) /\ Len(s) = 2 /\ s[1] = a
  OBVIOUS
<1> HIDE DEF s
<1>2. SubSeq(s, 1, 1) = [i \in 1 .. 1 |-> s[i]]
  BY <1>1
<1>3. <<a>> = [i \in 1 .. 1 |-> a]
  OBVIOUS
<1>4. SubSeq(s, 1, 1) = [i \in 1 .. 1 |-> a]
  BY <1>1, <1>2
<1> QED BY <1>3, <1>4 DEF s

\* What is below a path.
LEMMA BelowFacts ==
  ASSUME NEW p \in Path, NEW q \in Path
  PROVE  /\ q \in Below(p) <=> Len(q) = 2 /\ p = Parent(q)
         /\ q \in Below(p) => Len(p) = 1 /\ q # p /\ Below(q) = {}
<1>0. /\ Len(p) \in {1, 2} /\ Len(q) \in {1, 2} /\ \A r \in Path : Len(r) \in {1, 2}
      /\ p = Parent(q) => Len(p) = 1
  BY PathLength, ParentFacts
<1>1. CASE Len(q) = 2 /\ Len(p) = 1
  <2>1. SubSeq(q, 1, 1) = Parent(q)
    <3>1. q = <<q[1], q[2]>>
      BY <1>1, PathShape
    <3> QED BY <3>1, FirstOfTwo DEF Parent
  <2>2. q \in Below(p) <=> p = Parent(q)
    BY <1>1, <2>1 DEF Below
  <2>3. Below(q) = {}
    <3> SUFFICES ASSUME NEW r \in Below(q) PROVE FALSE
      OBVIOUS
    <3>1. r \in Path /\ Len(r) > Len(q)
      BY DEF Below
    <3>2. Len(r) = 1 \/ Len(r) = 2
      BY <3>1, PathLength
    <3>3. ~(1 > 2) /\ ~(2 > 2)
      OBVIOUS
    <3> QED BY <1>1, <3>1, <3>2, <3>3, Zenon
  <2> QED BY <1>1, <2>2, <2>3
<1>2. CASE ~(Len(q) = 2 /\ Len(p) = 1)
  <2>1. q \notin Below(p)
    BY <1>0, <1>2 DEF Below
  <2>2. ~(Len(q) = 2 /\ p = Parent(q))
    BY <1>0, <1>2
  <2> QED BY <2>1, <2>2
<1> QED BY <1>1, <1>2

LEMMA AtOrBelowFacts ==
  ASSUME NEW p \in Path
  PROVE  /\ p \in AtOrBelow(p) /\ AtOrBelow(p) \subseteq Path /\ Below(p) \subseteq AtOrBelow(p)
         /\ p \notin Below(p) /\ Below(p) \subseteq Path /\ NoPath \notin AtOrBelow(p)
         /\ \A q \in AtOrBelow(p) : q = p \/ q \in Below(p)
<1>1. Below(p) \subseteq Path
  BY DEF Below
<1>2. p \notin Below(p) /\ p # NoPath /\ NoPath \notin Path
  BY BelowFacts, PathLength
<1> QED BY <1>1, <1>2 DEF AtOrBelow

LEMMA PathSeq == Path \subseteq Seq(Name \cup Leaf)
<1> SUFFICES ASSUME NEW p \in Path PROVE p \in Seq(Name \cup Leaf)
  OBVIOUS
<1>1. CASE \E n \in Name : p = <<n>>
  BY <1>1
<1>2. CASE \E n \in Name, m \in Leaf : p = <<n, m>>
  BY <1>2
<1> QED BY <1>1, <1>2 DEF Path

LEMMA Joined ==
  ASSUME NEW a, NEW b
  PROVE  <<a>> \o <<b>> = <<a, b>>
<1> DEFINE s == <<a>>
           r == <<b>>
<1>1. s \in Seq({a, b}) /\ r \in Seq({a, b}) /\ Len(s) = 1 /\ Len(r) = 1 /\ s[1] = a /\ r[1] = b
  OBVIOUS
<1> HIDE DEF s, r
<1>2. PICK w \in Seq({a, b}) : w = s \o r
  BY <1>1, ConcatProperties
<1>3. Len(w) = 2 /\ w[1] = a /\ w[2] = b
  BY <1>1, <1>2, ConcatProperties
<1>4. w = <<a, b>>
  BY <1>3
<1> QED BY <1>2, <1>4 DEF s, r

LEMMA SecondOfTwo ==
  ASSUME NEW a, NEW b
  PROVE  SubSeq(<<a, b>>, 2, 2) = <<b>>
<1> DEFINE s == <<a, b>>
<1>1. s \in Seq({a, b}) /\ Len(s) = 2 /\ s[2] = b
  OBVIOUS
<1> HIDE DEF s
<1>2. SubSeq(s, 2, 2) = [i \in 1 .. 1 |-> s[i + 1]]
  BY <1>1
<1>3. <<b>> = [i \in 1 .. 1 |-> b]
  OBVIOUS
<1>4. SubSeq(s, 2, 2) = [i \in 1 .. 1 |-> b]
  BY <1>1, <1>2
<1> QED BY <1>3, <1>4 DEF s

\* A path whose prefix is replaced.
LEMMA RebasedFacts ==
  ASSUME NEW o \in Path, NEW n \in Path
  PROVE  /\ Rebased(o, o, n) = n
         /\ \A q \in Below(o) :
              /\ Len(n) = 1 => /\ Rebased(q, o, n) \in Below(n)
                               /\ Rebased(Rebased(q, o, n), n, o) = q
              /\ Len(n) = 2 => Rebased(q, o, n) \notin Path
<1>1. Rebased(o, o, n) = n
  <2>1. o \in Seq(Name \cup Leaf) /\ n \in Seq(Name \cup Leaf)
    BY PathSeq
  <2>2. SubSeq(o, Len(o) + 1, Len(o)) = << >>
    BY <2>1
  <2> QED BY <2>1, <2>2 DEF Rebased
<1>2. ASSUME NEW q \in Below(o), NEW r \in Path
      PROVE  Rebased(q, o, r) = r \o <<q[2]>>
  <2>1. q \in Path /\ Len(o) = 1 /\ Len(q) = 2 /\ q = <<q[1], q[2]>>
    <3>1. q \in Path
      BY AtOrBelowFacts
    <3>2. Len(q) = 2 /\ Len(o) = 1
      BY <3>1, BelowFacts
    <3> QED BY <3>1, <3>2, PathShape
  <2>2. SubSeq(q, 2, 2) = <<q[2]>>
    BY <2>1, SecondOfTwo
  <2>3. Len(o) + 1 = 2
    BY <2>1
  <2> QED BY <2>1, <2>2, <2>3 DEF Rebased
<1>3. ASSUME NEW q \in Below(o), Len(n) = 1
      PROVE  /\ Rebased(q, o, n) \in Below(n)
             /\ Rebased(Rebased(q, o, n), n, o) = q
  <2>1. q \in Path /\ Len(q) = 2 /\ q[2] \in Leaf /\ q = <<q[1], q[2]>> /\ o = <<q[1]>>
    <3>1. q \in Path
      BY AtOrBelowFacts
    <3>2. Len(q) = 2 /\ o = <<q[1]>>
      BY <3>1, BelowFacts DEF Parent
    <3> QED BY <3>1, <3>2, PathShape
  <2>2. PICK c \in Name : n = <<c>>
    BY <1>3, PathShape, PathLength DEF Parent
  <2> DEFINE r == <<c, q[2]>>
  <2>3. n \o <<q[2]>> = r
    BY <2>2, Joined
  <2>4. Rebased(q, o, n) = r
    BY <1>2, <2>3
  <2>5. r \in Path /\ Len(r) = 2 /\ r[1] = c /\ r[2] = q[2]
    BY <2>1, <2>2 DEF Path
  <2>6. r \in Below(n)
    BY <2>2, <2>5, BelowFacts DEF Parent
  <2>7. Rebased(r, n, o) = o \o <<q[2]>>
    <3>1. SubSeq(r, 2, 2) = <<q[2]>>
      BY SecondOfTwo
    <3>2. Len(n) + 1 = 2
      BY <1>3
    <3> QED BY <2>5, <3>1, <3>2 DEF Rebased
  <2>8. o \o <<q[2]>> = q
    BY <2>1
  <2> QED BY <2>4, <2>6, <2>7, <2>8
<1>4. ASSUME NEW q \in Below(o), Len(n) = 2
      PROVE  Rebased(q, o, n) \notin Path
  <2>1. Rebased(q, o, n) = n \o <<q[2]>>
    BY <1>2
  <2>2. n \in Seq(Name \cup Leaf) /\ q[2] \in Leaf
    <3>1. q \in Path
      BY AtOrBelowFacts
    <3>2. Len(q) = 2
      BY <3>1, BelowFacts
    <3> QED BY <3>1, <3>2, PathShape, PathSeq
  <2>3. Len(n \o <<q[2]>>) = 3
    <3> DEFINE s == <<q[2]>>
    <3>1. s \in Seq(Name \cup Leaf) /\ Len(s) = 1
      BY <2>2
    <3> HIDE DEF s
    <3>2. Len(n \o s) = Len(n) + Len(s)
      BY <2>2, <3>1, ConcatProperties
    <3>3. Len(n) + Len(s) = 3
      BY <1>4, <3>1
    <3> QED BY <3>2, <3>3 DEF s
  <2>4. \A p \in Path : Len(p) # 3
    BY PathLength
  <2> QED BY <2>1, <2>3, <2>4
<1> QED BY <1>1, <1>3, <1>4

\* What Pepper may say of a path.
LEMMA InfoFacts ==
  /\ Absent \in Info /\ Directory \in Info /\ File(0) \in Info
  /\ Absent # Directory /\ File(0) # Absent /\ File(0) # Directory
  /\ Unknown \notin Info /\ Absent.is # "file" /\ Directory.is # "file"
<1>1. Absent \in Info /\ Directory \in Info
  BY DEF Info
<1>2. File(0) \in Info
  BY ConstantsAssumption DEF Info
<1>3. /\ Absent # Directory /\ File(0) # Absent /\ File(0) # Directory
      /\ Absent.is # "file" /\ Directory.is # "file"
  BY DEF Absent, Directory, File
<1>4. Unknown \notin Info
  BY DEF Unknown, Info, Absent, Directory, File
<1> QED BY <1>1, <1>2, <1>3, <1>4

\* A path in a directory, where the directory is Parent(p).
LEMMA InDirectoryFacts ==
  \A p : /\ InDirectory(p) <=> Len(p) = 1 \/ disk[Parent(p)] = Directory
         /\ InDirectory(p)' <=> Len(p) = 1 \/ disk'[Parent(p)] = Directory
  BY DEF InDirectory, Parent

\* Pepper renames o to n: the tree stays a tree and files go where Moved says.
LEMMA RenameFacts ==
  ASSUME disk \in [Path -> Info], TreeSound, NEW o \in Path, NEW n \in Path, CanRename(o, n),
         disk' = Renamed(o, n)
  PROVE  /\ disk' \in [Path -> Info] /\ disk'[n] = disk[o] /\ TreeSound'
         /\ \A p \in Path : p \notin AtOrBelow(o) /\ p \notin AtOrBelow(n) => disk'[p] = disk[p]
         /\ \A p \in Below(n) : disk[p] = Absent
         /\ \A p \in Path : disk[p] # Absent =>
              /\ p = o => Moved(o, n, p) = n
              /\ p \in Below(o) => Moved(o, n, p) \in Below(n)
              /\ p = n => Moved(o, n, p) = NoPath
              /\ p \notin AtOrBelow(o) /\ p \notin AtOrBelow(n) => Moved(o, n, p) = p
              /\ Moved(o, n, p) \in PathOrNone
              /\ Moved(o, n, p) # NoPath => disk'[Moved(o, n, p)] # Absent
<1>0. /\ disk[o] # Absent /\ InDirectory(n) /\ n \notin AtOrBelow(o)
      /\ disk[n] # Absent => disk[n].is = disk[o].is /\ IsEmpty(n)
      /\ Len(n) > Len(o) => IsEmpty(o)
  BY DEF CanRename
<1>1. /\ \A p \in Path : Len(p) = 1 \/ Len(p) = 2
      /\ \A p \in Path, q \in Path : q \in Below(p) <=> Len(q) = 2 /\ p = Parent(q)
  BY PathLength, BelowFacts
<1>2. \A p \in Path : disk[p] # Absent /\ Len(p) = 2 => disk[Parent(p)] = Directory
  <2> TAKE p \in Path
  <2>1. HAVE disk[p] # Absent /\ Len(p) = 2
  <2>2. InDirectory(p)
    BY <2>1 DEF TreeSound
  <2> QED BY <2>1, <2>2, InDirectoryFacts
<1>3. \A p \in Below(n) : disk[p] = Absent
  <2> SUFFICES ASSUME NEW p \in Below(n), disk[p] # Absent PROVE FALSE
    OBVIOUS
  <2>1. p \in Path /\ Len(p) = 2 /\ n = Parent(p)
    BY <1>1, AtOrBelowFacts
  <2>2. disk[n] = Directory
    BY <1>2, <2>1
  <2> QED BY <1>0, <2>2, InfoFacts DEF IsEmpty
<1>4. \A q \in Below(o) : disk[q] # Absent => Len(n) = 1
  <2> SUFFICES ASSUME NEW q \in Below(o), disk[q] # Absent, Len(n) = 2 PROVE FALSE
    BY <1>1
  <2>1. Len(o) = 1
    BY AtOrBelowFacts, BelowFacts
  <2>2. 2 > 1
    OBVIOUS
  <2>3. IsEmpty(o)
    BY <1>0, <2>1, <2>2
  <2> QED BY <2>3 DEF IsEmpty
<1>5. \A p \in Path : disk'[p] =
        IF p \in AtOrBelow(n)
          THEN IF Rebased(p, n, o) \in Path THEN disk[Rebased(p, n, o)] ELSE Absent
          ELSE IF p \in AtOrBelow(o) THEN Absent ELSE disk[p]
  BY DEF Renamed, TreeRenamed
<1>6. disk' \in [Path -> Info]
  BY InfoFacts DEF Renamed, TreeRenamed
<1>7. disk'[n] = disk[o]
  BY <1>5, RebasedFacts, AtOrBelowFacts
<1>8. \A p \in Path : p \notin AtOrBelow(o) /\ p \notin AtOrBelow(n) => disk'[p] = disk[p]
  BY <1>5
<1>9. ASSUME NEW p \in Path, disk'[p] # Absent PROVE InDirectory(p)'
  <2>0. Parent(p) \in Path /\ Len(Parent(p)) = 1 /\ (Len(p) = 1 \/ Len(p) = 2)
    BY <1>1, ParentFacts
  <2> SUFFICES ASSUME Len(p) = 2 PROVE disk'[Parent(p)] = Directory
    BY <2>0, InDirectoryFacts
  <2>1. \A q \in Path : Parent(p) # q => Parent(p) \notin AtOrBelow(q)
    BY <1>1, <2>0, AtOrBelowFacts
  <2>2. CASE p = n
    <3>1. disk[Parent(p)] = Directory
      BY <1>0, <2>2, InDirectoryFacts
    <3>2. Parent(p) # n
      BY <2>0, <2>2
    <3>3. Parent(p) # o
      BY <1>0, <1>1, <2>2 DEF AtOrBelow
    <3> QED BY <1>8, <2>0, <2>1, <3>1, <3>2, <3>3
  <2>3. CASE p \in Below(n)
    <3>1. n = Parent(p) /\ Len(n) = 1
      BY <1>1, <2>0, <2>3
    <3>2. Rebased(p, n, o) \in Path /\ disk[Rebased(p, n, o)] # Absent
      BY <1>5, <1>9, <2>3, AtOrBelowFacts
    <3>3. Len(o) = 1
      BY <1>1, <2>3, <3>2, RebasedFacts
    <3>4. Rebased(p, n, o) \in Below(o)
      BY <2>3, <3>3, RebasedFacts
    <3>5. disk[o] = Directory
      BY <1>1, <1>2, <3>2, <3>4
    <3> QED BY <1>7, <3>1, <3>5
  <2>4. CASE p \notin AtOrBelow(n)
    <3>1. p \notin AtOrBelow(o) /\ disk'[p] = disk[p]
      BY <1>5, <1>9, <2>4
    <3>2. disk[Parent(p)] = Directory
      BY <1>2, <1>9, <3>1
    <3>3. Parent(p) # o /\ Parent(p) # n
      BY <1>1, <2>4, <3>1 DEF AtOrBelow
    <3> QED BY <1>8, <2>0, <2>1, <3>2, <3>3
  <2> QED BY <2>2, <2>3, <2>4, AtOrBelowFacts
<1>10. ASSUME NEW p \in Path, disk[p] # Absent
       PROVE  /\ p = o => Moved(o, n, p) = n
              /\ p \in Below(o) => Moved(o, n, p) \in Below(n)
              /\ p = n => Moved(o, n, p) = NoPath
              /\ p \notin AtOrBelow(o) /\ p \notin AtOrBelow(n) => Moved(o, n, p) = p
              /\ Moved(o, n, p) \in PathOrNone
              /\ Moved(o, n, p) # NoPath => disk'[Moved(o, n, p)] # Absent
  <2>1. CASE p = o
    <3>1. Moved(o, n, p) = n
      BY <2>1, RebasedFacts, AtOrBelowFacts DEF Moved
    <3> QED BY <1>0, <1>7, <2>1, <3>1, AtOrBelowFacts DEF PathOrNone
  <2>2. CASE p \in Below(o)
    <3>1. Moved(o, n, p) = Rebased(p, o, n) /\ Len(n) = 1
      BY <1>4, <1>10, <2>2, AtOrBelowFacts DEF Moved
    <3>2. Rebased(p, o, n) \in Below(n) /\ Rebased(Rebased(p, o, n), n, o) = p
      BY <2>2, <3>1, RebasedFacts
    <3>3. Rebased(p, o, n) \in Path /\ Rebased(p, o, n) \in AtOrBelow(n)
      BY <3>2, AtOrBelowFacts
    <3>4. disk'[Rebased(p, o, n)] = disk[p]
      BY <1>5, <3>2, <3>3
    <3> QED BY <1>0, <1>10, <2>2, <3>1, <3>2, <3>3, <3>4, AtOrBelowFacts DEF PathOrNone
  <2>3. CASE p \notin AtOrBelow(o) /\ p \in AtOrBelow(n)
    <3>1. Moved(o, n, p) = NoPath
      BY <2>3 DEF Moved
    <3> QED BY <2>3, <3>1, AtOrBelowFacts DEF PathOrNone
  <2>4. CASE p \notin AtOrBelow(o) /\ p \notin AtOrBelow(n)
    <3>1. Moved(o, n, p) = p
      BY <2>4 DEF Moved
    <3> QED BY <1>8, <1>10, <2>4, <3>1, AtOrBelowFacts DEF PathOrNone
  <2> QED BY <2>1, <2>2, <2>3, <2>4, AtOrBelowFacts
<1>11. TreeSound'
  BY <1>9 DEF TreeSound
<1> QED BY <1>3, <1>6, <1>7, <1>8, <1>10, <1>11

-----------------------------------------------------------------------------
(* Calls and the paths they are about *)

\* What every step uses of the types.
LEMMA Types ==
  ASSUME Typed
  PROVE  /\ disk \in [Path -> Info] /\ cache \in [Path -> Info \cup {Unknown}]
         /\ inodes \in [Path -> 0 .. MaxInode] /\ nextInode \in 1 .. MaxInode + 1
         /\ \A p \in Path : inodes[p] < nextInode
         /\ stream \in [Slot -> Stream] /\ call \in [Thread -> Call]
         /\ \A t \in Thread : call[t] \in Call /\ CallSound(call[t])
         /\ \A s \in Slot : /\ stream[s] \in Stream /\ StreamSound(stream[s])
                            /\ stream[s].inode \in Nat /\ stream[s].inode < nextInode
                            /\ stream[s].at \in PathOrNone
         /\ calls \in 0 .. MaxCalls /\ raced \subseteq Path
<1>1. stream \in [Slot -> Stream]
  BY DEF Typed, TypeOK, Stream, PathOrNone
<1>2. \A s \in Slot : stream[s] \in Stream /\ stream[s].inode \in Nat /\ stream[s].at \in PathOrNone
  BY <1>1 DEF Stream
<1>3. \A t \in Thread : call[t] \in Call
  BY DEF Typed
<1>4. /\ disk \in [Path -> Info] /\ cache \in [Path -> Info \cup {Unknown}]
      /\ inodes \in [Path -> 0 .. MaxInode] /\ nextInode \in 1 .. MaxInode + 1
      /\ \A p \in Path : inodes[p] < nextInode
      /\ calls \in 0 .. MaxCalls /\ raced \subseteq Path
  BY DEF Typed, TypeOK
<1> QED BY <1>1, <1>2, <1>3, <1>4 DEF Typed

\* The same facts in the next state make the next state typed.
LEMMA TypedNext ==
  ASSUME disk' \in [Path -> Info], cache' \in [Path -> Info \cup {Unknown}],
         inodes' \in [Path -> 0 .. MaxInode], nextInode' \in 1 .. MaxInode + 1,
         \A p \in Path : inodes'[p] < nextInode',
         stream' \in [Slot -> Stream], call' \in [Thread -> Call],
         \A t \in Thread : CallSound(call'[t]),
         \A s \in Slot : StreamSound(stream'[s]) /\ stream'[s].inode < nextInode',
         calls' \in 0 .. MaxCalls, raced' \subseteq Path
  PROVE  Typed'
<1>1. ASSUME NEW t \in Thread
      PROVE  /\ call'[t].op \in Ops \cup {"idle"}
             /\ {call'[t].path, call'[t].to, call'[t].at} \subseteq Path \cup {NoPath}
             /\ call'[t].phase \in {"none", "asked", "ok"}
             /\ call'[t].info \in Info \cup {Unknown}
  <2>1. call'[t] \in Call
    OBVIOUS
  <2> QED BY <2>1 DEF Call, PathOrNone
<1>2. TypeOK'
  BY <1>1 DEF TypeOK, Stream, PathOrNone
<1> QED BY <1>2 DEF Typed, CallSound, StreamSound, PathOrNone, Call, Stream

\* A thread that is in no call.
LEMMA IdleFacts ==
  /\ Idle \in Call /\ CallSound(Idle) /\ Idle.op = "idle" /\ Idle.path = NoPath
  /\ Idle.to = NoPath /\ Idle.at = NoPath /\ Idle.phase = "none" /\ Idle.info = Unknown
  /\ ~ReadsOnly("idle") /\ "idle" \notin Ops
<1>1. Idle \in Call
  BY DEF Idle, Call, PathOrNone
<1> QED BY <1>1 DEF Idle, CallSound, ReadsOnly, Ops

LEMMA ConcernsFacts ==
  ASSUME NEW c \in Call, CallSound(c)
  PROVE  /\ Concerns(c) \subseteq Path
         /\ c = Idle => Concerns(c) = {}
         /\ c # Idle => c.path \in Path /\ c.path \in Concerns(c) /\ c.op \in Ops
         /\ c.op = "rename" => /\ c.to \in Path /\ c.to \in Concerns(c)
                               /\ Concerns(c) = AtOrBelow(c.path) \cup AtOrBelow(c.to)
         /\ c # Idle /\ c.op # "rename" => Concerns(c) = AtOrBelow(c.path)
         /\ Touched(c) \subseteq Concerns(c)
         /\ c # Idle /\ ~ReadsOnly(c.op) => c.path \in Touched(c)
         /\ Touched(c) # {} => ~ReadsOnly(c.op)
<1>1. CASE c = Idle
  <2>1. Concerns(c) = {}
    BY <1>1, IdleFacts DEF Concerns
  <2> QED BY <1>1, <2>1, IdleFacts DEF Touched
<1>2. CASE c # Idle
  <2>1. /\ c.op \in Ops /\ c.path \in Path
        /\ IF c.op = "rename" THEN c.to \in Path /\ c.to # c.path ELSE c.to = NoPath
    BY <1>2 DEF CallSound
  <2> c.op # "idle"
    BY <2>1, IdleFacts
  <2>2. CASE c.op = "rename"
    <3>1. {c.path, c.to} \ {NoPath} = {c.path, c.to}
      BY <2>1, <2>2, PathLength
    <3>2. Concerns(c) = AtOrBelow(c.path) \cup AtOrBelow(c.to)
      BY <3>1 DEF Concerns
    <3>3. ~ReadsOnly(c.op)
      BY <2>2 DEF ReadsOnly
    <3> QED BY <1>2, <2>1, <2>2, <3>2, <3>3, AtOrBelowFacts DEF Touched
  <2>3. CASE c.op # "rename"
    <3>1. {c.path, c.to} \ {NoPath} = {c.path}
      BY <2>1, <2>3, PathLength
    <3>2. Concerns(c) = AtOrBelow(c.path)
      BY <3>1 DEF Concerns
    <3> QED BY <1>2, <2>1, <2>3, <3>2, AtOrBelowFacts DEF Touched
  <2> QED BY <2>2, <2>3
<1> QED BY <1>1, <1>2

\* Two calls, one of which changes something, meet at raced paths only.
LEMMA Meet ==
  ASSUME RacedSound, NEW t \in Thread, NEW u \in Thread, t # u,
         ~ReadsOnly(call[t].op) \/ ~ReadsOnly(call[u].op),
         NEW p \in Concerns(call[t]), p \in Concerns(call[u])
  PROVE  p \in raced
  BY DEF RacedSound, OverlapRaced

\* A call that goes on with the same paths, or ends.
GoesOn(c, d) ==
    \/ d = Idle
    \/ /\ d.path = c.path /\ d.to = c.to
       /\ d.op = c.op \/ {c.op, d.op} \subseteq {"truncate", "ftruncate"}

LEMMA GoesOnFacts ==
  ASSUME NEW c, NEW d, GoesOn(c, d)
  PROVE  /\ Concerns(d) \subseteq Concerns(c)
         /\ ReadsOnly(c.op) => ReadsOnly(d.op) \/ Concerns(d) = {}
         /\ d.op = "rename" => c.op = "rename" /\ Concerns(d) = Concerns(c)
<1>1. CASE d = Idle
  BY <1>1, IdleFacts, ConcernsFacts
<1>2. CASE d # Idle
  <2>1. Concerns(d) = Concerns(c)
    BY <1>2 DEF GoesOn, Concerns
  <2> QED BY <1>2, <2>1 DEF GoesOn, ReadsOnly
<1> QED BY <1>1, <1>2

LEMMA RacedKept ==
  ASSUME RacedSound, raced' = raced, \A u \in Thread : GoesOn(call[u], call'[u])
  PROVE  RacedSound'
<1>1. ASSUME NEW u \in Thread
      PROVE  /\ Concerns(call[u])' \subseteq Concerns(call[u])
             /\ ReadsOnly(call[u].op) => ReadsOnly(call'[u].op) \/ Concerns(call[u])' = {}
             /\ call'[u].op = "rename" =>
                  call[u].op = "rename" /\ Concerns(call[u])' = Concerns(call[u])
  <2>1. Concerns(call[u])' = Concerns(call'[u])
    BY DEF Concerns
  <2> QED BY <2>1, GoesOnFacts
<1>2. OverlapRaced'
  <2> SUFFICES ASSUME NEW t \in Thread, NEW u \in Thread, t # u,
                      ~(ReadsOnly(call'[t].op) /\ ReadsOnly(call'[u].op)),
                      NEW p \in Concerns(call[t])', p \in Concerns(call[u])'
               PROVE  p \in raced
    BY DEF OverlapRaced, ReadsOnly
  <2>1. p \in Concerns(call[t]) /\ p \in Concerns(call[u])
    BY <1>1
  <2>2. ~ReadsOnly(call[t].op) \/ ~ReadsOnly(call[u].op)
    BY <1>1
  <2> QED BY <2>1, <2>2, Meet
<1>3. RenamesWhole'
  BY <1>1 DEF RacedSound, RenamesWhole
<1> QED BY <1>2, <1>3 DEF RacedSound

\* raced grows to P and what the renames of the calls d spread it to.
Spreads(P, d, cs) ==
    /\ P \subseteq Path /\ raced \subseteq P
    /\ \A u \in Thread : d[u] \in Call /\ CallSound(d[u]) /\ d[u] \in cs
    /\ \A c \in cs : c = Idle \/ \E u \in Thread : c = d[u]
    /\ \A t, u \in Thread : \/ t = u
                            \/ ReadsOnly(d[t].op) /\ ReadsOnly(d[u].op)
                            \/ Concerns(d[t]) \cap Concerns(d[u]) \subseteq P
    /\ \A u \in Thread : GoesOn(d[u], call'[u])

LEMMA RacedSpread ==
  ASSUME NEW P, NEW d, NEW cs, Spreads(P, d, cs), raced' = Spread(P, cs)
  PROVE  RacedSound' /\ raced \subseteq raced' /\ P \subseteq raced' /\ raced' \subseteq Path
<1>0. /\ P \subseteq Path /\ raced \subseteq P
      /\ \A u \in Thread : d[u] \in Call /\ CallSound(d[u]) /\ d[u] \in cs
      /\ \A c \in cs : c = Idle \/ \E u \in Thread : c = d[u]
      /\ \A t, u \in Thread : \/ t = u
                              \/ ReadsOnly(d[t].op) /\ ReadsOnly(d[u].op)
                              \/ Concerns(d[t]) \cap Concerns(d[u]) \subseteq P
      /\ \A u \in Thread : GoesOn(d[u], call'[u])
  BY DEF Spreads
<1>1. P \subseteq raced' /\ raced \subseteq raced'
  BY <1>0 DEF Spread
<1>2. ASSUME NEW p \in raced', p \notin P
      PROVE  \E u \in Thread : /\ d[u].op = "rename" /\ p \in Concerns(d[u])
                               /\ Concerns(d[u]) \cap P # {}
  <2>1. PICK c \in cs : c.op = "rename" /\ Concerns(c) \cap P # {} /\ p \in Concerns(c)
    BY <1>0, <1>2 DEF Spread
  <2>2. c # Idle
    BY <2>1, IdleFacts
  <2> QED BY <1>0, <2>1, <2>2
<1>3. raced' \subseteq Path
  BY <1>0, <1>2, ConcernsFacts
<1>4. ASSUME NEW u \in Thread, d[u].op = "rename", Concerns(d[u]) \cap raced' # {}
      PROVE  Concerns(d[u]) \subseteq raced'
  <2>1. PICK p \in Concerns(d[u]) : p \in raced'
    BY <1>4
  <2>2. Concerns(d[u]) \cap P # {}
    <3>1. CASE p \in P
      BY <3>1
    <3>2. CASE p \notin P
      <4>1. PICK t \in Thread : /\ d[t].op = "rename" /\ p \in Concerns(d[t])
                                /\ Concerns(d[t]) \cap P # {}
        BY <1>2, <2>1, <3>2
      <4>2. CASE t = u
        BY <4>1, <4>2
      <4>3. CASE t # u
        <5>1. ~ReadsOnly(d[u].op)
          BY <1>4 DEF ReadsOnly
        <5>2. Concerns(d[t]) \cap Concerns(d[u]) \subseteq P
          BY <1>0, <4>3, <5>1
        <5> QED BY <3>2, <4>1, <5>2
      <4> QED BY <4>2, <4>3
    <3> QED BY <3>1, <3>2
  <2> QED BY <1>0, <1>4, <2>2 DEF Spread
<1>5. ASSUME NEW u \in Thread
      PROVE  /\ Concerns(call[u])' \subseteq Concerns(d[u])
             /\ ReadsOnly(d[u].op) => ReadsOnly(call'[u].op) \/ Concerns(call[u])' = {}
             /\ call'[u].op = "rename" =>
                  d[u].op = "rename" /\ Concerns(call[u])' = Concerns(d[u])
  <2>1. Concerns(call[u])' = Concerns(call'[u])
    BY DEF Concerns
  <2> QED BY <1>0, <2>1, GoesOnFacts
<1>6. OverlapRaced'
  <2> SUFFICES ASSUME NEW t \in Thread, NEW u \in Thread, t # u,
                      ~(ReadsOnly(call'[t].op) /\ ReadsOnly(call'[u].op)),
                      NEW p \in Concerns(call[t])', p \in Concerns(call[u])'
               PROVE  p \in raced'
    BY DEF OverlapRaced, ReadsOnly
  <2>1. p \in Concerns(d[t]) /\ p \in Concerns(d[u])
    BY <1>5
  <2>2. ~(ReadsOnly(d[t].op) /\ ReadsOnly(d[u].op))
    BY <1>5
  <2> QED BY <1>0, <1>1, <2>1, <2>2
<1>7. RenamesWhole'
  <2> SUFFICES ASSUME NEW u \in Thread, call'[u].op = "rename"
               PROVE  \/ Concerns(call[u])' \subseteq raced'
                      \/ Concerns(call[u])' \cap raced' = {}
    BY DEF RenamesWhole
  <2> QED BY <1>4, <1>5
<1> QED BY <1>1, <1>3, <1>6, <1>7 DEF RacedSound

-----------------------------------------------------------------------------
(* The cache *)

\* A call that only its file moves under.
SameCall(c, d) ==
    d.op = c.op /\ d.path = c.path /\ d.to = c.to /\ d.phase = c.phase /\ d.info = c.info

\* What a call has learnt stays true while its paths are left alone.
LEMMA LearntKept ==
  ASSUME Typed, RacedSound', LearntTrue, raced \subseteq raced', NEW u \in Thread,
         SameCall(call[u], call'[u]),
         \A p \in Concerns(call[u]) \ raced' : disk'[p] = disk[p]
  PROVE  Learnt(call[u])'
<1>1. call[u] \in Call /\ CallSound(call[u]) /\ Learnt(call[u])
  BY Types DEF LearntTrue
<1>2. /\ call'[u].op = call[u].op /\ call'[u].path = call[u].path /\ call'[u].to = call[u].to
      /\ call'[u].phase = call[u].phase /\ call'[u].info = call[u].info
  BY DEF SameCall
<1>3. CASE call[u] = Idle
  BY <1>2, <1>3, IdleFacts DEF Learnt
<1>4. CASE call[u] # Idle
  <2>1. call[u].path \in Concerns(call[u])
    BY <1>1, <1>4, ConcernsFacts
  <2>2. ASSUME call[u].op = "rename", call[u].path \notin raced'
        PROVE  call[u].to \in Concerns(call[u]) \ raced'
    <3>1. call[u].to \in Concerns(call[u])
      BY <1>1, <2>2, ConcernsFacts
    <3>2. Concerns(call[u])' = Concerns(call[u])
      BY <1>2 DEF Concerns
    <3>3. Concerns(call[u])' \subseteq raced' \/ Concerns(call[u])' \cap raced' = {}
      BY <1>2, <2>2 DEF RacedSound, RenamesWhole
    <3> QED BY <2>1, <2>2, <3>1, <3>2, <3>3
  <2> QED BY <1>1, <1>2, <2>1, <2>2 DEF Learnt
<1> QED BY <1>3, <1>4

\* A step of thread t: what it changes on disk its call has invalidated, and
\* what it puts into the cache is about its own paths.
LEMMA CacheActs ==
  ASSUME Typed, RacedSound, RacedSound', CacheSound, raced \subseteq raced', NEW t \in Thread,
         \A u \in Thread \ {t} : SameCall(call[u], call'[u]),
         \A p \in Path \ raced' : disk'[p] = disk[p] \/ p \in Touched(call[t]),
         \A p \in Path \ raced' : \/ cache'[p] \in {Unknown, cache[p]}
                                  \/ cache'[p] = disk'[p] /\ p \in Concerns(call[t]),
         Learnt(call[t])',
         \A p \in Touched(call'[t]) \ raced' : cache'[p] = Unknown
  PROVE  CacheSound'
<1>1. \A u \in Thread : call[u] \in Call /\ CallSound(call[u])
  BY Types
<1>2. \A u \in Thread : /\ Concerns(call[u]) \subseteq Path
                        /\ Touched(call[u]) \subseteq Concerns(call[u])
                        /\ Touched(call[u]) # {} => ~ReadsOnly(call[u].op)
  BY <1>1, ConcernsFacts
<1>3. CacheFresh'
  <2> SUFFICES ASSUME NEW p \in Path \ raced' PROVE cache'[p] \in {Unknown, disk'[p]}
    BY DEF CacheFresh
  <2>1. cache[p] \in {Unknown, disk[p]}
    BY DEF CacheSound, CacheFresh
  <2>2. p \in Touched(call[t]) => cache[p] = Unknown
    BY DEF CacheSound, TouchedUnknown
  <2> QED BY <2>1, <2>2
<1>4. ASSUME NEW u \in Thread \ {t}, NEW p \in Concerns(call[u]) \ raced'
      PROVE  disk'[p] = disk[p]
  <2> SUFFICES ASSUME p \in Touched(call[t]) PROVE FALSE
    BY <1>2
  <2>1. p \in Concerns(call[t]) /\ ~ReadsOnly(call[t].op)
    BY <1>2
  <2> QED BY <1>4, <2>1, Meet
<1>5. ASSUME NEW u \in Thread \ {t}, NEW p \in Touched(call'[u]) \ raced'
      PROVE  cache'[p] = Unknown
  <2>1. Touched(call'[u]) = Touched(call[u])
    BY DEF Touched, SameCall, Concerns
  <2>2. cache[p] = Unknown /\ p \in Concerns(call[u]) /\ ~ReadsOnly(call[u].op) /\ p \in Path
    BY <1>2, <1>5, <2>1 DEF CacheSound, TouchedUnknown
  <2>3. p \notin Concerns(call[t])
    BY <1>5, <2>2, Meet
  <2> QED BY <1>5, <2>2, <2>3
<1>6. TouchedUnknown'
  <2> SUFFICES ASSUME NEW u \in Thread, NEW p \in Touched(call'[u]) \ raced'
               PROVE  cache'[p] = Unknown
    BY DEF TouchedUnknown, Touched, Concerns
  <2> QED BY <1>5
<1>7. LearntTrue'
  <2> SUFFICES ASSUME NEW u \in Thread PROVE Learnt(call[u])'
    BY DEF LearntTrue
  <2>1. CASE u = t
    BY <2>1
  <2>2. CASE u # t
    BY <1>4, <2>2, LearntKept DEF CacheSound
  <2> QED BY <2>1, <2>2
<1> QED BY <1>3, <1>6, <1>7 DEF CacheSound

\* A step of no call: what it changes no call is about.
LEMMA CacheQuiet ==
  ASSUME Typed, RacedSound', CacheSound, raced \subseteq raced', call' = call,
         \A p \in Path \ raced' :
           \/ disk'[p] = disk[p] /\ cache'[p] \in {Unknown, cache[p]}
           \/ Quiet(p) /\ cache'[p] \in {Unknown, disk'[p]}
  PROVE  CacheSound'
<1>1. \A u \in Thread : call[u] \in Call /\ CallSound(call[u])
  BY Types
<1>2. \A u \in Thread : /\ Concerns(call[u]) \subseteq Path
                        /\ Touched(call[u]) \subseteq Concerns(call[u])
  BY <1>1, ConcernsFacts
<1>3. CacheFresh'
  BY DEF CacheSound, CacheFresh
<1>4. TouchedUnknown'
  <2> SUFFICES ASSUME NEW u \in Thread, NEW p \in Touched(call[u]) \ raced'
               PROVE  cache'[p] = Unknown
    BY DEF TouchedUnknown, Touched, Concerns
  <2>1. cache[p] = Unknown /\ p \in Path /\ ~Quiet(p)
    BY <1>2 DEF CacheSound, TouchedUnknown, Quiet
  <2> QED BY <2>1
<1>5. LearntTrue'
  <2> SUFFICES ASSUME NEW u \in Thread PROVE Learnt(call[u])'
    BY DEF LearntTrue
  <2>1. \A p \in Concerns(call[u]) \ raced' : disk'[p] = disk[p]
    BY <1>2 DEF Quiet
  <2>2. SameCall(call[u], call'[u])
    BY DEF SameCall
  <2> QED BY <2>1, <2>2, LearntKept DEF CacheSound
<1> QED BY <1>3, <1>4, <1>5 DEF CacheSound

-----------------------------------------------------------------------------
(* The tree and the files *)

\* No directory goes and what is new is in a directory.
LEMMA TreeKept ==
  ASSUME TreeSound,
         \A p \in Path : disk'[p] # Absent => disk[p] # Absent \/ InDirectory(p),
         \A p \in Path : disk[p] = Directory => disk'[p] = Directory
  PROVE  TreeSound'
<1> SUFFICES ASSUME NEW p \in Path, disk'[p] # Absent PROVE InDirectory(p)'
  BY DEF TreeSound
<1>1. InDirectory(p)
  BY DEF TreeSound
<1>2. Parent(p) \in Path
  BY ParentFacts
<1> QED BY <1>1, <1>2, InDirectoryFacts

\* Pepper changes the size or time of the file at p.
LEMMA ChangeFacts ==
  ASSUME disk \in [Path -> Info], NEW p \in PathOrNone, Changeable(p), Change(p)
  PROVE  /\ p \in Path /\ disk' \in [Path -> Info]
         /\ \A q \in Path : q # p => disk'[q] = disk[q]
         /\ \A q \in Path : disk[q] # Absent => disk'[q] # Absent
         /\ \A q \in Path : disk'[q] # Absent => disk[q] # Absent
         /\ \A q \in Path : disk[q] = Directory => disk'[q] = Directory
<1>1. p \in Path /\ disk[p].is = "file" /\ disk[p].version < MaxVersion
  BY DEF Changeable, PathOrNone
<1>2. PICK v \in 0 .. MaxVersion : disk[p] = File(v)
  <2>1. disk[p] \in Info
    BY <1>1
  <2> QED BY <1>1, <2>1, InfoFacts DEF Info
<1>3. v < MaxVersion
  BY <1>1, <1>2 DEF File
<1>4. disk' = [disk EXCEPT ![p] = File(v + 1)]
  <2>1. [disk[p] EXCEPT !.version = @ + 1] = File(v + 1)
    BY <1>2 DEF File
  <2>2. disk' = [disk EXCEPT ![p] = [disk[p] EXCEPT !.version = @ + 1]]
    BY DEF Change
  <2> QED BY <2>1, <2>2
<1>5. File(v + 1) \in Info
  BY <1>3, ConstantsAssumption DEF Info
<1>6. /\ File(v + 1) # Absent /\ File(v + 1) # Directory
      /\ File(v) # Absent /\ File(v) # Directory
  BY DEF File, Absent, Directory
<1> QED BY <1>1, <1>2, <1>4, <1>5, <1>6

\* Files that exist go on existing.
LEMMA FilesKept ==
  ASSUME FilesExist, Typed,
         \A p \in Path : disk[p] # Absent => disk'[p] # Absent,
         \A s \in Slot : \/ stream'[s].at \in {NoPath, stream[s].at}
                         \/ \E t \in Thread : stream'[s].at = call[t].at,
         \A t \in Thread : \/ call'[t].at \in {NoPath, call[t].at}
                           \/ \E s \in Slot : call'[t].at = stream[s].at
                           \/ call'[t].at \in Path /\ disk'[call'[t].at] # Absent
  PROVE  FilesExist'
<1>1. \A s \in Slot : stream[s].at \in PathOrNone
  BY Types
<1>2. \A t \in Thread : call[t].at \in PathOrNone
  <2>1. \A t \in Thread : call[t] \in Call
    BY Types
  <2> QED BY <2>1 DEF Call
<1>3. ASSUME NEW p \in PathOrNone, Exists(p)
      PROVE  p # NoPath => disk'[p] # Absent
  BY <1>3 DEF Exists, PathOrNone
<1>4. ASSUME NEW s \in Slot PROVE stream'[s].at # NoPath => disk'[stream'[s].at] # Absent
  BY <1>1, <1>2, <1>3 DEF FilesExist
<1>5. ASSUME NEW t \in Thread PROVE call'[t].at # NoPath => disk'[call'[t].at] # Absent
  BY <1>1, <1>2, <1>3 DEF FilesExist
<1> QED BY <1>4, <1>5 DEF FilesExist, Exists

-----------------------------------------------------------------------------
(* The inode numbers *)

\* A call whose file is gone from its path and whose numbers are to follow.
Leaves(c) == c.phase = "ok" /\ c.op \in {"remove", "rename"}

\* A call that stays where it is, or does not concern the numbers.
Proceeds(c, d) ==
    \/ d.op = c.op /\ d.path = c.path /\ d.to = c.to /\ d.at = c.at /\ d.phase = c.phase
    \/ /\ ~Leaves(c) /\ ~Leaves(d)
       /\ d.op \in Opens /\ d.phase = "ok" => d.at = d.path

\* The paths of a call that leaves.
LEMMA LeaverFacts ==
  ASSUME Typed, RacedSound, NEW u \in Thread
  PROVE  /\ \A p : Removed(u, p) => p \in Concerns(call[u]) /\ ~ReadsOnly(call[u].op)
         /\ \A o, n : Moving(u, o, n) =>
              /\ o \in Concerns(call[u]) /\ n \in Concerns(call[u]) /\ ~ReadsOnly(call[u].op)
              /\ o \in raced <=> n \in raced
<1>1. call[u] \in Call /\ CallSound(call[u])
  BY Types
<1>2. /\ call[u] # Idle => call[u].path \in Concerns(call[u])
      /\ call[u].op = "rename" => call[u].to \in Concerns(call[u])
  BY <1>1, ConcernsFacts
<1>3. call[u].op \in {"remove", "rename"} => call[u] # Idle /\ ~ReadsOnly(call[u].op)
  BY IdleFacts DEF ReadsOnly
<1>4. \A o, n : Moving(u, o, n) => (o \in raced <=> n \in raced)
  BY <1>2, <1>3 DEF Moving, RacedSound, RenamesWhole
<1> QED BY <1>2, <1>3, <1>4 DEF Removed, Moving

\* Who leaves in the next state.
LEMMA LeaversKept ==
  ASSUME NEW u \in Thread, Proceeds(call[u], call'[u])
  PROVE  /\ \A p : Removed(u, p)' <=> Removed(u, p)
         /\ \A o, n : Moving(u, o, n)' <=> Moving(u, o, n)
  BY DEF Proceeds, Leaves, Removed, Moving

\* A file that is opened gets the number of the path p, where it is.
Opened(s, p) ==
    /\ stream'[s].open /\ stream'[s].inode = inodes'[p] /\ inodes'[p] # 0
    /\ p \notin raced' => stream'[s].at = p
    /\ stream'[s].at \in Path \ raced' => stream'[s].at = p
    /\ p \notin raced' => \A u \in Thread :
         ~Removed(u, p)' /\ \A q : ~Moving(u, q, p)' /\ ~Moving(u, p, q)'

\* p gets a number, if it has none; files are opened there, or closed.
LEMMA NumbersGrow ==
  ASSUME Typed, NumbersSound, raced \subseteq raced', NEW p \in Path,
         \A x \in Path : \/ inodes'[x] = inodes[x]
                         \/ x = p /\ inodes[x] = 0 /\ inodes'[x] = nextInode,
         \A s \in Slot : stream'[s] = stream[s] \/ stream'[s] = Closed \/ Opened(s, p),
         \A u \in Thread : Proceeds(call[u], call'[u])
  PROVE  NumbersSound'
<1>1. /\ \A x \in Path : inodes[x] \in Nat /\ inodes[x] < nextInode
      /\ nextInode \in Nat /\ nextInode # 0
      /\ \A s \in Slot : stream[s].inode \in Nat /\ stream[s].inode < nextInode
      /\ \A s \in Slot : stream[s].open => stream[s].inode # 0
  BY Types, ConstantsAssumption DEF StreamSound
<1>2. \A u \in Thread : /\ \A x : Removed(u, x)' <=> Removed(u, x)
                        /\ \A o, n : Moving(u, o, n)' <=> Moving(u, o, n)
  BY LeaversKept
<1>3. Injective'
  <2> SUFFICES ASSUME NEW x \in Path, NEW y \in Path, inodes'[x] = inodes'[y], inodes'[x] # 0
               PROVE  x = y
    BY DEF Injective
  <2> QED BY <1>1 DEF NumbersSound, Injective
<1>4. \A x : Leaving(x)' <=> Leaving(x)
  BY <1>2 DEF Leaving
<1>5. OpenedThere'
  <2> SUFFICES ASSUME NEW u \in Thread, call'[u].op \in Opens, call'[u].phase = "ok",
                      call'[u].at # call'[u].path
               PROVE  call'[u].path \in raced' /\ call'[u].at \in raced' \cup {NoPath}
    BY DEF OpenedThere
  <2>1. call'[u].op = call[u].op /\ call'[u].path = call[u].path /\ call'[u].at = call[u].at
        /\ call'[u].phase = call[u].phase
    BY DEF Proceeds
  <2> QED BY <2>1 DEF NumbersSound, OpenedThere
<1>6. ASSUME NEW s \in Slot, Steady(s)', ~Opened(s, p)
      PROVE  stream'[s] = stream[s] /\ Steady(s) /\ stream[s].inode # 0
  BY <1>1, <1>6 DEF Steady, Closed
<1>7. NumberAt'
  <2> SUFFICES ASSUME NEW s \in Slot, NEW q \in Path \ raced', Steady(s)', stream'[s].at = q
               PROVE  \/ /\ inodes'[q] = stream'[s].inode
                         /\ \A t \in Thread, o \in Path : ~Moving(t, o, q)'
                      \/ \E t \in Thread, o \in Path :
                           Moving(t, o, q)' /\ inodes'[o] = stream'[s].inode
    BY DEF NumberAt
  <2>1. CASE Opened(s, p)
    BY <2>1 DEF Opened
  <2>2. CASE ~Opened(s, p)
    <3>1. stream'[s] = stream[s] /\ Steady(s) /\ stream[s].inode # 0
      BY <1>6, <2>2
    <3>2. \A x \in Path : inodes[x] = stream[s].inode => inodes'[x] = stream[s].inode
      BY <1>1, <3>1
    <3> QED BY <1>2, <3>1, <3>2 DEF NumbersSound, NumberAt
  <2> QED BY <2>1, <2>2
<1>8. NumberOnly'
  <2> SUFFICES ASSUME NEW s \in Slot, NEW x \in Path \ raced', Steady(s)',
                      inodes'[x] = stream'[s].inode
               PROVE  x = stream'[s].at \/ Leaving(x)'
    BY DEF NumberOnly
  <2>1. CASE Opened(s, p)
    <3>1. x = p
      BY <1>3, <2>1 DEF Opened, Injective
    <3> QED BY <2>1, <3>1 DEF Opened
  <2>2. CASE ~Opened(s, p)
    <3>1. stream'[s] = stream[s] /\ Steady(s)
      BY <1>6, <2>2
    <3>2. inodes[x] = stream[s].inode
      BY <1>1, <3>1
    <3> QED BY <1>4, <3>1, <3>2 DEF NumbersSound, NumberOnly
  <2> QED BY <2>1, <2>2
<1>9. LeftBehind'
  <2> SUFFICES ASSUME NEW t \in Thread, NEW s \in Slot, NEW x \in Path \ raced',
                      Removed(t, x)' \/ \E n \in Path : Moving(t, x, n)'
               PROVE  stream'[s].at # x
    BY DEF LeftBehind
  <2>1. stream[s].at # x
    BY <1>2 DEF NumbersSound, LeftBehind
  <2>2. CASE Opened(s, p)
    BY <2>2 DEF Opened
  <2>3. CASE stream'[s] = Closed
    BY <2>3, PathLength DEF Closed
  <2> QED BY <2>1, <2>2, <2>3
<1>10. TakenAlong'
  <2> SUFFICES ASSUME NEW t \in Thread, NEW s \in Slot, NEW o \in Path \ raced',
                      NEW n \in Path \ raced', Moving(t, o, n)', Steady(s)',
                      inodes'[o] = stream'[s].inode
               PROVE  stream'[s].at = n
    BY DEF TakenAlong
  <2>1. CASE Opened(s, p)
    <3>1. o = p
      BY <1>3, <2>1 DEF Opened, Injective
    <3> QED BY <2>1, <3>1 DEF Opened
  <2>2. CASE ~Opened(s, p)
    <3>1. stream'[s] = stream[s] /\ Steady(s)
      BY <1>6, <2>2
    <3>2. inodes[o] = stream[s].inode
      BY <1>1, <3>1
    <3> QED BY <1>2, <3>1, <3>2 DEF NumbersSound, TakenAlong
  <2> QED BY <2>1, <2>2
<1> QED BY <1>3, <1>5, <1>7, <1>8, <1>9, <1>10 DEF NumbersSound

\* Pepper has done the remove or rename of t: what the files do.
LEMMA NumbersFollow ==
  ASSUME Typed, RacedSound, NumbersSound, raced' = raced, inodes' = inodes, NEW t \in Thread,
         call[t].op \in {"remove", "rename"}, call[t].phase = "asked",
         call'[t].op = call[t].op, call'[t].path = call[t].path, call'[t].to = call[t].to,
         call'[t].phase = "ok",
         \A u \in Thread \ {t} :
           /\ SameCall(call[u], call'[u])
           /\ \/ call'[u].at = call[u].at
              \/ /\ call[u].at \in Concerns(call[t])
                 /\ \/ call'[u].at = NoPath
                    \/ call[t].op = "rename" /\ call'[u].at \in Concerns(call[t]),
         \A s \in Slot :
           /\ stream'[s].open = stream[s].open /\ stream'[s].inode = stream[s].inode
           /\ Steady(s)' => Steady(s)
           /\ \/ stream'[s].at = stream[s].at /\ stream[s].at \notin Concerns(call[t])
              \/ /\ stream'[s].at = NoPath
                 /\ stream[s].at = IF call[t].op = "rename" THEN call[t].to ELSE call[t].path
              \/ /\ call[t].op = "rename" /\ stream[s].at = call[t].path
                 /\ stream'[s].at = call[t].to
              \/ ~Steady(s)' /\ stream'[s].at \in Concerns(call[t]) \ {call[t].path}
  PROVE  NumbersSound'
<1> DEFINE o == call[t].path
           n == call[t].to
<1>0. call[t] \in Call /\ CallSound(call[t])
  BY Types
<1>1. /\ call[t] # Idle /\ ~ReadsOnly(call[t].op) /\ Concerns(call[t]) \subseteq Path
      /\ o \in Path /\ o \in Concerns(call[t]) /\ NoPath \notin Path
      /\ call[t].op = "rename" => n \in Path /\ n \in Concerns(call[t]) /\ n # o
  <2>1. call[t] # Idle /\ ~ReadsOnly(call[t].op)
    BY IdleFacts DEF ReadsOnly
  <2>2. call[t].op = "rename" => n # o
    BY <1>0, <2>1 DEF CallSound
  <2> QED BY <1>0, <2>1, <2>2, ConcernsFacts, PathLength
<1>2. \A p : ~Removed(t, p) /\ \A q : ~Moving(t, p, q)
  BY DEF Removed, Moving
<1>3. \A u \in Thread \ {t} : /\ \A p : Removed(u, p)' <=> Removed(u, p)
                              /\ \A p, q : Moving(u, p, q)' <=> Moving(u, p, q)
  BY DEF Removed, Moving, SameCall
<1>4. /\ \A p : Removed(t, p)' <=> call[t].op = "remove" /\ p = o
      /\ \A p, q : Moving(t, p, q)' <=> call[t].op = "rename" /\ p = o /\ q = n
  BY DEF Removed, Moving
<1>5. ASSUME NEW p, Leaving(p) PROVE Leaving(p)'
  <2>1. PICK u \in Thread : Removed(u, p) \/ \E q \in Path : (Moving(u, p, q) \/ Moving(u, q, p))
    BY <1>5 DEF Leaving
  <2>2. u # t
    BY <1>2, <2>1
  <2>3. Removed(u, p)' \/ \E q \in Path : (Moving(u, p, q)' \/ Moving(u, q, p)')
    BY <1>3, <2>1, <2>2
  <2> QED BY <2>3 DEF Leaving
<1>6. ASSUME NEW u \in Thread, NEW p \in Concerns(call[t]) \ raced
      PROVE  ~Removed(u, p) /\ \A q : ~Moving(u, p, q) /\ ~Moving(u, q, p)
  <2>1. CASE u = t
    BY <1>2, <2>1
  <2>2. CASE u # t
    <3>1. p \notin Concerns(call[u])
      BY <1>1, <1>6, <2>2, Meet
    <3> QED BY <3>1, LeaverFacts
  <2> QED BY <2>1, <2>2
<1>7. Injective'
  BY DEF NumbersSound, Injective
<1>8. OpenedThere'
  <2> SUFFICES ASSUME NEW u \in Thread, call'[u].op \in Opens, call'[u].phase = "ok",
                      call'[u].at # call'[u].path
               PROVE  call'[u].path \in raced /\ call'[u].at \in raced \cup {NoPath}
    BY DEF OpenedThere
  <2>1. u # t
    BY DEF Opens
  <2>2. call'[u].op = call[u].op /\ call'[u].path = call[u].path /\ call'[u].phase = call[u].phase
    BY <2>1 DEF SameCall
  <2>3. CASE call'[u].at = call[u].at
    BY <2>2, <2>3 DEF NumbersSound, OpenedThere
  <2>4. CASE call'[u].at # call[u].at
    <3>1. /\ call[u].at \in Concerns(call[t])
          /\ call'[u].at = NoPath \/ (call[t].op = "rename" /\ call'[u].at \in Concerns(call[t]))
      BY <2>1, <2>4
    <3>2. call[u].at \in raced /\ call[u].path \in raced
      <4>1. CASE call[u].at # call[u].path
        BY <1>1, <2>2, <3>1, <4>1 DEF NumbersSound, OpenedThere
      <4>2. CASE call[u].at = call[u].path
        <5>1. call[u] # Idle /\ call[u] \in Call /\ CallSound(call[u])
          BY <2>2, Types, IdleFacts DEF Opens
        <5>2. call[u].path \in Concerns(call[u])
          BY <5>1, ConcernsFacts
        <5> QED BY <1>1, <2>1, <3>1, <4>2, <5>2, Meet
      <4> QED BY <4>1, <4>2
    <3>3. call[t].op = "rename" => Concerns(call[t]) \subseteq raced
      BY <3>1, <3>2 DEF RacedSound, RenamesWhole
    <3> QED BY <2>2, <3>1, <3>2, <3>3
  <2> QED BY <2>3, <2>4
<1>9. NumberAt'
  <2> SUFFICES ASSUME NEW s \in Slot, NEW q \in Path \ raced, Steady(s)', stream'[s].at = q
               PROVE  \/ /\ inodes[q] = stream[s].inode
                         /\ \A u \in Thread, p \in Path : ~Moving(u, p, q)'
                      \/ \E u \in Thread, p \in Path :
                           Moving(u, p, q)' /\ inodes[p] = stream[s].inode
    BY DEF NumberAt
  <2>0. Steady(s)
    OBVIOUS
  <2>1. CASE stream[s].at = q /\ q \notin Concerns(call[t])
    <3>1. \A u \in Thread, p \in Path : Moving(u, p, q)' <=> Moving(u, p, q)
      <4> TAKE u \in Thread, p \in Path
      <4>1. CASE u = t
        <5>1. ~Moving(t, p, q)
          BY <1>2
        <5>2. ~Moving(t, p, q)'
          BY <1>1, <1>4, <2>1
        <5> QED BY <4>1, <5>1, <5>2
      <4>2. CASE u # t
        BY <1>3, <4>2
      <4> QED BY <4>1, <4>2
    <3> QED BY <2>0, <2>1, <3>1 DEF NumbersSound, NumberAt
  <2>2. CASE call[t].op = "rename" /\ stream[s].at = o /\ q = n
    <3>1. o \notin raced
      BY <1>1, <2>2 DEF RacedSound, RenamesWhole
    <3>2. inodes[o] = stream[s].inode
      BY <1>1, <1>6, <2>0, <2>2, <3>1 DEF NumbersSound, NumberAt
    <3> QED BY <1>1, <1>4, <2>2, <3>2
  <2> QED BY <1>1, <2>1, <2>2
<1>10. NumberOnly'
  <2> SUFFICES ASSUME NEW s \in Slot, NEW p \in Path \ raced, Steady(s)',
                      inodes[p] = stream[s].inode
               PROVE  p = stream'[s].at \/ Leaving(p)'
    BY DEF NumberOnly
  <2>1. p = stream[s].at \/ Leaving(p)
    BY DEF NumbersSound, NumberOnly
  <2>2. p = o => Leaving(p)'
    BY <1>1, <1>4 DEF Leaving
  <2>3. p = n /\ call[t].op = "rename" => Leaving(p)'
    BY <1>1, <1>4 DEF Leaving
  <2> QED BY <1>5, <2>1, <2>2, <2>3
<1>11. LeftBehind'
  <2> SUFFICES ASSUME NEW u \in Thread, NEW s \in Slot, NEW p \in Path \ raced,
                      Removed(u, p)' \/ \E q \in Path : Moving(u, p, q)'
               PROVE  stream'[s].at # p
    BY DEF LeftBehind
  <2>1. CASE u = t
    <3>1. p = o
      BY <1>4, <2>1
    <3> QED BY <1>1, <3>1
  <2>2. CASE u # t
    <3>1. Removed(u, p) \/ \E q \in Path : Moving(u, p, q)
      BY <1>3, <2>2
    <3>2. stream[s].at # p
      BY <3>1 DEF NumbersSound, LeftBehind
    <3>3. p \notin Concerns(call[t])
      BY <1>6, <3>1
    <3> QED BY <1>1, <3>2, <3>3
  <2> QED BY <2>1, <2>2
<1>12. TakenAlong'
  <2> SUFFICES ASSUME NEW u \in Thread, NEW s \in Slot, NEW p \in Path \ raced,
                      NEW q \in Path \ raced, Moving(u, p, q)', Steady(s)',
                      inodes[p] = stream[s].inode
               PROVE  stream'[s].at = q
    BY DEF TakenAlong
  <2>0. Steady(s)
    OBVIOUS
  <2>1. CASE u = t
    <3>1. p = o /\ q = n /\ call[t].op = "rename"
      BY <1>4, <2>1
    <3>2. ~Leaving(p)
      BY <1>1, <1>6, <3>1 DEF Leaving
    <3>3. stream[s].at = p
      BY <2>0, <3>2 DEF NumbersSound, NumberOnly
    <3> QED BY <1>1, <3>1, <3>3
  <2>2. CASE u # t
    <3>1. Moving(u, p, q)
      BY <1>3, <2>2
    <3>2. stream[s].at = q
      BY <2>0, <3>1 DEF NumbersSound, TakenAlong
    <3>3. q \notin Concerns(call[t])
      BY <1>6, <3>1
    <3> QED BY <1>1, <3>2, <3>3
  <2> QED BY <2>1, <2>2
<1> QED BY <1>7, <1>8, <1>9, <1>10, <1>11, <1>12 DEF NumbersSound

\* The numbers follow the remove or rename of t.
LEMMA NumbersLeave ==
  ASSUME Typed, RacedSound, NumbersSound, raced' = raced, stream' = stream, NEW t \in Thread,
         Leaves(call[t]), call' = [call EXCEPT ![t] = Idle],
         \A x \in Path : x # call[t].path /\ x # call[t].to => inodes'[x] = inodes[x],
         inodes'[call[t].path] = 0,
         call[t].op = "rename" => inodes'[call[t].to] = inodes[call[t].path]
  PROVE  NumbersSound'
<1> DEFINE o == call[t].path
           n == call[t].to
<1>0. call[t] \in Call /\ CallSound(call[t]) /\ call \in [Thread -> Call]
  BY Types
<1>1. /\ call[t] # Idle /\ ~ReadsOnly(call[t].op) /\ Concerns(call[t]) \subseteq Path
      /\ o \in Path /\ o \in Concerns(call[t]) /\ NoPath \notin Path
      /\ call[t].op = "rename" => n \in Path /\ n \in Concerns(call[t]) /\ n # o
      /\ call[t].op # "rename" => n = NoPath
  <2>1. call[t] # Idle /\ ~ReadsOnly(call[t].op)
    BY IdleFacts DEF ReadsOnly, Leaves
  <2>2. /\ call[t].op = "rename" => n # o
        /\ call[t].op # "rename" => n = NoPath
    BY <1>0, <2>1 DEF CallSound
  <2> QED BY <1>0, <2>1, <2>2, ConcernsFacts, PathLength
<1>2. call'[t] = Idle /\ \A u \in Thread \ {t} : call'[u] = call[u]
  BY <1>0
<1>3. /\ \A p : Removed(t, p) <=> call[t].op = "remove" /\ p = o
      /\ \A p, q : Moving(t, p, q) <=> call[t].op = "rename" /\ p = o /\ q = n
  BY DEF Removed, Moving, Leaves
<1>4. /\ \A p : ~Removed(t, p)' /\ \A q : ~Moving(t, p, q)'
      /\ \A u \in Thread \ {t} : /\ \A p : Removed(u, p)' <=> Removed(u, p)
                                 /\ \A p, q : Moving(u, p, q)' <=> Moving(u, p, q)
  BY <1>2, IdleFacts DEF Removed, Moving
<1>5. ASSUME NEW u \in Thread \ {t}, NEW p \in Concerns(call[t]) \ raced
      PROVE  ~Removed(u, p) /\ \A q : ~Moving(u, p, q) /\ ~Moving(u, q, p)
  <2>1. p \notin Concerns(call[u])
    BY <1>1, <1>5, Meet
  <2> QED BY <2>1, LeaverFacts
<1>6. \A s \in Slot : Steady(s)' = Steady(s) /\ (Steady(s) => stream[s].inode # 0)
  BY Types DEF Steady, StreamSound
<1>7. Injective'
  BY <1>1 DEF NumbersSound, Injective
<1>8. OpenedThere'
  <2> SUFFICES ASSUME NEW u \in Thread, call'[u].op \in Opens, call'[u].phase = "ok",
                      call'[u].at # call'[u].path
               PROVE  call'[u].path \in raced /\ call'[u].at \in raced \cup {NoPath}
    BY DEF OpenedThere
  <2>1. u # t
    BY <1>2, IdleFacts DEF Opens
  <2> QED BY <1>2, <2>1 DEF NumbersSound, OpenedThere
<1>9. NumberAt'
  <2> SUFFICES ASSUME NEW s \in Slot, NEW q \in Path \ raced, Steady(s), stream[s].at = q
               PROVE  \/ /\ inodes'[q] = stream[s].inode
                         /\ \A u \in Thread, p \in Path : ~Moving(u, p, q)'
                      \/ \E u \in Thread, p \in Path :
                           Moving(u, p, q)' /\ inodes'[p] = stream[s].inode
    BY <1>6 DEF NumberAt
  <2>1. \/ inodes[q] = stream[s].inode /\ \A u \in Thread, p \in Path : ~Moving(u, p, q)
        \/ \E u \in Thread, p \in Path : Moving(u, p, q) /\ inodes[p] = stream[s].inode
    BY DEF NumbersSound, NumberAt
  <2>2. q # o
    BY <1>1, <1>3 DEF NumbersSound, LeftBehind, Leaves
  <2>3. CASE q = n
    <3>1. call[t].op = "rename" /\ Moving(t, o, q)
      BY <1>1, <1>3, <2>3
    <3>2. \A u \in Thread \ {t}, p \in Path : ~Moving(u, p, q)
      BY <1>1, <1>5, <2>3, <3>1
    <3>3. inodes[o] = stream[s].inode
      BY <1>1, <1>3, <2>1, <3>1, <3>2
    <3>4. inodes'[q] = stream[s].inode
      BY <2>3, <3>1, <3>3
    <3>5. \A u \in Thread, p \in Path : ~Moving(u, p, q)'
      <4> TAKE u \in Thread, p \in Path
      <4>1. CASE u = t
        BY <1>4, <4>1
      <4>2. CASE u # t
        BY <1>4, <3>2, <4>2
      <4> QED BY <4>1, <4>2
    <3> QED BY <3>4, <3>5
  <2>4. CASE q # n
    <3>1. \A u \in Thread, p \in Path : Moving(u, p, q)' <=> Moving(u, p, q)
      <4> TAKE u \in Thread, p \in Path
      <4>1. CASE u = t
        <5>1. ~Moving(t, p, q)
          BY <1>3, <2>4
        <5>2. ~Moving(t, p, q)'
          BY <1>4
        <5> QED BY <4>1, <5>1, <5>2
      <4>2. CASE u # t
        BY <1>4, <4>2
      <4> QED BY <4>1, <4>2
    <3>2. CASE inodes[q] = stream[s].inode /\ \A u \in Thread, p \in Path : ~Moving(u, p, q)
      BY <2>2, <2>4, <3>1, <3>2
    <3>3. ASSUME NEW u \in Thread, NEW p \in Path, Moving(u, p, q), inodes[p] = stream[s].inode
          PROVE  Moving(u, p, q)' /\ inodes'[p] = stream[s].inode
      <4>1. u # t
        BY <1>3, <2>4, <3>3
      <4>2. p \notin raced
        BY <3>3, LeaverFacts
      <4>3. p # o /\ p # n
        BY <1>1, <1>5, <3>3, <4>1, <4>2
      <4> QED BY <3>1, <3>3, <4>3
    <3> QED BY <2>1, <3>2, <3>3
  <2> QED BY <2>3, <2>4
<1>10. NumberOnly'
  <2> SUFFICES ASSUME NEW s \in Slot, NEW p \in Path \ raced, Steady(s),
                      inodes'[p] = stream[s].inode
               PROVE  p = stream[s].at \/ Leaving(p)'
    BY <1>6 DEF NumberOnly
  <2>1. p # o
    BY <1>6
  <2>2. CASE p = n
    <3>1. call[t].op = "rename" /\ Moving(t, o, p) /\ inodes[o] = stream[s].inode
      BY <1>1, <1>3, <2>2
    <3>2. o \notin raced
      BY <3>1, LeaverFacts
    <3> QED BY <1>1, <3>1, <3>2 DEF NumbersSound, TakenAlong
  <2>3. CASE p # n
    <3>1. p = stream[s].at \/ Leaving(p)
      BY <2>1, <2>3 DEF NumbersSound, NumberOnly
    <3>2. Leaving(p) => Leaving(p)'
      BY <1>3, <1>4, <2>1, <2>3 DEF Leaving
    <3> QED BY <3>1, <3>2
  <2> QED BY <2>2, <2>3
<1>11. LeftBehind'
  BY <1>4 DEF NumbersSound, LeftBehind
<1>12. TakenAlong'
  <2> SUFFICES ASSUME NEW u \in Thread, NEW s \in Slot, NEW p \in Path \ raced,
                      NEW q \in Path \ raced, Moving(u, p, q)', Steady(s),
                      inodes'[p] = stream[s].inode
               PROVE  stream[s].at = q
    BY <1>6 DEF TakenAlong
  <2>1. u # t /\ Moving(u, p, q)
    BY <1>4
  <2>2. p # o /\ p # n
    BY <1>1, <1>5, <2>1
  <2> QED BY <2>1, <2>2 DEF NumbersSound, TakenAlong
<1> QED BY <1>7, <1>8, <1>9, <1>10, <1>11, <1>12 DEF NumbersSound

-----------------------------------------------------------------------------
(* The start of a call *)

\* A call of t becomes c.
LEMMA CallBecomes ==
  ASSUME Typed, NEW t \in Thread, NEW c \in Call, CallSound(c), call' = [call EXCEPT ![t] = c]
  PROVE  /\ call' \in [Thread -> Call] /\ call'[t] = c
         /\ \A u \in Thread : CallSound(call'[u])
         /\ \A u \in Thread \ {t} : /\ call'[u] = call[u] /\ SameCall(call[u], call'[u])
                                    /\ GoesOn(call[u], call'[u]) /\ Proceeds(call[u], call'[u])
<1>1. call \in [Thread -> Call] /\ \A u \in Thread : CallSound(call[u])
  BY Types
<1>2. call'[t] = c /\ \A u \in Thread \ {t} : call'[u] = call[u]
  BY <1>1
<1>3. \A u \in Thread : CallSound(call'[u])
  BY <1>1, <1>2
<1>4. ASSUME NEW u \in Thread \ {t}
      PROVE  /\ SameCall(call[u], call'[u])
             /\ GoesOn(call[u], call'[u]) /\ Proceeds(call[u], call'[u])
  BY <1>2 DEF SameCall, GoesOn, Proceeds
<1> QED BY <1>1, <1>2, <1>3, <1>4

LEMMA CountedFacts ==
  ASSUME Typed, Counted
  PROVE  calls' \in 0 .. MaxCalls
  BY Types, ConstantsAssumption DEF Counted

\* The call that t starts overlaps others at raced paths.
LEMMA AskedRaced ==
  ASSUME Typed, RacedSound, NEW t \in Thread, NEW c \in Call, CallSound(c), c # Idle, Asks(t, c)
  PROVE  RacedSound' /\ raced \subseteq raced' /\ raced' \subseteq Path
<1> DEFINE P == raced \cup Overlap(t, c)
           cs == {c} \cup {call[u] : u \in Thread}
<1>1. call[t] = Idle /\ raced' = Spread(P, cs) /\ call' = [call EXCEPT ![t] = c]
  BY DEF Asks
<1>2. /\ call' \in [Thread -> Call] /\ call'[t] = c
      /\ \A u \in Thread : CallSound(call'[u])
      /\ \A u \in Thread \ {t} : call'[u] = call[u]
  BY <1>1, CallBecomes
<1>3. PICK d : d = call'
  OBVIOUS
<1>4. P \in SUBSET Path
  BY Types, ConcernsFacts DEF Overlap
<1>5. ASSUME NEW u \in Thread \ {t}, ~(ReadsOnly(c.op) /\ ReadsOnly(call[u].op))
      PROVE  Concerns(c) \cap Concerns(call[u]) \subseteq P
  BY <1>5 DEF Overlap
<1>6. \A v, u \in Thread : \/ v = u
                           \/ ReadsOnly(d[v].op) /\ ReadsOnly(d[u].op)
                           \/ Concerns(d[v]) \cap Concerns(d[u]) \subseteq P
  <2> SUFFICES ASSUME NEW v \in Thread, NEW u \in Thread, v # u,
                      ~(ReadsOnly(d[v].op) /\ ReadsOnly(d[u].op))
               PROVE  Concerns(d[v]) \cap Concerns(d[u]) \subseteq P
    OBVIOUS
  <2>1. CASE v = t
    <3>1. d[v] = c /\ d[u] = call[u] /\ u \in Thread \ {t}
      BY <1>2, <1>3, <2>1
    <3> HIDE DEF P
    <3> QED BY <1>5, <3>1
  <2>2. CASE u = t
    <3>1. d[u] = c /\ d[v] = call[v] /\ v \in Thread \ {t}
      BY <1>2, <1>3, <2>2
    <3> HIDE DEF P
    <3> QED BY <1>5, <3>1
  <2>3. CASE u # t /\ v # t
    <3>1. d[u] = call[u] /\ d[v] = call[v]
      BY <1>2, <1>3, <2>3
    <3>2. Concerns(call[v]) \cap Concerns(call[u]) \subseteq raced
      BY <3>1 DEF RacedSound, OverlapRaced
    <3> QED BY <3>1, <3>2
  <2> QED BY <2>1, <2>2, <2>3
<1>7. \A u \in Thread : d[u] \in Call /\ CallSound(d[u]) /\ d[u] \in cs
  BY <1>2, <1>3
<1>8. \A e \in cs : e = Idle \/ \E u \in Thread : e = d[u]
  BY <1>1, <1>2, <1>3
<1>9. \A u \in Thread : GoesOn(d[u], call'[u])
  BY <1>3 DEF GoesOn
<1>10. raced \subseteq P
  OBVIOUS
<1> HIDE DEF P, cs
<1>11. Spreads(P, d, cs)
  BY <1>4, <1>6, <1>7, <1>8, <1>9, <1>10 DEF Spreads
<1> QED BY <1>1, <1>11, RacedSpread

\* What a call does before it releases the mutex.
LEMMA AsksKeeps ==
  ASSUME Inv, NEW t \in Thread, NEW c \in Call, CallSound(c), c # Idle, c.phase = "asked",
         Asks(t, c), c.at = NoPath \/ \E s \in Slot : c.at = stream[s].at,
         cache' \in [Path -> Info \cup {Unknown}],
         \A p \in Path : cache'[p] \in {Unknown, cache[p]},
         \A p \in Touched(c) : cache'[p] = Unknown,
         c.op = "rename" => c.info = cache[c.path]
  PROVE  Inv'
<1>0. Typed /\ RacedSound /\ CacheSound /\ TreeSound /\ FilesExist /\ NumbersSound
  BY DEF Inv
<1>1. /\ call[t] = Idle /\ call' = [call EXCEPT ![t] = c] /\ disk' = disk /\ Counted
      /\ inodes' = inodes /\ nextInode' = nextInode /\ stream' = stream
  BY DEF Asks, numbers
<1>2. /\ call' \in [Thread -> Call] /\ call'[t] = c
      /\ \A u \in Thread : CallSound(call'[u])
      /\ \A u \in Thread \ {t} : /\ call'[u] = call[u] /\ SameCall(call[u], call'[u])
                                 /\ Proceeds(call[u], call'[u])
  BY <1>0, <1>1, CallBecomes
<1>3. RacedSound' /\ raced \subseteq raced' /\ raced' \subseteq Path
  BY <1>0, AskedRaced
<1>4. Typed'
  BY <1>0, <1>1, <1>2, <1>3, Types, TypedNext, CountedFacts
<1>5. c.path \in Path
  BY ConcernsFacts
<1>6. CacheSound'
  <2>1. Learnt(call[t])'
    <3>1. c.op = "rename" /\ c.info # Unknown /\ c.path \notin raced' => c.info = disk[c.path]
      BY <1>0, <1>3, <1>5 DEF CacheSound, CacheFresh
    <3> QED BY <1>1, <1>2, <3>1 DEF Learnt
  <2>2. Touched(call'[t]) = Touched(c)
    BY <1>2
  <2> QED BY <1>0, <1>1, <1>2, <1>3, <2>1, <2>2, CacheActs
<1>7. TreeSound'
  BY <1>0, <1>1, TreeKept
<1>8. FilesExist'
  <2>1. \A u \in Thread : \/ call'[u].at \in {NoPath, call[u].at}
                          \/ \E s \in Slot : call'[u].at = stream[s].at
    BY <1>2
  <2> QED BY <1>0, <1>1, <2>1, FilesKept
<1>9. NumbersSound'
  <2>1. Proceeds(call[t], call'[t])
    BY <1>1, <1>2, IdleFacts DEF Proceeds, Leaves
  <2> QED BY <1>0, <1>1, <1>2, <1>3, <1>5, <2>1, NumbersGrow
<1> QED BY <1>3, <1>4, <1>6, <1>7, <1>8, <1>9 DEF Inv

LEMMA RequestFacts ==
  ASSUME NEW op \in Ops \ {"rename"}, NEW p \in Path
  PROVE  /\ Request(op, p) \in Call /\ CallSound(Request(op, p)) /\ Request(op, p) # Idle
         /\ Request(op, p).phase = "asked" /\ Request(op, p).at = NoPath
         /\ Request(op, p).op = op
         /\ Touched(Request(op, p)) = IF ReadsOnly(op) THEN {} ELSE {p}
<1>1. /\ Request(op, p) \in Call /\ Request(op, p).op = op /\ Request(op, p).path = p
      /\ Request(op, p).to = NoPath /\ Request(op, p).at = NoPath
      /\ Request(op, p).phase = "asked"
  BY IdleFacts DEF Request, Call, PathOrNone
<1>2. op # "idle" /\ Request(op, p) # Idle
  BY <1>1, IdleFacts
<1> QED BY <1>1, <1>2 DEF CallSound, Touched

LEMMA InvalidatedFacts ==
  ASSUME Typed, NEW p \in Path
  PROVE  /\ Invalidated(p) \in [Path -> Info \cup {Unknown}]
         /\ Invalidated(p)[p] = Unknown
         /\ \A q \in Path : Invalidated(p)[q] \in {Unknown, cache[q]}
<1>1. cache \in [Path -> Info \cup {Unknown}]
  BY Types
<1> QED BY <1>1 DEF Invalidated, Set

\* What GetInodeLocked does to the numbers.
LEMMA GetInodeFacts ==
  ASSUME Typed, NEW p \in Path, GetInode(p)
  PROVE  /\ inodes' \in [Path -> 0 .. MaxInode] /\ nextInode' \in 1 .. MaxInode + 1
         /\ \A x \in Path : inodes'[x] < nextInode'
         /\ nextInode <= nextInode' /\ inodes'[p] = Inode(p) /\ inodes'[p] # 0
         /\ \A x \in Path : \/ inodes'[x] = inodes[x]
                            \/ x = p /\ inodes[x] = 0 /\ inodes'[x] = nextInode
<1>1. /\ inodes \in [Path -> 0 .. MaxInode] /\ nextInode \in 1 .. MaxInode + 1
      /\ \A x \in Path : inodes[x] < nextInode
  BY Types
<1>2. MaxInode \in Nat
  BY ConstantsAssumption
<1>3. CASE inodes[p] = 0
  <2>1. /\ nextInode <= MaxInode /\ inodes' = [inodes EXCEPT ![p] = nextInode]
        /\ nextInode' = nextInode + 1 /\ Inode(p) = nextInode
    BY <1>3 DEF GetInode, Inode
  <2> QED BY <1>1, <1>2, <1>3, <2>1
<1>4. CASE inodes[p] # 0
  <2>1. inodes' = inodes /\ nextInode' = nextInode /\ Inode(p) = inodes[p]
    BY <1>1, <1>4 DEF GetInode, Inode
  <2> QED BY <1>1, <1>2, <1>4, <2>1
<1> QED BY <1>3, <1>4

\* stat asks Pepper or answers from the cache.
LEMMA StatKeeps ==
  ASSUME Inv, NEW t \in Thread, NEW p \in Path, Stat(t, p)
  PROVE  Inv'
<1>0. Typed /\ RacedSound /\ CacheSound /\ TreeSound /\ FilesExist /\ NumbersSound
  BY DEF Inv
<1>1. CASE cache[p] = Unknown /\ Asks(t, Request("stat", p)) /\ UNCHANGED cache
  <2> DEFINE c == Request("stat", p)
  <2>1. "stat" \in Ops \ {"rename"} /\ ReadsOnly("stat")
    BY DEF Ops, ReadsOnly
  <2>2. /\ c \in Call /\ CallSound(c) /\ c # Idle /\ c.phase = "asked" /\ c.at = NoPath
        /\ c.op = "stat" /\ Touched(c) = {}
    BY <2>1, RequestFacts
  <2>3. Asks(t, c)
    BY <1>1
  <2> HIDE DEF c
  <2> QED BY <1>0, <1>1, <2>2, <2>3, AsksKeeps, Types
<1>2. CASE /\ GetInode(p) /\ Counted
           /\ UNCHANGED <<disk, cache, stream, call, raced>>
  <2>1. calls' \in 0 .. MaxCalls
    BY <1>0, <1>2, CountedFacts
  <2>2. /\ inodes' \in [Path -> 0 .. MaxInode] /\ nextInode' \in 1 .. MaxInode + 1
        /\ \A x \in Path : inodes'[x] < nextInode'
        /\ nextInode <= nextInode'
        /\ \A x \in Path : \/ inodes'[x] = inodes[x]
                           \/ x = p /\ inodes[x] = 0 /\ inodes'[x] = nextInode
    BY <1>0, <1>2, GetInodeFacts
  <2>3. \A u \in Thread : GoesOn(call[u], call'[u]) /\ Proceeds(call[u], call'[u])
    BY <1>2 DEF GoesOn, Proceeds
  <2>4. Typed'
    <3>1. \A s \in Slot : stream'[s].inode < nextInode'
      BY <1>0, <1>2, <2>2, Types
    <3> QED BY <1>0, <1>2, <2>1, <2>2, <3>1, Types, TypedNext
  <2>5. RacedSound'
    BY <1>0, <1>2, <2>3, RacedKept
  <2>6. CacheSound'
    BY <1>0, <1>2, <2>5, CacheQuiet
  <2>7. TreeSound' /\ FilesExist'
    BY <1>0, <1>2, TreeKept, FilesKept
  <2>8. NumbersSound'
    BY <1>0, <1>2, <2>2, <2>3, NumbersGrow
  <2> QED BY <2>4, <2>5, <2>6, <2>7, <2>8 DEF Inv
<1> QED BY <1>1, <1>2 DEF Stat

\* Calls that invalidate the entry of their path.
LEMMA InvalidatesKeeps ==
  ASSUME Inv, NEW t \in Thread, NEW p \in Path, NEW op \in Ops \ {"rename"},
         cache' = Invalidated(p), Asks(t, Request(op, p))
  PROVE  Inv'
<1> DEFINE c == Request(op, p)
<1>1. /\ c \in Call /\ CallSound(c) /\ c # Idle /\ c.phase = "asked" /\ c.at = NoPath
      /\ c.op # "rename" /\ Touched(c) \subseteq {p}
  BY RequestFacts
<1>2. /\ cache' \in [Path -> Info \cup {Unknown}] /\ cache'[p] = Unknown
      /\ \A q \in Path : cache'[q] \in {Unknown, cache[q]}
  BY InvalidatedFacts DEF Inv
<1>3. Asks(t, c)
  OBVIOUS
<1> HIDE DEF c
<1> QED BY <1>1, <1>2, <1>3, AsksKeeps

LEMMA OpenKeeps ==
  ASSUME Inv, NEW t \in Thread, NEW p \in Path, NEW op \in Opens, Open(t, p, op)
  PROVE  Inv'
<1>1. op \in Ops \ {"rename"} /\ Asks(t, Request(op, p))
  BY DEF Opens, Ops, Open
<1>2. CASE op = "openRead"
  <2> DEFINE c == Request(op, p)
  <2>1. ReadsOnly(op)
    BY <1>2 DEF ReadsOnly
  <2>2. /\ c \in Call /\ CallSound(c) /\ c # Idle /\ c.phase = "asked" /\ c.at = NoPath
        /\ c.op # "rename" /\ Touched(c) = {}
    BY <1>1, <2>1, RequestFacts
  <2>3. Asks(t, c) /\ cache' = cache /\ cache \in [Path -> Info \cup {Unknown}]
    BY <1>1, <1>2, Types DEF Open, Inv
  <2> HIDE DEF c
  <2> QED BY <2>2, <2>3, AsksKeeps
<1>3. CASE op # "openRead"
  <2>1. cache' = Invalidated(p)
    BY <1>3 DEF Open
  <2> QED BY <1>1, <2>1, InvalidatesKeeps
<1> QED BY <1>2, <1>3

LEMMA MkdirKeeps ==
  ASSUME Inv, NEW t \in Thread, NEW p \in Path, Mkdir(t, p)
  PROVE  Inv'
<1>1. "mkdir" \in Ops \ {"rename"} /\ Asks(t, Request("mkdir", p)) /\ cache' = Invalidated(p)
  BY DEF Ops, Mkdir
<1> QED BY <1>1, InvalidatesKeeps

LEMMA ModifyKeeps ==
  ASSUME Inv, NEW t \in Thread, NEW p \in Path, NEW op \in {"remove", "utimes", "truncate"},
         Modify(t, p, op)
  PROVE  Inv'
<1>1. op \in Ops \ {"rename"} /\ Asks(t, Request(op, p)) /\ cache' = Invalidated(p)
  BY DEF Ops, Modify
<1> QED BY <1>1, InvalidatesKeeps

LEMMA RenameKeeps ==
  ASSUME Inv, NEW t \in Thread, NEW o \in Path, NEW n \in Path, Rename(t, o, n)
  PROVE  Inv'
<1> DEFINE c == [Request("rename", o) EXCEPT !.to = n, !.info = cache[o]]
<1>0. cache \in [Path -> Info \cup {Unknown}]
  BY Types DEF Inv
<1>1. /\ c \in Call /\ c.op = "rename" /\ c.path = o /\ c.to = n /\ c.at = NoPath
      /\ c.phase = "asked" /\ c.info = cache[o]
  <2>1. /\ Request("rename", o) \in Call
        /\ Request("rename", o).op = "rename" /\ Request("rename", o).path = o
        /\ Request("rename", o).at = NoPath /\ Request("rename", o).phase = "asked"
    BY IdleFacts DEF Request, Call, PathOrNone, Ops
  <2> HIDE DEF Request
  <2> QED BY <1>0, <2>1 DEF Call, PathOrNone
<1>2. o # n /\ cache' = InvalidatedBelow({o, n}) /\ Asks(t, c)
  BY DEF Rename
<1> HIDE DEF c
<1>3. PICK e : e = c
  OBVIOUS
<1>4. CallSound(e) /\ e # Idle
  BY <1>1, <1>2, <1>3, IdleFacts DEF CallSound, Ops
<1>5. Touched(e) = AtOrBelow(o) \cup AtOrBelow(n)
  <2>1. Concerns(e) = AtOrBelow(o) \cup AtOrBelow(n)
    BY <1>1, <1>3, <1>4, ConcernsFacts
  <2> QED BY <1>1, <1>3, <2>1 DEF Touched, ReadsOnly
<1>6. /\ cache' \in [Path -> Info \cup {Unknown}]
      /\ \A q \in Path : cache'[q] \in {Unknown, cache[q]}
      /\ \A q \in AtOrBelow(o) \cup AtOrBelow(n) : cache'[q] = Unknown
  <2>1. AtOrBelow(o) \cup AtOrBelow(n) \subseteq Path
    BY AtOrBelowFacts
  <2> QED BY <1>0, <1>2, <2>1 DEF InvalidatedBelow
<1> QED BY <1>1, <1>2, <1>3, <1>4, <1>5, <1>6, AsksKeeps

LEMMA FtruncateKeeps ==
  ASSUME Inv, NEW t \in Thread, NEW s \in Slot, Ftruncate(t, s)
  PROVE  Inv'
<1> DEFINE p == stream[s].path
           c == [Request("ftruncate", p) EXCEPT !.at = stream[s].at]
<1>0. /\ stream[s].open /\ p \in Path /\ stream[s].at \in PathOrNone
      /\ cache' = Invalidated(p) /\ Asks(t, c)
  BY Types DEF Inv, Ftruncate, StreamSound
<1>1. /\ c \in Call /\ c.op = "ftruncate" /\ c.path = p /\ c.to = NoPath
      /\ c.at = stream[s].at /\ c.phase = "asked"
  <2>1. /\ Request("ftruncate", p) \in Call
        /\ Request("ftruncate", p).op = "ftruncate" /\ Request("ftruncate", p).path = p
        /\ Request("ftruncate", p).to = NoPath /\ Request("ftruncate", p).phase = "asked"
    BY <1>0, IdleFacts DEF Request, Call, PathOrNone, Ops
  <2> HIDE DEF Request
  <2> QED BY <1>0, <2>1 DEF Call
<1>2. /\ cache' \in [Path -> Info \cup {Unknown}] /\ cache'[p] = Unknown
      /\ \A q \in Path : cache'[q] \in {Unknown, cache[q]}
  BY <1>0, InvalidatedFacts DEF Inv
<1> HIDE DEF c
<1>3. PICK e : e = c
  OBVIOUS
<1>4. CallSound(e) /\ e # Idle /\ Touched(e) \subseteq {p} /\ e.op # "rename"
  BY <1>0, <1>1, <1>3, IdleFacts DEF CallSound, Ops, Touched
<1> QED BY <1>0, <1>1, <1>2, <1>3, <1>4, AsksKeeps

-----------------------------------------------------------------------------
(* Pepper *)

\* A step changes paths while calls may be under way.
LEMMA Disturbed ==
  ASSUME Typed, RacedSound, NEW paths \in SUBSET Path, Disturbs(paths),
         \A u \in Thread : GoesOn(call[u], call'[u])
  PROVE  RacedSound' /\ raced \subseteq raced' /\ paths \subseteq raced' /\ raced' \subseteq Path
<1> DEFINE P == raced \cup paths
           cs == {call[u] : u \in Thread}
<1>1. raced' = Spread(P, cs)
  BY DEF Disturbs
<1>2. P \subseteq Path
  BY Types
<1>3. \A u \in Thread : call[u] \in Call /\ CallSound(call[u]) /\ call[u] \in cs
  BY Types
<1>4. \A v, u \in Thread : \/ v = u
                           \/ ReadsOnly(call[v].op) /\ ReadsOnly(call[u].op)
                           \/ Concerns(call[v]) \cap Concerns(call[u]) \subseteq P
  BY DEF RacedSound, OverlapRaced
<1>5. Spreads(P, call, cs)
  BY <1>2, <1>3, <1>4 DEF Spreads
<1>6. RacedSound' /\ raced \subseteq raced' /\ P \subseteq raced' /\ raced' \subseteq Path
  <2> HIDE DEF P, cs
  <2> QED BY <1>1, <1>5, RacedSpread
<1> QED BY <1>6

\* Pepper answers t, whose call becomes c; no file goes.
LEMMA AnswerKeeps ==
  ASSUME Inv, NEW t \in Thread, call[t] # Idle, NEW c \in Call, CallSound(c),
         call' = [call EXCEPT ![t] = c], UNCHANGED <<cache, numbers, stream, calls>>,
         RacedSound', raced \subseteq raced', raced' \subseteq Path, disk' \in [Path -> Info],
         \A p \in Path \ raced' : disk'[p] = disk[p] \/ p \in Touched(call[t]),
         \A p \in Path : disk[p] # Absent => disk'[p] # Absent,
         \A p \in Path : disk'[p] # Absent => disk[p] # Absent \/ InDirectory(p),
         \A p \in Path : disk[p] = Directory => disk'[p] = Directory,
         Learnt(call[t])', Touched(c) \subseteq Touched(call[t]), Proceeds(call[t], c),
         c.at \in {NoPath, call[t].at} \/ (c.at \in Path /\ disk'[c.at] # Absent)
  PROVE  Inv'
<1>0. Typed /\ RacedSound /\ CacheSound /\ TreeSound /\ FilesExist /\ NumbersSound
  BY DEF Inv
<1>1. /\ call' \in [Thread -> Call] /\ call'[t] = c
      /\ \A u \in Thread : CallSound(call'[u])
      /\ \A u \in Thread \ {t} : /\ call'[u] = call[u] /\ SameCall(call[u], call'[u])
                                 /\ Proceeds(call[u], call'[u])
  BY <1>0, CallBecomes
<1>2. /\ cache' = cache /\ inodes' = inodes /\ nextInode' = nextInode
      /\ stream' = stream /\ calls' = calls
  BY DEF numbers
<1>3. Typed'
  BY <1>0, <1>1, <1>2, Types, TypedNext
<1>4. CacheSound'
  <2>1. \A p \in Touched(call'[t]) \ raced' : cache'[p] = Unknown
    BY <1>0, <1>1, <1>2 DEF CacheSound, TouchedUnknown
  <2> QED BY <1>0, <1>1, <1>2, <2>1, CacheActs
<1>5. TreeSound'
  BY <1>0, TreeKept
<1>6. FilesExist'
  <2>1. \A u \in Thread : \/ call'[u].at \in {NoPath, call[u].at}
                          \/ call'[u].at \in Path /\ disk'[call'[u].at] # Absent
    BY <1>1
  <2> QED BY <1>0, <1>2, <2>1, FilesKept
<1>7. NumbersSound'
  <2>1. call[t].path \in Path
    BY <1>0, Types, ConcernsFacts
  <2>2. \A u \in Thread : Proceeds(call[u], call'[u])
    BY <1>1
  <2> QED BY <1>0, <1>2, <2>1, <2>2, NumbersGrow
<1> QED BY <1>3, <1>4, <1>5, <1>6, <1>7 DEF Inv

\* The call of t when Pepper works for it.
LEMMA AskedFacts ==
  ASSUME Typed, NEW t \in Thread, NEW ops \in SUBSET Ops, Asked(t, ops) \/ Answered(t, ops)
  PROVE  /\ call[t] \in Call /\ CallSound(call[t]) /\ call[t] # Idle
         /\ call[t].path \in Path /\ call[t].op \in ops
<1>1. call[t] \in Call /\ CallSound(call[t]) /\ call[t].op \in ops
  BY Types DEF Asked, Answered
<1>2. call[t] # Idle
  BY <1>1, IdleFacts
<1> QED BY <1>1, <1>2, ConcernsFacts

\* The call of t ends.
LEMMA EndsFacts ==
  ASSUME Typed, RacedSound, NEW t \in Thread, Ends(t)
  PROVE  /\ Idle \in Call /\ CallSound(Idle) /\ call' = [call EXCEPT ![t] = Idle]
         /\ call'[t] = Idle /\ \A u \in Thread : GoesOn(call[u], call'[u])
         /\ raced' = raced => RacedSound'
         /\ Learnt(call[t])' /\ Touched(Idle) = {} /\ Idle.at = NoPath
         /\ ~Leaves(call[t]) => Proceeds(call[t], Idle)
<1>1. Idle \in Call /\ CallSound(Idle) /\ call' = [call EXCEPT ![t] = Idle]
  BY IdleFacts DEF Ends
<1>2. call'[t] = Idle /\ \A u \in Thread : GoesOn(call[u], call'[u])
  BY <1>1, CallBecomes DEF GoesOn
<1>3. Learnt(call[t])'
  BY <1>2, IdleFacts DEF Learnt
<1>4. Touched(Idle) = {} /\ (~Leaves(call[t]) => Proceeds(call[t], Idle))
  BY IdleFacts DEF Touched, Proceeds, Leaves
<1> QED BY <1>1, <1>2, <1>3, <1>4, IdleFacts, RacedKept

LEMMA PepperFailsKeeps ==
  ASSUME Inv, NEW t \in Thread, PepperFails(t)
  PROVE  Inv'
<1>1. Typed /\ RacedSound /\ Asked(t, Ops \ {"stat"}) /\ Ends(t)
  BY DEF Inv, PepperFails
<1>2. UNCHANGED <<disk, cache, numbers, stream, raced, calls>> /\ call[t] # Idle /\ ~Leaves(call[t])
  BY <1>1, AskedFacts DEF PepperFails, Asked, Leaves
<1>3. /\ RacedSound' /\ raced' = raced /\ raced' \subseteq Path
      /\ disk' = disk /\ disk \in [Path -> Info]
  BY <1>1, <1>2, EndsFacts, Types
<1> QED BY <1>1, <1>2, <1>3, EndsFacts, AnswerKeeps

LEMMA PepperMakesDirectoryKeeps ==
  ASSUME Inv, NEW t \in Thread, PepperMakesDirectory(t)
  PROVE  Inv'
<1> DEFINE p == call[t].path
<1>1. Typed /\ RacedSound /\ Asked(t, {"mkdir"}) /\ Ends(t) /\ {"mkdir"} \subseteq Ops
  BY DEF Inv, PepperMakesDirectory, Ops
<1>2. /\ UNCHANGED <<cache, numbers, stream, raced, calls>> /\ call[t] # Idle /\ ~Leaves(call[t])
      /\ p \in Path /\ call[t].op = "mkdir" /\ call[t] \in Call /\ CallSound(call[t])
      /\ disk[p] = Absent /\ InDirectory(p) /\ disk' = [disk EXCEPT ![p] = Directory]
  BY <1>1, AskedFacts DEF PepperMakesDirectory, Asked, Leaves
<1>3. RacedSound' /\ raced' = raced /\ raced' \subseteq Path /\ disk \in [Path -> Info]
  BY <1>1, <1>2, EndsFacts, Types
<1>4. /\ disk' \in [Path -> Info]
      /\ \A q \in Path : disk'[q] = disk[q] \/ q = p
      /\ \A q \in Path : disk[q] # Absent => disk'[q] # Absent
      /\ \A q \in Path : disk'[q] # Absent => disk[q] # Absent \/ InDirectory(q)
      /\ \A q \in Path : disk[q] = Directory => disk'[q] = Directory
  BY <1>2, <1>3, InfoFacts
<1>5. p \in Touched(call[t])
  BY <1>2, ConcernsFacts DEF ReadsOnly
<1> QED BY <1>1, <1>2, <1>3, <1>4, <1>5, EndsFacts, AnswerKeeps

LEMMA PepperTouchesKeeps ==
  ASSUME Inv, NEW t \in Thread, PepperTouches(t)
  PROVE  Inv'
<1> DEFINE p == call[t].path
<1>1. Typed /\ RacedSound /\ Asked(t, {"utimes"}) /\ Ends(t) /\ {"utimes"} \subseteq Ops
  BY DEF Inv, PepperTouches, Ops
<1>2. /\ UNCHANGED <<cache, numbers, stream, raced, calls>> /\ call[t] # Idle /\ ~Leaves(call[t])
      /\ p \in Path /\ call[t].op = "utimes" /\ call[t] \in Call /\ CallSound(call[t])
      /\ Changeable(p) /\ Change(p)
  BY <1>1, AskedFacts DEF PepperTouches, Asked, Leaves
<1>3. RacedSound' /\ raced' = raced /\ raced' \subseteq Path /\ disk \in [Path -> Info]
  BY <1>1, <1>2, EndsFacts, Types
<1>4. /\ disk' \in [Path -> Info]
      /\ \A q \in Path : disk'[q] = disk[q] \/ q = p
      /\ \A q \in Path : disk[q] # Absent => disk'[q] # Absent
      /\ \A q \in Path : disk'[q] # Absent => disk[q] # Absent
      /\ \A q \in Path : disk[q] = Directory => disk'[q] = Directory
  BY <1>2, <1>3, ChangeFacts DEF PathOrNone
<1>5. p \in Touched(call[t])
  BY <1>2, ConcernsFacts DEF ReadsOnly
<1> QED BY <1>1, <1>2, <1>3, <1>4, <1>5, EndsFacts, AnswerKeeps

LEMMA PepperSetsLengthKeeps ==
  ASSUME Inv, NEW t \in Thread, PepperSetsLength(t)
  PROVE  Inv'
<1> DEFINE p == call[t].path
           a == call[t].at
<1>1. Typed /\ RacedSound /\ Asked(t, {"ftruncate"}) /\ Ends(t) /\ {"ftruncate"} \subseteq Ops
  BY DEF Inv, PepperSetsLength, Ops
<1>2. /\ UNCHANGED <<cache, numbers, stream, calls>> /\ call[t] # Idle /\ ~Leaves(call[t])
      /\ p \in Path /\ call[t].op = "ftruncate" /\ call[t] \in Call /\ CallSound(call[t])
      /\ Changeable(a) /\ Change(a) /\ a \in PathOrNone /\ Disturbs({a} \ {p})
  BY <1>1, AskedFacts DEF PepperSetsLength, Asked, Leaves, Call
<1>3. disk \in [Path -> Info]
  BY <1>1, Types
<1>4. /\ disk' \in [Path -> Info] /\ a \in Path
      /\ \A q \in Path : disk'[q] = disk[q] \/ q = a
      /\ \A q \in Path : disk[q] # Absent => disk'[q] # Absent
      /\ \A q \in Path : disk'[q] # Absent => disk[q] # Absent
      /\ \A q \in Path : disk[q] = Directory => disk'[q] = Directory
  BY <1>2, <1>3, ChangeFacts
<1>5. p \in Touched(call[t])
  BY <1>2, ConcernsFacts DEF ReadsOnly
<1>6. RacedSound' /\ raced \subseteq raced' /\ {a} \ {p} \subseteq raced' /\ raced' \subseteq Path
  <2>1. {a} \ {p} \in SUBSET Path
    BY <1>4
  <2> QED BY <1>1, <1>2, <2>1, EndsFacts, Disturbed
<1>7. \A q \in Path \ raced' : disk'[q] = disk[q] \/ q \in Touched(call[t])
  BY <1>4, <1>5, <1>6
<1> QED BY <1>1, <1>2, <1>4, <1>6, <1>7, EndsFacts, AnswerKeeps

\* Pepper answers a query with info.
LEMMA QueryKeeps ==
  ASSUME Inv, NEW t \in Thread, Asked(t, {"stat"}), NEW info \in Info,
         call' = [call EXCEPT ![t].phase = "ok", ![t].info = info],
         UNCHANGED <<disk, cache, numbers, stream, calls>>,
         \/ raced' = raced
         \/ Disturbs({p \in {call[t].path} : disk[p] # Absent}),
         call[t].path \notin raced' => info = disk[call[t].path]
  PROVE  Inv'
<1>1. Typed /\ RacedSound /\ {"stat"} \subseteq Ops
  BY DEF Inv, Ops
<1>2. /\ call[t] # Idle /\ call[t].path \in Path /\ call[t].op = "stat" /\ call[t] \in Call
      /\ CallSound(call[t]) /\ call[t].phase = "asked" /\ call[t].to = NoPath
  BY <1>1, AskedFacts DEF Asked, CallSound
<1>3. PICK c : c = [call[t] EXCEPT !.phase = "ok", !.info = info]
  OBVIOUS
<1>4. /\ c \in Call /\ c.op = "stat" /\ c.path = call[t].path /\ c.to = NoPath
      /\ c.at = call[t].at /\ c.phase = "ok" /\ c.info = info
  BY <1>2, <1>3 DEF Call
<1>5. call' = [call EXCEPT ![t] = c]
  BY <1>1, <1>3, Types
<1>6. CallSound(c) /\ c # Idle /\ Touched(c) = {} /\ Proceeds(call[t], c)
  BY <1>2, <1>4, IdleFacts DEF CallSound, Touched, ReadsOnly, Proceeds, Leaves, Opens, Ops
<1>7. call'[t] = c /\ \A u \in Thread : GoesOn(call[u], call'[u])
  <2>1. call'[t] = c /\ \A u \in Thread \ {t} : GoesOn(call[u], call'[u])
    BY <1>1, <1>4, <1>5, <1>6, CallBecomes
  <2>2. GoesOn(call[t], c)
    BY <1>2, <1>4 DEF GoesOn
  <2> QED BY <2>1, <2>2
<1>8. RacedSound' /\ raced \subseteq raced' /\ raced' \subseteq Path
  <2>1. CASE raced' = raced
    BY <1>1, <1>7, <2>1, RacedKept, Types
  <2>2. CASE Disturbs({p \in {call[t].path} : disk[p] # Absent})
    <3>1. {p \in {call[t].path} : disk[p] # Absent} \in SUBSET Path
      BY <1>2
    <3> QED BY <1>1, <1>7, <2>2, <3>1, Disturbed
  <2> QED BY <2>1, <2>2
<1>9. Learnt(call[t])'
  BY <1>4, <1>7 DEF Learnt
<1>10. disk' = disk /\ disk \in [Path -> Info] /\ UNCHANGED <<cache, numbers, stream, calls>>
  BY <1>1, Types
<1> QED BY <1>2, <1>4, <1>5, <1>6, <1>8, <1>9, <1>10, AnswerKeeps

LEMMA PepperQueryFailsKeeps ==
  ASSUME Inv, NEW t \in Thread, PepperQueryFails(t)
  PROVE  Inv'
<1>1. Typed /\ RacedSound /\ {"stat"} \subseteq Ops /\ Asked(t, {"stat"})
  BY DEF Inv, Ops, PepperQueryFails
<1>2. call[t].path \in Path /\ CallSound(call[t]) /\ call[t].op = "stat"
  BY <1>1, AskedFacts
<1>3. call[t].path \notin raced' => Absent = disk[call[t].path]
  BY DEF PepperQueryFails, Disturbs, Spread
<1> QED BY <1>1, <1>3, InfoFacts, QueryKeeps DEF PepperQueryFails

LEMMA PepperQueriesKeeps ==
  ASSUME Inv, NEW t \in Thread, PepperQueries(t)
  PROVE  Inv'
<1>1. Typed /\ {"stat"} \subseteq Ops /\ Asked(t, {"stat"})
  BY DEF Inv, Ops, PepperQueries
<1>2. call[t].path \in Path
  BY <1>1, AskedFacts
<1>3. disk[call[t].path] \in Info
  BY <1>1, <1>2, Types
<1> QED BY <1>1, <1>3, QueryKeeps DEF PepperQueries

LEMMA PepperOpensKeeps ==
  ASSUME Inv, NEW t \in Thread, PepperOpens(t)
  PROVE  Inv'
<1> DEFINE p == call[t].path
           ops == {"openRead", "openWrite", "openCreate", "truncate"}
<1>1. Typed /\ RacedSound /\ ops \subseteq Ops /\ Asked(t, ops)
  BY DEF Inv, Ops, PepperOpens
<1>2. /\ call[t] # Idle /\ p \in Path /\ call[t].op \in ops /\ call[t] \in Call
      /\ CallSound(call[t]) /\ call[t].phase = "asked" /\ call[t].to = NoPath
      /\ disk \in [Path -> Info]
  BY <1>1, AskedFacts, Types DEF Asked, CallSound
<1>3. /\ disk' \in [Path -> Info] /\ disk'[p] # Absent
      /\ \A q \in Path : disk'[q] = disk[q] \/ (q = p /\ call[t].op # "openRead")
      /\ \A q \in Path : disk[q] # Absent => disk'[q] # Absent
      /\ \A q \in Path : disk'[q] # Absent => disk[q] # Absent \/ InDirectory(q)
      /\ \A q \in Path : disk[q] = Directory => disk'[q] = Directory
  <2>1. CASE disk' = disk /\ (disk[p].is = "file" \/ disk[p] = Directory)
    BY <1>2, <2>1, InfoFacts
  <2>2. CASE Changeable(p) /\ call[t].op \in {"openWrite", "openCreate"} /\ Change(p)
    <3>1. disk[p] # Absent
      BY <2>2, InfoFacts DEF Changeable
    <3> QED BY <1>2, <2>2, <3>1, ChangeFacts DEF PathOrNone
  <2>3. CASE /\ disk[p] = Absent /\ InDirectory(p) /\ call[t].op = "openCreate"
             /\ disk' = [disk EXCEPT ![p] = File(0)]
    BY <1>2, <2>3, InfoFacts
  <2> QED BY <2>1, <2>2, <2>3 DEF PepperOpens
<1>4. PICK c : c = [call[t] EXCEPT !.phase = "ok", !.at = p, !.info = disk'[p]]
  OBVIOUS
<1>5. /\ c \in Call /\ c.op = call[t].op /\ c.path = p /\ c.to = NoPath
      /\ c.at = p /\ c.phase = "ok"
  BY <1>2, <1>3, <1>4 DEF Call, PathOrNone
<1>6. call' = [call EXCEPT ![t] = c]
  BY <1>1, <1>4, Types DEF PepperOpens
<1>7. CallSound(c) /\ Touched(c) \subseteq Touched(call[t]) /\ Proceeds(call[t], c)
  <2>1. CallSound(c)
    BY <1>1, <1>2, <1>5 DEF CallSound
  <2>2. Touched(c) \subseteq Touched(call[t])
    BY <1>2, <1>5 DEF Touched
  <2>3. ~Leaves(c) /\ ~Leaves(call[t])
    BY <1>2, <1>5 DEF Leaves
  <2> QED BY <1>5, <2>1, <2>2, <2>3 DEF Proceeds
<1>8. call'[t] = c /\ \A u \in Thread : GoesOn(call[u], call'[u])
  <2>1. call'[t] = c /\ \A u \in Thread \ {t} : GoesOn(call[u], call'[u])
    BY <1>1, <1>5, <1>6, <1>7, CallBecomes
  <2>2. GoesOn(call[t], c)
    BY <1>2, <1>5 DEF GoesOn
  <2> QED BY <2>1, <2>2
<1>9. UNCHANGED <<cache, numbers, stream, calls>> /\ raced' = raced
  BY DEF PepperOpens
<1>10. RacedSound' /\ raced' \subseteq Path
  BY <1>1, <1>8, <1>9, RacedKept, Types
<1>11. Learnt(call[t])'
  BY <1>2, <1>5, <1>8 DEF Learnt
<1>12. call[t].op # "openRead" => p \in Touched(call[t])
  BY <1>2, ConcernsFacts DEF ReadsOnly
<1> QED BY <1>2, <1>3, <1>5, <1>6, <1>7, <1>9, <1>10, <1>11, <1>12, AnswerKeeps

\* Files move along while Pepper works for t.
LEMMA FilesMoveFacts ==
  ASSUME Typed, NEW t \in Thread, call[t] # Idle, NEW where, NEW drifts \in SUBSET Path,
         FilesMove(t, where, drifts), where[NoPath] = NoPath,
         \A s \in Slot : where[stream[s].at] \in PathOrNone,
         \A u \in Thread : where[call[u].at] \in PathOrNone
  PROVE  /\ stream' \in [Slot -> Stream] /\ call' \in [Thread -> Call]
         /\ \A s \in Slot :
              /\ stream'[s].open = stream[s].open /\ stream'[s].inode = stream[s].inode
              /\ stream'[s].at = where[stream[s].at] /\ StreamSound(stream'[s])
              /\ Steady(s)' <=> Steady(s) /\ stream[s].at \notin drifts
         /\ \A u \in Thread : CallSound(call'[u]) /\ call'[u].at = where[call[u].at]
         /\ \A u \in Thread \ {t} : SameCall(call[u], call'[u])
         /\ call'[t].op = call[t].op /\ call'[t].path = call[t].path /\ call'[t].to = call[t].to
         /\ call'[t].info = call[t].info /\ call'[t].phase = "ok"
<1>1. /\ \A s \in Slot : stream[s] \in Stream /\ StreamSound(stream[s])
      /\ \A u \in Thread : call[u] \in Call /\ CallSound(call[u])
  BY Types
<1>2. ASSUME NEW s \in Slot
      PROVE  /\ stream'[s] \in Stream
             /\ stream'[s].open = stream[s].open /\ stream'[s].inode = stream[s].inode
             /\ stream'[s].at = where[stream[s].at] /\ stream'[s].path = stream[s].path
             /\ stream'[s].writable = stream[s].writable
             /\ stream'[s].adrift = (stream[s].adrift \/ stream[s].at \in drifts)
  <2>1. stream'[s] = [stream[s] EXCEPT !.at = where[@], !.adrift = @ \/ stream[s].at \in drifts]
    BY DEF FilesMove
  <2>2. stream[s] \in Stream
    BY <1>1
  <2> QED BY <2>1, <2>2 DEF Stream
<1>3. ASSUME NEW s \in Slot
      PROVE  StreamSound(stream'[s])
  <2>1. CASE stream[s].open
    BY <1>1, <1>2, <2>1 DEF StreamSound
  <2>2. CASE ~stream[s].open
    <3>1. stream[s] = Closed
      BY <1>1, <2>2 DEF StreamSound
    <3>2. NoPath \notin drifts
      BY PathLength
    <3>3. /\ stream'[s].open = FALSE /\ stream'[s].writable = FALSE /\ stream'[s].path = NoPath
          /\ stream'[s].at = NoPath /\ stream'[s].inode = 0 /\ stream'[s].adrift = FALSE
      <4>1. /\ stream[s].open = FALSE /\ stream[s].writable = FALSE /\ stream[s].path = NoPath
            /\ stream[s].at = NoPath /\ stream[s].inode = 0 /\ stream[s].adrift = FALSE
        BY <3>1 DEF Closed
      <4>2. stream'[s].adrift = FALSE
        BY <1>2, <3>2, <4>1
      <4>3. stream'[s].open = FALSE /\ stream'[s].writable = FALSE
        BY <1>2, <4>1
      <4>4. stream'[s].path = NoPath /\ stream'[s].at = NoPath /\ stream'[s].inode = 0
        BY <1>2, <4>1
      <4> QED BY <4>2, <4>3, <4>4
    <3>4. stream'[s] = Closed
      BY <1>2, <3>3 DEF Closed, Stream
    <3> QED BY <3>3, <3>4 DEF StreamSound
  <2> QED BY <2>1, <2>2
<1>4. ASSUME NEW s \in Slot
      PROVE  Steady(s)' <=> Steady(s) /\ stream[s].at \notin drifts
  BY <1>2 DEF Steady
<1>5. ASSUME NEW u \in Thread
      PROVE  /\ call'[u] \in Call /\ call'[u].at = where[call[u].at]
             /\ call'[u].op = call[u].op /\ call'[u].path = call[u].path
             /\ call'[u].to = call[u].to /\ call'[u].info = call[u].info
             /\ call'[u].phase = IF u = t THEN "ok" ELSE call[u].phase
  <2>1. call'[u] = [call[u] EXCEPT !.at = where[@], !.phase = IF u = t THEN "ok" ELSE @]
    BY DEF FilesMove
  <2>2. call[u] \in Call
    BY <1>1
  <2> QED BY <2>1, <2>2 DEF Call
<1>6. ASSUME NEW u \in Thread
      PROVE  CallSound(call'[u])
  <2>1. CASE call[u] = Idle
    <3>1. /\ call'[u].op = "idle" /\ call'[u].path = NoPath /\ call'[u].to = NoPath
          /\ call'[u].at = NoPath /\ call'[u].phase = "none" /\ call'[u].info = Unknown
      BY <1>5, <2>1, IdleFacts
    <3>2. call'[u] = Idle
      BY <1>5, <3>1 DEF Idle, Call
    <3> QED BY <3>2, IdleFacts
  <2>2. CASE call[u] # Idle
    BY <1>1, <1>5, <2>2 DEF CallSound
  <2> QED BY <2>1, <2>2
<1>7. \A u \in Thread \ {t} : SameCall(call[u], call'[u])
  BY <1>5 DEF SameCall
<1>8. stream' \in [Slot -> Stream] /\ call' \in [Thread -> Call]
  <2>1. /\ stream' = [s \in Slot |-> stream'[s]]
        /\ call' = [u \in Thread |-> call'[u]]
    BY DEF FilesMove
  <2> QED BY <1>2, <1>5, <2>1
<1> QED BY <1>2, <1>3, <1>4, <1>5, <1>6, <1>7, <1>8

\* Pepper has removed or renamed the file of t's call.
LEMMA MoveKeeps ==
  ASSUME Inv, NEW t \in Thread, call[t].op \in {"remove", "rename"}, call[t].phase = "asked",
         NEW where, NEW drifts \in SUBSET Path, FilesMove(t, where, drifts),
         where[NoPath] = NoPath, disk' \in [Path -> Info], TreeSound',
         \A q \in Path : disk[q] # Absent =>
           /\ where[q] \in PathOrNone
           /\ where[q] # NoPath => disk'[where[q]] # Absent
           /\ \/ where[q] = q /\ q \notin Concerns(call[t])
              \/ /\ where[q] = NoPath
                 /\ q = IF call[t].op = "rename" THEN call[t].to ELSE call[t].path
              \/ call[t].op = "rename" /\ q = call[t].path /\ where[q] = call[t].to
              \/ /\ call[t].op = "rename" /\ q \in drifts /\ q \in Concerns(call[t])
                 /\ where[q] \in Concerns(call[t]) \ {call[t].path},
         \A q \in Path : disk'[q] = disk[q] \/ q \in Touched(call[t]),
         Learnt(call[t])'
  PROVE  Inv'
<1>0. Typed /\ RacedSound /\ CacheSound /\ TreeSound /\ FilesExist /\ NumbersSound
  BY DEF Inv
<1>1. call[t] # Idle /\ call[t] \in Call /\ CallSound(call[t])
  BY <1>0, Types, IdleFacts
<1>2. /\ cache' = cache /\ inodes' = inodes /\ nextInode' = nextInode
      /\ raced' = raced /\ calls' = calls
  BY DEF FilesMove, numbers
<1>3. /\ \A s \in Slot : \/ stream[s].at = NoPath
                         \/ stream[s].at \in Path /\ disk[stream[s].at] # Absent
      /\ \A u \in Thread : \/ call[u].at = NoPath
                           \/ call[u].at \in Path /\ disk[call[u].at] # Absent
  <2>1. \A u \in Thread : call[u].at \in PathOrNone
    <3>1. \A u \in Thread : call[u] \in Call
      BY <1>0, Types
    <3> QED BY <3>1 DEF Call
  <2>2. \A s \in Slot : stream[s].at \in PathOrNone
    BY <1>0, Types
  <2> QED BY <1>0, <2>1, <2>2 DEF FilesExist, Exists, PathOrNone
<1>4. /\ \A s \in Slot : where[stream[s].at] \in PathOrNone
      /\ \A u \in Thread : where[call[u].at] \in PathOrNone
  BY <1>3 DEF PathOrNone
<1>5. /\ stream' \in [Slot -> Stream] /\ call' \in [Thread -> Call]
      /\ \A s \in Slot :
           /\ stream'[s].open = stream[s].open /\ stream'[s].inode = stream[s].inode
           /\ stream'[s].at = where[stream[s].at] /\ StreamSound(stream'[s])
           /\ Steady(s)' <=> Steady(s) /\ stream[s].at \notin drifts
      /\ \A u \in Thread : CallSound(call'[u]) /\ call'[u].at = where[call[u].at]
      /\ \A u \in Thread \ {t} : SameCall(call[u], call'[u])
      /\ call'[t].op = call[t].op /\ call'[t].path = call[t].path /\ call'[t].to = call[t].to
      /\ call'[t].info = call[t].info /\ call'[t].phase = "ok"
  BY <1>0, <1>1, <1>4, FilesMoveFacts
<1>6. Typed'
  <2>1. \A s \in Slot : stream'[s].inode < nextInode'
    BY <1>0, <1>2, <1>5, Types
  <2> QED BY <1>0, <1>2, <1>5, <2>1, Types, TypedNext
<1>7. RacedSound'
  <2>1. \A u \in Thread : GoesOn(call[u], call'[u])
    BY <1>5 DEF GoesOn, SameCall
  <2> QED BY <1>0, <1>2, <2>1, RacedKept
<1>8. CacheSound'
  <2>1. Touched(call'[t]) = Touched(call[t])
    BY <1>5 DEF Touched, Concerns
  <2>2. \A p \in Touched(call'[t]) \ raced' : cache'[p] = Unknown
    BY <1>0, <1>2, <2>1 DEF CacheSound, TouchedUnknown
  <2> QED BY <1>0, <1>2, <1>5, <1>7, <2>2, CacheActs
<1>9. FilesExist'
  <2>1. \A s \in Slot : stream'[s].at # NoPath => disk'[stream'[s].at] # Absent
    BY <1>3, <1>5
  <2>2. \A u \in Thread : call'[u].at # NoPath => disk'[call'[u].at] # Absent
    BY <1>3, <1>5
  <2> QED BY <2>1, <2>2 DEF FilesExist, Exists
<1>10. NumbersSound'
  <2>0. NoPath \notin Concerns(call[t]) /\ call[t].path \in Concerns(call[t])
        /\ (call[t].op = "rename" => call[t].to \in Concerns(call[t]))
    BY <1>1, ConcernsFacts, PathLength
  <2>1. ASSUME NEW u \in Thread \ {t}
        PROVE  \/ call'[u].at = call[u].at
               \/ /\ call[u].at \in Concerns(call[t])
                  /\ \/ call'[u].at = NoPath
                     \/ call[t].op = "rename" /\ call'[u].at \in Concerns(call[t])
    BY <1>3, <1>5, <2>0
  <2>2. ASSUME NEW s \in Slot
        PROVE  \/ stream'[s].at = stream[s].at /\ stream[s].at \notin Concerns(call[t])
               \/ /\ stream'[s].at = NoPath
                  /\ stream[s].at = IF call[t].op = "rename" THEN call[t].to ELSE call[t].path
               \/ /\ call[t].op = "rename" /\ stream[s].at = call[t].path
                  /\ stream'[s].at = call[t].to
               \/ ~Steady(s)' /\ stream'[s].at \in Concerns(call[t]) \ {call[t].path}
    BY <1>3, <1>5, <2>0
  <2>3. \A u \in Thread \ {t} :
          /\ SameCall(call[u], call'[u])
          /\ \/ call'[u].at = call[u].at
             \/ /\ call[u].at \in Concerns(call[t])
                /\ \/ call'[u].at = NoPath
                   \/ call[t].op = "rename" /\ call'[u].at \in Concerns(call[t])
    BY <1>5, <2>1
  <2>4. \A s \in Slot :
          /\ stream'[s].open = stream[s].open /\ stream'[s].inode = stream[s].inode
          /\ Steady(s)' => Steady(s)
          /\ \/ stream'[s].at = stream[s].at /\ stream[s].at \notin Concerns(call[t])
             \/ /\ stream'[s].at = NoPath
                /\ stream[s].at = IF call[t].op = "rename" THEN call[t].to ELSE call[t].path
             \/ /\ call[t].op = "rename" /\ stream[s].at = call[t].path
                /\ stream'[s].at = call[t].to
             \/ ~Steady(s)' /\ stream'[s].at \in Concerns(call[t]) \ {call[t].path}
    BY <1>5, <2>2
  <2>5. /\ call'[t].op = call[t].op /\ call'[t].path = call[t].path /\ call'[t].to = call[t].to
        /\ call'[t].phase = "ok" /\ raced' = raced /\ inodes' = inodes
    BY <1>2, <1>5
  <2> QED BY <1>0, <2>3, <2>4, <2>5, NumbersFollow
<1> QED BY <1>6, <1>7, <1>8, <1>9, <1>10 DEF Inv

LEMMA PepperDeletesKeeps ==
  ASSUME Inv, NEW t \in Thread, PepperDeletes(t)
  PROVE  Inv'
<1> DEFINE p == call[t].path
           where == [q \in Path \cup {NoPath} |-> IF q = p THEN NoPath ELSE q]
<1>0. Typed /\ TreeSound /\ Asked(t, {"remove"}) /\ {"remove"} \subseteq Ops
  BY DEF Inv, PepperDeletes, Ops
<1>1. /\ call[t].op = "remove" /\ call[t].phase = "asked" /\ p \in Path
      /\ call[t] # Idle /\ call[t] \in Call /\ CallSound(call[t]) /\ disk \in [Path -> Info]
  BY <1>0, AskedFacts, Types DEF Asked
<1>2. /\ disk' = [disk EXCEPT ![p] = Absent] /\ IsEmpty(p)
      /\ FilesMove(t, where, {})
  BY DEF PepperDeletes
<1>3. /\ disk' \in [Path -> Info] /\ disk'[p] = Absent
      /\ \A q \in Path : q # p => disk'[q] = disk[q]
  BY <1>1, <1>2, InfoFacts
<1>4. TreeSound'
  <2> SUFFICES ASSUME NEW q \in Path, disk'[q] # Absent PROVE InDirectory(q)'
    BY DEF TreeSound
  <2>1. disk[q] # Absent /\ InDirectory(q) /\ Parent(q) \in Path
    BY <1>0, <1>3, ParentFacts DEF TreeSound
  <2>2. Len(q) = 1 \/ Len(q) = 2
    BY PathLength
  <2>3. CASE Len(q) = 1
    BY <2>3, InDirectoryFacts
  <2>4. CASE Len(q) # 1
    <3>1. disk[Parent(q)] = Directory
      BY <2>1, <2>4, InDirectoryFacts
    <3>2. Parent(q) # p
      BY <1>1, <1>2, <2>1, <2>2, <2>4, BelowFacts DEF IsEmpty
    <3> QED BY <1>3, <2>1, <3>1, <3>2, InDirectoryFacts
  <2> QED BY <2>3, <2>4
<1>5. /\ Concerns(call[t]) = AtOrBelow(p) /\ p \in Touched(call[t])
  BY <1>1, ConcernsFacts DEF ReadsOnly
<1>6. ASSUME NEW q \in Path, disk[q] # Absent
      PROVE  /\ where[q] \in PathOrNone
             /\ where[q] # NoPath => disk'[where[q]] # Absent
             /\ \/ where[q] = q /\ q \notin Concerns(call[t])
                \/ where[q] = NoPath /\ q = p
  <2>1. q \notin Below(p)
    BY <1>2, <1>6 DEF IsEmpty
  <2> QED BY <1>1, <1>3, <1>5, <1>6, <2>1, AtOrBelowFacts DEF PathOrNone
<1>7. where[NoPath] = NoPath
  OBVIOUS
<1>8. Learnt(call[t])'
  <2>1. call'[t] = [call[t] EXCEPT !.at = where[@], !.phase = "ok"]
    BY <1>2 DEF FilesMove
  <2>2. call'[t].op = "remove" /\ call'[t].path = p
    BY <1>1, <2>1 DEF Call
  <2> QED BY <1>3, <2>2 DEF Learnt
<1>9. \A q \in Path : disk'[q] = disk[q] \/ q \in Touched(call[t])
  BY <1>3, <1>5
<1> HIDE DEF where
<1> QED BY <1>1, <1>2, <1>3, <1>4, <1>6, <1>7, <1>8, <1>9, MoveKeeps

LEMMA PepperRenamesKeeps ==
  ASSUME Inv, NEW t \in Thread, PepperRenames(t)
  PROVE  Inv'
<1> DEFINE o == call[t].path
           n == call[t].to
           where == [q \in Path \cup {NoPath} |-> Moved(o, n, q)]
<1>0. Typed /\ TreeSound /\ CacheSound /\ Asked(t, {"rename"}) /\ {"rename"} \subseteq Ops
  BY DEF Inv, PepperRenames, Ops
<1>1. /\ call[t].op = "rename" /\ call[t].phase = "asked" /\ o \in Path
      /\ call[t] # Idle /\ call[t] \in Call /\ CallSound(call[t]) /\ disk \in [Path -> Info]
  BY <1>0, AskedFacts, Types DEF Asked
<1>2. /\ n \in Path /\ n # o /\ Concerns(call[t]) = AtOrBelow(o) \cup AtOrBelow(n)
      /\ Touched(call[t]) = Concerns(call[t])
  <2>1. n \in Path /\ n # o
    BY <1>1 DEF CallSound
  <2>2. Concerns(call[t]) = AtOrBelow(o) \cup AtOrBelow(n)
    BY <1>1, ConcernsFacts
  <2>3. Touched(call[t]) = Concerns(call[t])
    BY <1>1 DEF Touched, ReadsOnly
  <2> QED BY <2>1, <2>2, <2>3
<1>3. CanRename(o, n) /\ disk' = Renamed(o, n) /\ FilesMove(t, where, Below(o))
  BY DEF PepperRenames
<1>4. /\ disk' \in [Path -> Info] /\ disk'[n] = disk[o] /\ TreeSound'
      /\ \A p \in Path : p \notin AtOrBelow(o) /\ p \notin AtOrBelow(n) => disk'[p] = disk[p]
      /\ \A p \in Below(n) : disk[p] = Absent
  BY <1>0, <1>1, <1>2, <1>3, RenameFacts
<1>5. o \notin Below(n)
  BY <1>3, <1>4 DEF CanRename
<1>6. ASSUME NEW q \in Path, disk[q] # Absent
      PROVE  /\ where[q] \in PathOrNone
             /\ where[q] # NoPath => disk'[where[q]] # Absent
             /\ \/ where[q] = q /\ q \notin Concerns(call[t])
                \/ where[q] = NoPath /\ q = n
                \/ q = o /\ where[q] = n
                \/ /\ q \in Below(o) /\ q \in Concerns(call[t])
                   /\ where[q] \in Concerns(call[t]) \ {o}
  <2>1. where[q] = Moved(o, n, q)
    OBVIOUS
  <2>2. /\ q = o => Moved(o, n, q) = n
        /\ q \in Below(o) => Moved(o, n, q) \in Below(n)
        /\ q = n => Moved(o, n, q) = NoPath
        /\ q \notin AtOrBelow(o) /\ q \notin AtOrBelow(n) => Moved(o, n, q) = q
        /\ Moved(o, n, q) \in PathOrNone
        /\ Moved(o, n, q) # NoPath => disk'[Moved(o, n, q)] # Absent
    BY <1>0, <1>1, <1>2, <1>3, <1>6, RenameFacts
  <2> HIDE DEF where
  <2>3. CASE q = o
    BY <2>1, <2>2, <2>3
  <2>4. CASE q \in Below(o)
    <3>1. Moved(o, n, q) \in Below(n) /\ q \in AtOrBelow(o) /\ Below(n) \subseteq AtOrBelow(n)
      BY <1>1, <1>2, <2>2, <2>4, AtOrBelowFacts
    <3> QED BY <1>2, <1>5, <2>1, <2>2, <2>4, <3>1
  <2>5. CASE q = n
    BY <2>1, <2>2, <2>5
  <2>6. CASE q # o /\ q \notin Below(o) /\ q # n
    <3>1. q \notin Below(n)
      BY <1>4, <1>6
    <3>2. q \notin AtOrBelow(o) /\ q \notin AtOrBelow(n)
      BY <2>6, <3>1 DEF AtOrBelow
    <3> QED BY <1>2, <2>1, <2>2, <3>2
  <2> QED BY <2>3, <2>4, <2>5, <2>6
<1>7. where[NoPath] = NoPath
  <2>1. where[NoPath] = Moved(o, n, NoPath)
    OBVIOUS
  <2>2. NoPath \notin AtOrBelow(o) /\ NoPath \notin AtOrBelow(n)
    BY <1>1, <1>2, AtOrBelowFacts
  <2> QED BY <2>1, <2>2 DEF Moved
<1> HIDE DEF where
<1>8. Learnt(call[t])'
  <2>1. call'[t] = [call[t] EXCEPT !.at = where[@], !.phase = "ok"] /\ raced' = raced
    BY <1>3 DEF FilesMove
  <2>2. /\ call'[t].op = "rename" /\ call'[t].path = o /\ call'[t].to = n
        /\ call'[t].phase = "ok" /\ call'[t].info = call[t].info
    BY <1>1, <2>1 DEF Call
  <2>3. call[t].info # Unknown /\ o \notin raced => call[t].info = disk[o]
    BY <1>0, <1>1 DEF CacheSound, LearntTrue, Learnt
  <2> QED BY <1>4, <2>1, <2>2, <2>3 DEF Learnt
<1>9. \A q \in Path : disk'[q] = disk[q] \/ q \in Touched(call[t])
  BY <1>2, <1>4
<1>10. Below(o) \in SUBSET Path
  BY <1>1, AtOrBelowFacts
<1>11. \A q \in Path : disk[q] # Absent =>
         /\ where[q] \in PathOrNone
         /\ where[q] # NoPath => disk'[where[q]] # Absent
         /\ \/ where[q] = q /\ q \notin Concerns(call[t])
            \/ /\ where[q] = NoPath
               /\ q = IF call[t].op = "rename" THEN call[t].to ELSE call[t].path
            \/ call[t].op = "rename" /\ q = call[t].path /\ where[q] = call[t].to
            \/ /\ call[t].op = "rename" /\ q \in Below(o) /\ q \in Concerns(call[t])
               /\ where[q] \in Concerns(call[t]) \ {call[t].path}
  BY <1>1, <1>6
<1> QED BY <1>1, <1>3, <1>4, <1>7, <1>8, <1>9, <1>10, <1>11, MoveKeeps

-----------------------------------------------------------------------------
(* The end of a call *)

\* With the mutex again, t updates the cache and the numbers.
LEMMA ReturnKeeps ==
  ASSUME Inv, NEW t \in Thread, NEW c \in Call, CallSound(c), call' = [call EXCEPT ![t] = c],
         UNCHANGED <<disk, raced, calls>>, GoesOn(call[t], c),
         cache' \in [Path -> Info \cup {Unknown}],
         \A p \in Path \ raced : \/ cache'[p] \in {Unknown, cache[p]}
                                 \/ cache'[p] = disk[p] /\ p \in Concerns(call[t]),
         Learnt(call[t])', \A p \in Touched(c) \ raced : cache'[p] = Unknown,
         inodes' \in [Path -> 0 .. MaxInode], nextInode' \in 1 .. MaxInode + 1,
         \A x \in Path : inodes'[x] < nextInode', nextInode <= nextInode',
         stream' \in [Slot -> Stream],
         \A s \in Slot : \/ stream'[s] = stream[s]
                         \/ /\ StreamSound(stream'[s]) /\ stream'[s].inode < nextInode'
                            /\ stream'[s].at = call[t].at,
         c.at \in {NoPath, call[t].at}, NumbersSound'
  PROVE  Inv'
<1>0. Typed /\ RacedSound /\ CacheSound /\ TreeSound /\ FilesExist /\ NumbersSound
  BY DEF Inv
<1>1. /\ call' \in [Thread -> Call] /\ call'[t] = c
      /\ \A u \in Thread : CallSound(call'[u])
      /\ \A u \in Thread \ {t} : /\ call'[u] = call[u] /\ SameCall(call[u], call'[u])
                                 /\ GoesOn(call[u], call'[u])
  BY <1>0, CallBecomes
<1>2. disk' = disk /\ raced' = raced /\ calls' = calls
  OBVIOUS
<1>3. Typed'
  <2>1. \A s \in Slot : StreamSound(stream'[s]) /\ stream'[s].inode < nextInode'
    BY <1>0, Types
  <2> QED BY <1>0, <1>1, <1>2, <2>1, Types, TypedNext
<1>4. RacedSound'
  <2>1. \A u \in Thread : GoesOn(call[u], call'[u])
    BY <1>1
  <2> QED BY <1>0, <1>2, <2>1, RacedKept
<1>5. CacheSound'
  <2>1. \A p \in Touched(call'[t]) \ raced' : cache'[p] = Unknown
    BY <1>1, <1>2
  <2> QED BY <1>0, <1>1, <1>2, <1>4, <2>1, CacheActs
<1>6. TreeSound'
  BY <1>0, <1>2, TreeKept
<1>7. FilesExist'
  <2>1. \A u \in Thread : call'[u].at \in {NoPath, call[u].at}
    BY <1>1
  <2>2. \A s \in Slot : \/ stream'[s].at \in {NoPath, stream[s].at}
                        \/ \E u \in Thread : stream'[s].at = call[u].at
    OBVIOUS
  <2> QED BY <1>0, <1>2, <2>1, <2>2, FilesKept
<1> QED BY <1>3, <1>4, <1>5, <1>6, <1>7 DEF Inv

\* What Set does to the cache.
LEMMA SetFacts ==
  ASSUME Typed, NEW p \in Path, NEW info \in Info \cup {Unknown}
  PROVE  /\ Set(p, info) \in [Path -> Info \cup {Unknown}] /\ Set(p, info)[p] = info
         /\ \A q \in Path : q # p => Set(p, info)[q] = cache[q]
<1>1. cache \in [Path -> Info \cup {Unknown}]
  BY Types
<1> QED BY <1>1 DEF Set

LEMMA ReturnStatKeeps ==
  ASSUME Inv, NEW t \in Thread, ReturnStat(t)
  PROVE  Inv'
<1> DEFINE p == call[t].path
<1>0. /\ Typed /\ RacedSound /\ CacheSound /\ NumbersSound /\ Answered(t, {"stat"})
      /\ {"stat"} \subseteq Ops /\ Ends(t)
  BY DEF Inv, ReturnStat, Ops
<1>1. /\ call[t].op = "stat" /\ call[t].phase = "ok" /\ p \in Path /\ call[t] # Idle
      /\ call[t] \in Call /\ CallSound(call[t])
  BY <1>0, AskedFacts DEF Answered
<1>2. disk' = disk /\ stream' = stream /\ raced' = raced /\ calls' = calls
  BY DEF ReturnStat
<1>3. /\ cache' \in [Path -> Info \cup {Unknown}] /\ cache'[p] = call[t].info
      /\ \A q \in Path : q # p => cache'[q] = cache[q]
  <2>1. call[t].info \in Info \cup {Unknown}
    BY <1>1 DEF Call
  <2> QED BY <1>0, <1>1, <2>1, SetFacts DEF ReturnStat
<1>4. p \notin raced => call[t].info = disk[p]
  BY <1>0, <1>1 DEF CacheSound, LearntTrue, Learnt
<1>5. p \in Concerns(call[t])
  BY <1>1, ConcernsFacts
<1>6. /\ inodes' \in [Path -> 0 .. MaxInode] /\ nextInode' \in 1 .. MaxInode + 1
      /\ \A x \in Path : inodes'[x] < nextInode'
      /\ nextInode <= nextInode'
      /\ \A x \in Path : \/ inodes'[x] = inodes[x]
                         \/ x = p /\ inodes[x] = 0 /\ inodes'[x] = nextInode
  <2>1. CASE UNCHANGED numbers
    <3>1. inodes' = inodes /\ nextInode' = nextInode
      BY <2>1 DEF numbers
    <3>2. nextInode <= nextInode
      BY <1>0, Types, ConstantsAssumption
    <3> QED BY <1>0, <3>1, <3>2, Types
  <2>2. CASE GetInode(p)
    BY <1>0, <1>1, <2>2, GetInodeFacts
  <2> QED BY <2>1, <2>2 DEF ReturnStat
<1>7. /\ Idle \in Call /\ CallSound(Idle) /\ call' = [call EXCEPT ![t] = Idle]
      /\ Learnt(call[t])' /\ Touched(Idle) = {} /\ Idle.at = NoPath
      /\ Proceeds(call[t], Idle) /\ GoesOn(call[t], Idle)
  BY <1>0, <1>1, EndsFacts DEF Leaves, GoesOn
<1>8. NumbersSound'
  <2>1. \A u \in Thread : Proceeds(call[u], call'[u])
    BY <1>0, <1>7, CallBecomes
  <2> QED BY <1>0, <1>1, <1>2, <1>6, <2>1, NumbersGrow
<1>9. stream' \in [Slot -> Stream]
  BY <1>0, <1>2, Types
<1> QED BY <1>2, <1>3, <1>4, <1>5, <1>6, <1>7, <1>8, <1>9, ReturnKeeps

LEMMA ReturnOpenKeeps ==
  ASSUME Inv, NEW t \in Thread, ReturnOpen(t)
  PROVE  Inv'
<1>0. /\ Typed /\ RacedSound /\ CacheSound /\ NumbersSound
      /\ Answered(t, {"openRead", "openWrite", "openCreate"})
      /\ {"openRead", "openWrite", "openCreate"} \subseteq Ops /\ Ends(t)
  BY DEF Inv, ReturnOpen, Ops
<1>1. /\ call[t].op \in Opens /\ call[t].phase = "ok" /\ call[t].path \in Path /\ call[t] # Idle
      /\ call[t] \in Call /\ CallSound(call[t]) /\ call[t].at \in PathOrNone
  BY <1>0, AskedFacts DEF Answered, Opens, Call
<1>2. PICK p \in Path : p = call[t].path
  BY <1>1
<1> DEFINE s == CHOOSE r \in Slot : ~stream[r].open
           f == [open |-> TRUE, writable |-> call[t].op # "openRead", path |-> p,
                 at |-> call[t].at, inode |-> Inode(p), adrift |-> FALSE]
<1>3. /\ disk' = disk /\ cache' = cache /\ raced' = raced /\ calls' = calls /\ GetInode(p)
      /\ s \in Slot
  BY <1>2 DEF ReturnOpen
<1>4. /\ inodes' \in [Path -> 0 .. MaxInode] /\ nextInode' \in 1 .. MaxInode + 1
      /\ \A x \in Path : inodes'[x] < nextInode'
      /\ nextInode <= nextInode' /\ inodes'[p] = Inode(p) /\ inodes'[p] # 0
      /\ \A x \in Path : \/ inodes'[x] = inodes[x]
                         \/ x = p /\ inodes[x] = 0 /\ inodes'[x] = nextInode
  BY <1>0, <1>1, <1>3, GetInodeFacts
<1>5. /\ Idle \in Call /\ CallSound(Idle) /\ call' = [call EXCEPT ![t] = Idle] /\ call'[t] = Idle
      /\ Learnt(call[t])' /\ Touched(Idle) = {} /\ Idle.at = NoPath
      /\ Proceeds(call[t], Idle) /\ GoesOn(call[t], Idle)
  BY <1>0, <1>1, EndsFacts DEF Leaves, GoesOn, Opens
<1>6. \A u \in Thread : Proceeds(call[u], call'[u])
  BY <1>0, <1>5, CallBecomes
<1>7. /\ f \in Stream /\ StreamSound(f) /\ f.at = call[t].at /\ f.inode = Inode(p) /\ f.open
  <2>1. Inode(p) \in 0 .. MaxInode /\ Inode(p) # 0
    BY <1>1, <1>4
  <2> HIDE DEF Inode
  <2> QED BY <1>1, <2>1 DEF Stream, StreamSound, PathOrNone
<1>8. \A r \in Slot : stream'[r] = stream[r] \/ stream'[r] = f
  <2>1. stream \in [Slot -> Stream] /\ (stream' = stream \/ stream' = [stream EXCEPT ![s] = f])
    BY <1>0, <1>2, Types DEF ReturnOpen
  <2> HIDE DEF f, s
  <2> QED BY <2>1
<1>9. stream' \in [Slot -> Stream]
  <2>1. stream \in [Slot -> Stream] /\ (stream' = stream \/ stream' = [stream EXCEPT ![s] = f])
    BY <1>0, <1>2, Types DEF ReturnOpen
  <2> HIDE DEF f, s
  <2> QED BY <1>7, <2>1
<1> HIDE DEF f, s
<1>10. p \notin raced => \A u \in Thread :
        ~Removed(u, p)' /\ \A q : ~Moving(u, q, p)' /\ ~Moving(u, p, q)'
  <2> SUFFICES ASSUME p \notin raced, NEW u \in Thread
               PROVE  ~Removed(u, p)' /\ \A q : ~Moving(u, q, p)' /\ ~Moving(u, p, q)'
    OBVIOUS
  <2>1. /\ Removed(u, p)' <=> Removed(u, p)
        /\ \A q : Moving(u, q, p)' <=> Moving(u, q, p)
        /\ \A q : Moving(u, p, q)' <=> Moving(u, p, q)
    BY <1>6, LeaversKept
  <2>2. CASE u = t
    <3>1. call[u].op \notin {"remove", "rename"}
      BY <1>1, <2>2 DEF Opens
    <3>2. ~Removed(u, p) /\ \A q : ~Moving(u, q, p) /\ ~Moving(u, p, q)
      BY <3>1 DEF Removed, Moving
    <3> QED BY <2>1, <3>2
  <2>3. CASE u # t
    <3>1. p \in Concerns(call[t])
      BY <1>1, <1>2, ConcernsFacts
    <3>2. ~ReadsOnly(call[u].op) => p \notin Concerns(call[u])
      BY <1>0, <2>3, <3>1, Meet
    <3>3. ~Removed(u, p) /\ \A q : ~Moving(u, q, p) /\ ~Moving(u, p, q)
      BY <1>0, <3>2, LeaverFacts
    <3> QED BY <2>1, <3>3
  <2> QED BY <2>2, <2>3
<1>11. /\ p \notin raced => call[t].at = p
       /\ call[t].at \in Path \ raced => call[t].at = p
  BY <1>0, <1>1, <1>2, PathLength DEF NumbersSound, OpenedThere
<1>12. \A r \in Slot : stream'[r] = stream[r] \/ Opened(r, p)
  BY <1>3, <1>4, <1>7, <1>8, <1>10, <1>11 DEF Opened
<1>13. NumbersSound'
  BY <1>0, <1>1, <1>3, <1>4, <1>6, <1>12, NumbersGrow
<1>14. \A r \in Slot : \/ stream'[r] = stream[r]
                       \/ /\ StreamSound(stream'[r]) /\ stream'[r].inode < nextInode'
                          /\ stream'[r].at = call[t].at
  BY <1>1, <1>4, <1>7, <1>8
<1>15. cache' \in [Path -> Info \cup {Unknown}]
  BY <1>0, <1>3, Types
<1> QED BY <1>3, <1>4, <1>5, <1>9, <1>13, <1>14, <1>15, ReturnKeeps

LEMMA TruncateOpenedKeeps ==
  ASSUME Inv, NEW t \in Thread, TruncateOpened(t)
  PROVE  Inv'
<1> DEFINE p == call[t].path
<1>0. /\ Typed /\ RacedSound /\ CacheSound /\ NumbersSound /\ Answered(t, {"truncate"})
      /\ {"truncate"} \subseteq Ops
  BY DEF Inv, TruncateOpened, Ops
<1>1. /\ call[t].op = "truncate" /\ call[t].phase = "ok" /\ p \in Path /\ call[t] # Idle
      /\ call[t] \in Call /\ CallSound(call[t]) /\ call[t].to = NoPath
  BY <1>0, AskedFacts DEF Answered, CallSound
<1>2. /\ disk' = disk /\ stream' = stream /\ raced' = raced /\ calls' = calls
      /\ GetInode(p) /\ cache' = Invalidated(p)
  BY DEF TruncateOpened
<1>3. PICK c : c = [call[t] EXCEPT !.op = "ftruncate", !.phase = "asked"]
  OBVIOUS
<1>4. /\ c \in Call /\ c.op = "ftruncate" /\ c.path = p /\ c.to = NoPath
      /\ c.at = call[t].at /\ c.phase = "asked"
  BY <1>1, <1>3 DEF Call, Ops
<1>5. call' = [call EXCEPT ![t] = c]
  BY <1>0, <1>3, Types DEF TruncateOpened
<1>6. CallSound(c) /\ Touched(c) \subseteq {p} /\ GoesOn(call[t], c) /\ Proceeds(call[t], c)
  BY <1>1, <1>4 DEF CallSound, Touched, GoesOn, Proceeds, Leaves, Ops
<1>7. /\ call'[t] = c /\ \A u \in Thread : Proceeds(call[u], call'[u])
  BY <1>0, <1>4, <1>5, <1>6, CallBecomes
<1>8. Learnt(call[t])'
  BY <1>4, <1>7 DEF Learnt
<1>9. /\ cache' \in [Path -> Info \cup {Unknown}] /\ cache'[p] = Unknown
      /\ \A q \in Path : cache'[q] \in {Unknown, cache[q]}
  BY <1>0, <1>1, <1>2, InvalidatedFacts
<1>10. /\ inodes' \in [Path -> 0 .. MaxInode] /\ nextInode' \in 1 .. MaxInode + 1
       /\ \A x \in Path : inodes'[x] < nextInode'
       /\ nextInode <= nextInode'
       /\ \A x \in Path : \/ inodes'[x] = inodes[x]
                          \/ x = p /\ inodes[x] = 0 /\ inodes'[x] = nextInode
  BY <1>0, <1>1, <1>2, GetInodeFacts
<1>11. NumbersSound'
  BY <1>0, <1>1, <1>2, <1>7, <1>10, NumbersGrow
<1>12. stream' \in [Slot -> Stream]
  BY <1>0, <1>2, Types
<1> QED BY <1>2, <1>4, <1>5, <1>6, <1>8, <1>9, <1>10, <1>11, <1>12, ReturnKeeps

LEMMA ReturnRemoveKeeps ==
  ASSUME Inv, NEW t \in Thread, ReturnRemove(t)
  PROVE  Inv'
<1> DEFINE p == call[t].path
<1>0. /\ Typed /\ RacedSound /\ CacheSound /\ NumbersSound /\ Answered(t, {"remove"})
      /\ {"remove"} \subseteq Ops /\ Ends(t)
  BY DEF Inv, ReturnRemove, Ops
<1>1. /\ call[t].op = "remove" /\ call[t].phase = "ok" /\ p \in Path /\ call[t] # Idle
      /\ call[t] \in Call /\ CallSound(call[t]) /\ call[t].to = NoPath
  BY <1>0, AskedFacts DEF Answered, CallSound
<1>2. /\ disk' = disk /\ stream' = stream /\ raced' = raced /\ calls' = calls
      /\ nextInode' = nextInode /\ inodes' = [inodes EXCEPT ![p] = 0] /\ cache' = Set(p, Absent)
  BY DEF ReturnRemove, RemoveInode
<1>3. /\ cache' \in [Path -> Info \cup {Unknown}] /\ cache'[p] = Absent
      /\ \A q \in Path : q # p => cache'[q] = cache[q]
  BY <1>0, <1>1, <1>2, SetFacts, InfoFacts
<1>4. p \notin raced => disk[p] = Absent
  BY <1>0, <1>1 DEF CacheSound, LearntTrue, Learnt
<1>5. p \in Concerns(call[t])
  BY <1>1, ConcernsFacts
<1>6. /\ inodes' \in [Path -> 0 .. MaxInode] /\ nextInode' \in 1 .. MaxInode + 1
      /\ \A x \in Path : inodes'[x] < nextInode'
      /\ nextInode <= nextInode' /\ inodes'[p] = 0
      /\ \A x \in Path : x # p => inodes'[x] = inodes[x]
  BY <1>0, <1>1, <1>2, Types, ConstantsAssumption
<1>7. /\ Idle \in Call /\ CallSound(Idle) /\ call' = [call EXCEPT ![t] = Idle]
      /\ Learnt(call[t])' /\ Touched(Idle) = {} /\ Idle.at = NoPath /\ GoesOn(call[t], Idle)
  BY <1>0, <1>1, EndsFacts DEF GoesOn
<1>8. NumbersSound'
  <2>1. Leaves(call[t])
    BY <1>1 DEF Leaves
  <2>2. /\ \A x \in Path : x # call[t].path /\ x # call[t].to => inodes'[x] = inodes[x]
        /\ inodes'[call[t].path] = 0
        /\ call[t].op = "rename" => inodes'[call[t].to] = inodes[call[t].path]
    BY <1>1, <1>6
  <2> QED BY <1>0, <1>2, <1>7, <2>1, <2>2, NumbersLeave
<1>9. stream' \in [Slot -> Stream]
  BY <1>0, <1>2, Types
<1>10. \A q \in Path \ raced : \/ cache'[q] \in {Unknown, cache[q]}
                               \/ cache'[q] = disk[q] /\ q \in Concerns(call[t])
  BY <1>3, <1>4, <1>5
<1>11. UNCHANGED <<disk, raced, calls>> /\ stream' = stream
  BY <1>2
<1> QED BY <1>3, <1>6, <1>7, <1>8, <1>9, <1>10, <1>11, ReturnKeeps

LEMMA ReturnRenameKeeps ==
  ASSUME Inv, NEW t \in Thread, ReturnRename(t)
  PROVE  Inv'
<1> DEFINE o == call[t].path
           n == call[t].to
<1>0. /\ Typed /\ RacedSound /\ CacheSound /\ NumbersSound /\ Answered(t, {"rename"})
      /\ {"rename"} \subseteq Ops /\ Ends(t)
  BY DEF Inv, ReturnRename, Ops
<1>1. /\ call[t].op = "rename" /\ call[t].phase = "ok" /\ o \in Path /\ call[t] # Idle
      /\ call[t] \in Call /\ CallSound(call[t]) /\ call[t].info \in Info \cup {Unknown}
  BY <1>0, AskedFacts DEF Answered, Call
<1>2. /\ n \in Path /\ n # o /\ o \in Concerns(call[t]) /\ n \in Concerns(call[t])
      /\ Below(o) \subseteq Concerns(call[t])
      /\ Touched(call[t]) = Concerns(call[t]) /\ (n \in raced <=> o \in raced)
  <2>1. n \in Path /\ n # o
    BY <1>1 DEF CallSound
  <2>2. /\ Concerns(call[t]) = AtOrBelow(o) \cup AtOrBelow(n)
        /\ o \in Concerns(call[t]) /\ n \in Concerns(call[t])
    BY <1>1, ConcernsFacts
  <2>3. Touched(call[t]) = Concerns(call[t])
    BY <1>1 DEF Touched, ReadsOnly
  <2>4. n \in raced <=> o \in raced
    BY <1>0, <1>1, <2>2 DEF RacedSound, RenamesWhole
  <2>5. Below(o) \subseteq Concerns(call[t])
    BY <1>1, <2>2, AtOrBelowFacts
  <2> QED BY <2>1, <2>2, <2>3, <2>4, <2>5
<1>3. /\ disk' = disk /\ stream' = stream /\ raced' = raced /\ calls' = calls
      /\ nextInode' = nextInode
      /\ inodes' = [inodes EXCEPT ![n] = inodes[o], ![o] = 0]
      /\ cache' = [q \in Path |->
                     IF q = n /\ call[t].info # Unknown THEN call[t].info
                     ELSE IF q \in Below(o) /\ cache[q] # Unknown THEN Absent
                     ELSE cache[q]]
  BY DEF ReturnRename, ReassignInode
<1>4. cache' \in [Path -> Info \cup {Unknown}]
  <2>1. cache \in [Path -> Info \cup {Unknown}]
    BY <1>0, Types
  <2> QED BY <1>1, <1>3, <2>1, InfoFacts
<1>5. ASSUME NEW q \in Path \ raced
      PROVE  \/ cache'[q] \in {Unknown, cache[q]}
             \/ cache'[q] = disk[q] /\ q \in Concerns(call[t])
  <2>1. CASE q = n /\ call[t].info # Unknown
    <3>1. call[t].info = disk[n]
      BY <1>0, <1>1, <1>2, <2>1 DEF CacheSound, LearntTrue, Learnt
    <3> QED BY <1>2, <1>3, <2>1, <3>1
  <2>2. CASE ~(q = n /\ call[t].info # Unknown)
    <3>1. q \in Below(o) => cache[q] = Unknown
      BY <1>0, <1>2 DEF CacheSound, TouchedUnknown
    <3> QED BY <1>3, <2>2, <3>1
  <2> QED BY <2>1, <2>2
<1>6. /\ inodes' \in [Path -> 0 .. MaxInode] /\ nextInode' \in 1 .. MaxInode + 1
      /\ \A x \in Path : inodes'[x] < nextInode'
      /\ nextInode <= nextInode' /\ inodes'[o] = 0 /\ inodes'[n] = inodes[o]
      /\ \A x \in Path : x # o /\ x # n => inodes'[x] = inodes[x]
  <2>1. /\ inodes \in [Path -> 0 .. MaxInode] /\ nextInode \in 1 .. MaxInode + 1
        /\ \A x \in Path : inodes[x] < nextInode
    BY <1>0, Types
  <2>2. /\ inodes'[o] = 0 /\ inodes'[n] = inodes[o]
        /\ \A x \in Path : x # o /\ x # n => inodes'[x] = inodes[x]
    BY <1>1, <1>2, <1>3, <2>1
  <2>3. 0 \in 0 .. MaxInode /\ inodes[o] \in 0 .. MaxInode
    BY <1>1, <2>1, ConstantsAssumption
  <2>4. inodes' \in [Path -> 0 .. MaxInode]
    BY <1>3, <2>1, <2>3
  <2>5. \A x \in Path : inodes'[x] < nextInode
    BY <1>1, <1>2, <2>1, <2>2, ConstantsAssumption
  <2>6. nextInode <= nextInode
    BY <2>1, ConstantsAssumption
  <2> QED BY <1>3, <2>1, <2>2, <2>4, <2>5, <2>6
<1>7. /\ Idle \in Call /\ CallSound(Idle) /\ call' = [call EXCEPT ![t] = Idle]
      /\ Learnt(call[t])' /\ Touched(Idle) = {} /\ Idle.at = NoPath /\ GoesOn(call[t], Idle)
  BY <1>0, <1>1, EndsFacts DEF GoesOn
<1>8. NumbersSound'
  <2>1. Leaves(call[t])
    BY <1>1 DEF Leaves
  <2>2. /\ \A x \in Path : x # call[t].path /\ x # call[t].to => inodes'[x] = inodes[x]
        /\ inodes'[call[t].path] = 0
        /\ call[t].op = "rename" => inodes'[call[t].to] = inodes[call[t].path]
    BY <1>6
  <2> QED BY <1>0, <1>3, <1>7, <2>1, <2>2, NumbersLeave
<1>9. stream' \in [Slot -> Stream]
  BY <1>0, <1>3, Types
<1> QED BY <1>3, <1>4, <1>5, <1>6, <1>7, <1>8, <1>9, ReturnKeeps

-----------------------------------------------------------------------------
(* Steps that do not release the mutex *)

LEMMA QuietKeeps ==
  ASSUME Inv, NEW p \in Path, Counted, UNCHANGED <<numbers, call>>,
         RacedSound', raced \subseteq raced', raced' \subseteq Path,
         disk' \in [Path -> Info], cache' \in [Path -> Info \cup {Unknown}],
         \A q \in Path : disk[q] # Absent <=> disk'[q] # Absent,
         \A q \in Path : disk[q] = Directory => disk'[q] = Directory,
         \A q \in Path \ raced' :
           \/ disk'[q] = disk[q] /\ cache'[q] \in {Unknown, cache[q]}
           \/ Quiet(q) /\ cache'[q] \in {Unknown, disk'[q]},
         stream' \in [Slot -> Stream],
         \A s \in Slot : stream'[s] = stream[s] \/ stream'[s] = Closed
  PROVE  Inv'
<1>0. Typed /\ RacedSound /\ CacheSound /\ TreeSound /\ FilesExist /\ NumbersSound
  BY DEF Inv
<1>1. inodes' = inodes /\ nextInode' = nextInode /\ call' = call /\ calls' \in 0 .. MaxCalls
  BY <1>0, CountedFacts DEF numbers
<1>2. Typed'
  <2>1. \A s \in Slot : StreamSound(stream'[s]) /\ stream'[s].inode < nextInode'
    <3> TAKE s \in Slot
    <3>1. CASE stream'[s] = stream[s]
      BY <1>0, <1>1, <3>1, Types
    <3>2. CASE stream'[s] = Closed
      <4>1. 0 < nextInode
        BY <1>0, Types, ConstantsAssumption
      <4> QED BY <1>1, <3>2, <4>1 DEF StreamSound, Closed
    <3> QED BY <3>1, <3>2
  <2> QED BY <1>0, <1>1, <2>1, Types, TypedNext
<1>3. CacheSound'
  BY <1>0, <1>1, CacheQuiet
<1>4. TreeSound'
  BY <1>0, TreeKept
<1>5. FilesExist'
  <2>1. \A s \in Slot : stream'[s].at \in {NoPath, stream[s].at}
    BY DEF Closed
  <2> QED BY <1>0, <1>1, <2>1, FilesKept
<1>6. NumbersSound'
  <2>1. \A u \in Thread : Proceeds(call[u], call'[u])
    BY <1>1 DEF Proceeds
  <2> QED BY <1>0, <1>1, <2>1, NumbersGrow
<1> QED BY <1>2, <1>3, <1>4, <1>5, <1>6 DEF Inv

\* Nothing happens to the calls.
LEMMA CallsSame ==
  ASSUME Typed, RacedSound, call' = call
  PROVE  /\ \A u \in Thread : GoesOn(call[u], call'[u])
         /\ raced' = raced => RacedSound' /\ raced' \subseteq Path
<1>1. \A u \in Thread : GoesOn(call[u], call'[u])
  BY DEF GoesOn
<1> QED BY <1>1, RacedKept, Types

LEMMA WriteKeeps ==
  ASSUME Inv, NEW s \in Slot, Write(s)
  PROVE  Inv'
<1> DEFINE at == stream[s].at
           p == stream[s].path
           D == {q \in {at} : q # p \/ ~Quiet(q)}
<1>0. Typed /\ RacedSound /\ disk \in [Path -> Info] /\ stream \in [Slot -> Stream]
  BY Types DEF Inv
<1>1. /\ p \in Path /\ at \in PathOrNone /\ Counted /\ cache' = Invalidated(p)
      /\ stream' = stream /\ call' = call /\ UNCHANGED <<numbers, call>>
  BY <1>0, Types DEF Write, StreamSound
<1>2. /\ cache' \in [Path -> Info \cup {Unknown}] /\ cache'[p] = Unknown
      /\ \A q \in Path : cache'[q] \in {Unknown, cache[q]}
  BY <1>0, <1>1, InvalidatedFacts
<1>3. CASE UNCHANGED <<disk, raced>>
  BY <1>0, <1>1, <1>2, <1>3, CallsSame, QuietKeeps
<1>4. CASE Changeable(at) /\ Change(at) /\ Disturbs(D)
  <2>1. /\ at \in Path /\ disk' \in [Path -> Info]
        /\ \A q \in Path : q # at => disk'[q] = disk[q]
        /\ \A q \in Path : disk[q] # Absent <=> disk'[q] # Absent
        /\ \A q \in Path : disk[q] = Directory => disk'[q] = Directory
    BY <1>0, <1>1, <1>4, ChangeFacts
  <2>2. RacedSound' /\ raced \subseteq raced' /\ D \subseteq raced' /\ raced' \subseteq Path
    <3>1. D \in SUBSET Path
      BY <2>1
    <3> HIDE DEF D
    <3> QED BY <1>0, <1>1, <1>4, <3>1, CallsSame, Disturbed
  <2>3. ASSUME NEW q \in Path \ raced'
        PROVE  \/ disk'[q] = disk[q] /\ cache'[q] \in {Unknown, cache[q]}
               \/ Quiet(q) /\ cache'[q] \in {Unknown, disk'[q]}
    <3>1. CASE q # at
      BY <1>2, <2>1, <3>1
    <3>2. CASE q = at
      <4>1. q = p /\ Quiet(q)
        BY <2>2, <3>2
      <4> QED BY <1>2, <4>1
    <3> QED BY <3>1, <3>2
  <2> QED BY <1>0, <1>1, <1>2, <2>1, <2>2, <2>3, QuietKeeps
<1> QED BY <1>3, <1>4 DEF Write

LEMMA CloseKeeps ==
  ASSUME Inv, NEW s \in Slot, Close(s)
  PROVE  Inv'
<1>0. Typed /\ RacedSound /\ disk \in [Path -> Info] /\ stream \in [Slot -> Stream]
      /\ cache \in [Path -> Info \cup {Unknown}]
  BY Types DEF Inv
<1>1. /\ stream[s].path \in Path /\ Counted /\ call' = call /\ disk' = disk /\ cache' = cache
      /\ raced' = raced /\ UNCHANGED <<numbers, call>> /\ stream' = [stream EXCEPT ![s] = Closed]
  BY <1>0, Types DEF Close, StreamSound
<1>2. Closed \in Stream
  <2>1. 0 \in 0 .. MaxInode
    BY ConstantsAssumption
  <2> QED BY <2>1 DEF Closed, Stream, PathOrNone
<1>3. /\ stream' \in [Slot -> Stream]
      /\ \A r \in Slot : stream'[r] = stream[r] \/ stream'[r] = Closed
  BY <1>0, <1>1, <1>2
<1> QED BY <1>0, <1>1, <1>3, CallsSame, QuietKeeps

LEMMA ForgetKeeps ==
  ASSUME Inv, NEW p \in Path, Forget(p)
  PROVE  Inv'
<1>0. Typed /\ RacedSound /\ disk \in [Path -> Info] /\ stream \in [Slot -> Stream]
  BY Types DEF Inv
<1>1. /\ Counted /\ call' = call /\ disk' = disk /\ cache' = Invalidated(p) /\ raced' = raced
      /\ UNCHANGED <<numbers, call>> /\ stream' = stream
  BY DEF Forget
<1>2. /\ cache' \in [Path -> Info \cup {Unknown}]
      /\ \A q \in Path : cache'[q] \in {Unknown, cache[q]}
  BY <1>0, <1>1, InvalidatedFacts
<1> QED BY <1>0, <1>1, <1>2, CallsSame, QuietKeeps

LEMMA MountedKeeps ==
  ASSUME Inv, NEW p \in Path, Mounted(p)
  PROVE  Inv'
<1> DEFINE D == {q \in {p} : ~Quiet(q)}
<1>0. Typed /\ RacedSound /\ disk \in [Path -> Info] /\ stream \in [Slot -> Stream]
  BY Types DEF Inv
<1>1. /\ Counted /\ call' = call /\ disk' = disk /\ cache' = Set(p, Directory) /\ Disturbs(D)
      /\ UNCHANGED <<numbers, call>> /\ stream' = stream /\ disk[p] = Directory
  BY DEF Mounted
<1>2. /\ cache' \in [Path -> Info \cup {Unknown}] /\ cache'[p] = Directory
      /\ \A q \in Path : q # p => cache'[q] = cache[q]
  BY <1>0, <1>1, SetFacts, InfoFacts
<1>3. RacedSound' /\ raced \subseteq raced' /\ D \subseteq raced' /\ raced' \subseteq Path
  <2>1. D \in SUBSET Path
    OBVIOUS
  <2> HIDE DEF D
  <2> QED BY <1>0, <1>1, <2>1, CallsSame, Disturbed
<1>4. ASSUME NEW q \in Path \ raced'
      PROVE  \/ disk'[q] = disk[q] /\ cache'[q] \in {Unknown, cache[q]}
             \/ Quiet(q) /\ cache'[q] \in {Unknown, disk'[q]}
  <2>1. CASE q = p
    <3>1. Quiet(q)
      BY <1>3, <2>1
    <3> QED BY <1>1, <1>2, <2>1, <3>1
  <2>2. CASE q # p
    BY <1>1, <1>2, <2>2
  <2> QED BY <2>1, <2>2
<1> QED BY <1>0, <1>1, <1>2, <1>3, <1>4, QuietKeeps

-----------------------------------------------------------------------------
(* The invariant holds *)

LEMMA InitInv == Init => Inv
<1> SUFFICES ASSUME Init PROVE Inv
  OBVIOUS
<1>0. /\ disk \in [Path -> {Absent, Directory, File(0)}]
      /\ \A p \in Path : disk[p] # Absent => InDirectory(p)
      /\ cache = [p \in Path |-> Unknown]
      /\ inodes = [p \in Path |-> 0] /\ nextInode = 1
      /\ stream = [s \in Slot |-> Closed]
      /\ call = [t \in Thread |-> Idle] /\ calls = 0 /\ raced = {}
  BY DEF Init
<1>1. /\ \A t \in Thread : call[t] = Idle
      /\ \A s \in Slot : stream[s] = Closed /\ ~stream[s].open /\ stream[s].at = NoPath
  BY <1>0 DEF Closed
<1>2. Closed \in Stream /\ StreamSound(Closed) /\ Closed.inode = 0
  <2>1. 0 \in 0 .. MaxInode
    BY ConstantsAssumption
  <2> QED BY <2>1 DEF Closed, Stream, StreamSound, PathOrNone
<1>3. Typed
  <2>1. disk \in [Path -> Info]
    BY <1>0, InfoFacts
  <2>2. /\ cache \in [Path -> Info \cup {Unknown}] /\ inodes \in [Path -> 0 .. MaxInode]
        /\ nextInode \in 1 .. MaxInode + 1 /\ \A p \in Path : inodes[p] < nextInode
        /\ calls \in 0 .. MaxCalls /\ raced \subseteq Path
    BY <1>0, ConstantsAssumption
  <2>3. stream \in [Slot -> Stream] /\ call \in [Thread -> Call]
    BY <1>0, <1>2, IdleFacts
  <2>4. \A t \in Thread : /\ call[t].op \in Ops \cup {"idle"}
                          /\ {call[t].path, call[t].to, call[t].at} \subseteq Path \cup {NoPath}
                          /\ call[t].phase \in {"none", "asked", "ok"}
                          /\ call[t].info \in Info \cup {Unknown}
    BY <1>1, IdleFacts
  <2>5. TypeOK
    BY <2>1, <2>2, <2>3, <2>4 DEF TypeOK, Stream, PathOrNone
  <2>6. \A s \in Slot : StreamSound(stream[s]) /\ stream[s].inode < nextInode
    BY <1>0, <1>1, <1>2
  <2>7. \A t \in Thread : CallSound(call[t])
    BY <1>1, IdleFacts
  <2> QED BY <2>3, <2>5, <2>6, <2>7 DEF Typed
<1>4. RacedSound
  <2>1. \A t \in Thread : Concerns(call[t]) = {}
    BY <1>1, IdleFacts, ConcernsFacts
  <2> QED BY <2>1 DEF RacedSound, OverlapRaced, RenamesWhole
<1>5. CacheSound
  <2>1. CacheFresh
    BY <1>0 DEF CacheFresh
  <2>2. TouchedUnknown /\ LearntTrue
    BY <1>1, IdleFacts DEF TouchedUnknown, Touched, LearntTrue, Learnt
  <2> QED BY <2>1, <2>2 DEF CacheSound
<1>6. TreeSound /\ FilesExist
  BY <1>0, <1>1, IdleFacts DEF TreeSound, FilesExist, Exists
<1>7. NumbersSound
  <2>1. \A t \in Thread : \A p : ~Removed(t, p) /\ \A q : ~Moving(t, p, q)
    BY <1>1, IdleFacts DEF Removed, Moving
  <2>2. Injective /\ OpenedThere
    BY <1>0, <1>1, IdleFacts DEF Injective, OpenedThere, Opens
  <2>3. NumberAt /\ NumberOnly /\ TakenAlong
    BY <1>1 DEF NumberAt, NumberOnly, TakenAlong, Steady
  <2>4. LeftBehind
    BY <2>1 DEF LeftBehind
  <2> QED BY <2>2, <2>3, <2>4 DEF NumbersSound
<1> QED BY <1>3, <1>4, <1>5, <1>6, <1>7 DEF Inv

LEMMA Unchanged == Inv /\ UNCHANGED vars => Inv'
<1> SUFFICES ASSUME Inv, UNCHANGED vars PROVE Inv'
  OBVIOUS
<1>1. /\ disk' = disk /\ cache' = cache /\ inodes' = inodes /\ nextInode' = nextInode
      /\ stream' = stream /\ call' = call /\ calls' = calls /\ raced' = raced
  BY DEF vars, numbers
<1>2. Typed' /\ RacedSound' /\ CacheSound'
  <2>1. Typed'
    BY <1>1, Types, TypedNext DEF Inv
  <2>2. RacedSound'
    BY <1>1, CallsSame DEF Inv
  <2> QED BY <1>1, <2>1, <2>2, CacheQuiet DEF Inv
<1>3. TreeSound' /\ FilesExist'
  BY <1>1, TreeKept, FilesKept DEF Inv
<1>4. NumbersSound'
  BY <1>1 DEF Inv, NumbersSound, Injective, OpenedThere, NumberAt, NumberOnly, LeftBehind,
              TakenAlong, Steady, Leaving, Removed, Moving
<1> QED BY <1>2, <1>3, <1>4 DEF Inv

LEMMA NextInv == Inv /\ [Next]_vars => Inv'
<1> SUFFICES ASSUME Inv, [Next]_vars PROVE Inv'
  OBVIOUS
<1>1. ASSUME NEW t \in Thread, Starts(t) PROVE Inv'
  BY <1>1, StatKeeps, MkdirKeeps, OpenKeeps, ModifyKeeps, RenameKeeps, FtruncateKeeps
     DEF Starts, Opens
<1>2. ASSUME NEW t \in Thread, Pepper(t) PROVE Inv'
  BY <1>2, PepperFailsKeeps, PepperQueryFailsKeeps, PepperQueriesKeeps, PepperOpensKeeps,
     PepperMakesDirectoryKeeps, PepperTouchesKeeps, PepperSetsLengthKeeps, PepperDeletesKeeps,
     PepperRenamesKeeps
     DEF Pepper
<1>3. ASSUME NEW t \in Thread, Returns(t) PROVE Inv'
  BY <1>3, ReturnStatKeeps, ReturnOpenKeeps, TruncateOpenedKeeps, ReturnRemoveKeeps,
     ReturnRenameKeeps
     DEF Returns
<1>4. ASSUME NEW s \in Slot, Write(s) \/ Close(s) PROVE Inv'
  BY <1>4, WriteKeeps, CloseKeeps
<1>5. ASSUME NEW p \in Path, Forget(p) \/ Mounted(p) PROVE Inv'
  BY <1>5, ForgetKeeps, MountedKeeps
<1>6. CASE UNCHANGED vars
  BY <1>6, Unchanged
<1> QED BY <1>1, <1>2, <1>3, <1>4, <1>5, <1>6 DEF Next

\* The invariant gives what the runs check of the inode numbers.
LEMMA InvInodes == Inv => InodesSound
<1> SUFFICES ASSUME Inv PROVE InodesSound
  OBVIOUS
<1>0. Typed /\ RacedSound /\ NumbersSound
  BY DEF Inv
<1>1. TypeOK
  BY <1>0 DEF Typed
<1>2. ASSUME NEW p \in Path, Quiet(p)
      PROVE  ~Leaving(p)
  <2> SUFFICES ASSUME NEW u \in Thread,
                      Removed(u, p) \/ \E q \in Path : (Moving(u, p, q) \/ Moving(u, q, p))
               PROVE  FALSE
    BY DEF Leaving
  <2>1. p \in Concerns(call[u])
    BY <1>0, LeaverFacts
  <2> QED BY <1>2, <2>1 DEF Quiet
<1>3. InodeKept
  <2> SUFFICES ASSUME NEW s \in Slot, ~stream[s].adrift, stream[s].at \notin raced,
                      stream[s].at # NoPath, Quiet(stream[s].at)
               PROVE  inodes[stream[s].at] \in {0, stream[s].inode}
    BY DEF InodeKept, SameInode
  <2>1. stream[s].at \in Path /\ stream[s].open
    BY <1>0, Types DEF StreamSound, Closed, PathOrNone
  <2>2. \A t \in Thread, o \in Path : ~Moving(t, o, stream[s].at)
    BY <1>2, <2>1 DEF Leaving
  <2> QED BY <1>0, <2>1, <2>2 DEF NumbersSound, NumberAt, Steady
<1>4. InodeUnique
  <2> SUFFICES ASSUME NEW s \in Slot, NEW p \in Path \ raced, stream[s].open, ~stream[s].adrift,
                      p # stream[s].at, Quiet(p)
               PROVE  inodes[p] # stream[s].inode
    BY DEF InodeUnique
  <2>1. ~Leaving(p)
    BY <1>2
  <2> QED BY <1>0, <2>1 DEF NumbersSound, NumberOnly, Steady
<1> QED BY <1>1, <1>3, <1>4 DEF InodesSound

\* For any threads, names and descriptors, and any numbers of changes, inodes and calls:
\* what PepperFileCache holds of a path that no overlapping calls were about is
\* what Pepper would say (pepper_file.cc, PepperFileCache).
THEOREM CacheStaysFresh == Spec => []CacheFresh
<1>1. Inv => CacheFresh
  BY DEF Inv, CacheSound
<1> QED BY <1>1, InitInv, NextInv, PTL DEF Spec

\* fstat, SQLite's locks and MemoryRegion can rely on the inode numbers: an open
\* file keeps the number of its path through renames, and no other path has it
\* (GetInodeLocked, RemoveInodeLocked and ReassignInodeLocked of
\* virtual_file_system.cc).
THEOREM InodesStaySound == Spec => []InodesSound
<1> QED BY InvInodes, InitInv, NextInv, PTL DEF Spec

-----------------------------------------------------------------------------
(* The preopen cache *)

\* Some thread has just opened p for writing and has yet to invalidate it.
Created(p) == \E t \in Caller : activity[t].at = "created" /\ activity[t].paths[1] = p

\* A call that changes files is in its own step with its own paths, after the
\* browser is ready.
Shaped(c) ==
    /\ c.at \in {"waiting", "created", "removing"} => Len(c.paths) = 1
    /\ c.at = "renaming" => Len(c.paths) = 2
    /\ c.at \in {"created", "removing", "renaming"} => started
CallsSound == \A t \in Caller : Shaped(activity[t])

\* While the preopen thread is in Pepper, its iterator is at an entry of the path
\* it opens, which is pending unless it was invalidated.
IteratorSound ==
    it # 0 =>
      /\ started
      /\ it \in DOMAIN entry /\ pos \in DOMAIN scheduled
      /\ scheduled[it] = scheduled[pos]
      /\ entry[it] \in {Pending, Gone}
      /\ entry[it] = Gone => disturbed

\* remove, unlink and rename leave no entry of their paths, and none comes back.
InvalidatedSound == \A t \in Caller :
    activity[t].at \in {"removing", "renaming"} =>
      \A k \in DOMAIN activity[t].paths, i \in DOMAIN entry :
        scheduled[i] = activity[t].paths[k] => entry[i] = Gone

\* Entries, and the descriptor about to become one, are stale only between an
\* open for writing and its invalidation, or where the cache was told nothing.
EntriesCurrent == \A i \in DOMAIN entry :
    entry[i] \notin {Pending, Gone} =>
      \/ Created(scheduled[i]) \/ scheduled[i] \in overlooked
      \/ entry[i] = fs[scheduled[i]]
ResultCurrent ==
    it # 0 /\ result # Pending /\ entry[it] = Pending =>
      \/ Created(scheduled[pos]) \/ scheduled[pos] \in overlooked
      \/ result = fs[scheduled[pos]]

\* The inductive invariant.
PreopenInv ==
           /\ PreopenTypeOK /\ CallsSound /\ IteratorSound /\ InvalidatedSound
           /\ EntriesCurrent /\ ResultCurrent /\ NoDanglingWrite

Value == {Pending, NoFile, Folder, Gone} \cup 1 .. MaxFile
PreopenCall == [at : {"idle", "waiting", "created", "removing", "renaming"},
         paths : Seq(Path), asleep : BOOLEAN]

-----------------------------------------------------------------------------
(* Operators *)

\* First finds the least element of a non-empty set of numbers.
LEMMA FirstFacts ==
  ASSUME NEW S \in SUBSET Nat, S # {}
  PROVE  First(S) \in S /\ \A j \in S : First(S) <= j
<1> DEFINE R == {ss \in Nat \X Nat : ss[1] < ss[2]}
<1>1. IsWellFoundedOn(R, Nat)
  BY NatLessThanWellFounded, Zenon DEF OpToRel
<1>2. \E x \in S : \A y \in S : ~(<<y, x>> \in R)
  <2> HIDE DEF R
  <2> QED BY <1>1, WFMin, Zenon
<1>3. \A x, y \in S : <<y, x>> \in R \/ x <= y
  BY SMT
<1>4. \E x \in S : \A y \in S : x <= y
  <2> HIDE DEF R
  <2> QED BY <1>2, <1>3, Zenon
<1> QED BY <1>4, Zenon DEF First

\* The preopen thread stops at a pending entry of the path it is about to open, or
\* at the end.
LEMMA AdvanceFacts ==
  ASSUME PreopenTypeOK, NEW e \in Seq(Value), Len(e) = Len(scheduled),
         NEW k \in Nat \ {0}, Advance(e, k)
  PROVE  /\ pos' \in 0 .. Len(scheduled) + 1 /\ it' \in 0 .. Len(scheduled)
         /\ result' = Pending
         /\ it' # 0 => /\ it' \in DOMAIN e /\ pos' \in DOMAIN scheduled
                       /\ scheduled[it'] = scheduled[pos'] /\ e[it'] = Pending
<1> DEFINE pend(i) == {j \in DOMAIN e : scheduled[j] = scheduled[i] /\ e[j] = Pending}
           todo == {i \in k .. Len(scheduled) : pend(i) # {}}
<1>0. /\ pos' = IF todo = {} THEN Len(scheduled) + 1 ELSE First(todo)
      /\ it' = IF todo = {} THEN 0 ELSE First(pend(First(todo)))
      /\ result' = Pending
  BY DEF Advance
<1>1. Len(scheduled) \in Nat /\ DOMAIN scheduled = 1 .. Len(scheduled)
      /\ DOMAIN e = 1 .. Len(scheduled)
  BY DEF PreopenTypeOK
<1>2. CASE todo = {}
  BY <1>0, <1>1, <1>2
<1>3. CASE todo # {}
  <2>1. First(todo) \in todo
    <3>1. todo \in SUBSET Nat
      BY <1>1
    <3> QED BY <3>1, <1>3, FirstFacts
  <2>2. pend(First(todo)) # {} /\ First(todo) \in 1 .. Len(scheduled)
    BY <1>1, <2>1
  <2>3. First(pend(First(todo))) \in pend(First(todo))
    <3>1. pend(First(todo)) \in SUBSET Nat
      BY <1>1
    <3> HIDE DEF pend
    <3> QED BY <2>2, <3>1, FirstFacts
  <2>4. pos' = First(todo) /\ it' = First(pend(First(todo)))
    BY <1>0, <1>3
  <2>5. pos' \in 1 .. Len(scheduled) /\ it' \in pend(pos')
    BY <2>2, <2>3, <2>4
  <2>6. it' \in DOMAIN e /\ scheduled[it'] = scheduled[pos'] /\ e[it'] = Pending
    BY <2>5
  <2> HIDE DEF pend, todo
  <2> QED BY <1>0, <1>1, <2>5, <2>6
<1> QED BY <1>2, <1>3

\* What a call does has its type.
LEMMA DoingFacts ==
  ASSUME NEW p \in Path, NEW q \in Path
  PROVE  /\ Resting \in PreopenCall /\ Waiting(p) \in PreopenCall
         /\ \A what \in {"created", "removing"} : Doing(what, <<p>>) \in PreopenCall
         /\ Doing("renaming", <<p, q>>) \in PreopenCall
BY DEF PreopenCall, Resting, Waiting, Doing

-----------------------------------------------------------------------------
(* Steps *)

LEMMA PreopenInitInv == PreopenInit => PreopenInv
<1> SUFFICES ASSUME PreopenInit PROVE PreopenInv
  OBVIOUS
<1>1. PreopenTypeOK
  <2>1. activity \in [Caller -> PreopenCall]
    BY DEF PreopenInit, PreopenCall, Resting
  <2>2. scheduled \in Seq(Path) /\ entry \in Seq(Value) /\ Len(entry) = Len(scheduled)
        /\ pos \in 0 .. Len(scheduled) + 1 /\ it \in 0 .. Len(scheduled)
    BY DEF PreopenInit
  <2>3. files \in 0 .. MaxFile /\ changes \in 0 .. MaxChanges /\ overlooked \subseteq Path
        /\ fs \in [Path -> {NoFile, Folder} \cup 1 .. MaxFile]
    BY PreopenAssumption DEF PreopenInit
  <2> QED BY <2>1, <2>2, <2>3 DEF PreopenInit, PreopenTypeOK, PreopenCall, Value
<1>2. CallsSound /\ InvalidatedSound
  BY DEF PreopenInit, CallsSound, Shaped, InvalidatedSound, Resting
<1>3. IteratorSound /\ EntriesCurrent /\ ResultCurrent /\ NoDanglingWrite
  BY DEF PreopenInit, IteratorSound, EntriesCurrent, ResultCurrent, NoDanglingWrite
<1> QED BY <1>1, <1>2, <1>3 DEF PreopenInv

\* Scheduling adds a pending entry, while no call that changes files is under way.
LEMMA SchedulePreopenInv ==
  ASSUME PreopenInv, SchedulePreopen
  PROVE  PreopenInv'
<1>0. PreopenTypeOK /\ CallsSound /\ IteratorSound /\ EntriesCurrent /\ NoDanglingWrite
  BY DEF PreopenInv
<1>1. PICK p \in Path : scheduled' = Append(scheduled, p)
  BY PreopenAssumption DEF SchedulePreopen
<1>2. /\ ~started /\ entry' = Append(entry, Pending)
      /\ UNCHANGED <<started, pos, it, result, fs, files, changes, activity, dangling, disturbed, overlooked>>
  BY DEF SchedulePreopen
<1>3. it = 0
  BY <1>0, <1>2 DEF IteratorSound
<1>4. Pending \in Value
  BY DEF Value
<1>5. /\ scheduled' \in Seq(Path) /\ entry' \in Seq(Value)
      /\ Len(scheduled) \in Nat /\ Len(scheduled') = Len(scheduled) + 1
      /\ Len(entry') = Len(scheduled')
  BY <1>0, <1>1, <1>2, <1>4 DEF PreopenTypeOK, Value
<1>6. \A i \in DOMAIN entry' :
        \/ entry'[i] = Pending
        \/ i \in DOMAIN entry /\ entry'[i] = entry[i] /\ scheduled'[i] = scheduled[i]
  BY <1>0, <1>1, <1>2, <1>5 DEF PreopenTypeOK
<1>7. PreopenTypeOK'
  BY <1>0, <1>2, <1>3, <1>5 DEF PreopenTypeOK, Value
<1>8. CallsSound' /\ InvalidatedSound'
  BY <1>0, <1>2 DEF CallsSound, Shaped, InvalidatedSound
<1>9. IteratorSound' /\ ResultCurrent' /\ NoDanglingWrite'
  BY <1>0, <1>2, <1>3 DEF IteratorSound, ResultCurrent, NoDanglingWrite
<1>10. EntriesCurrent'
  BY <1>0, <1>2, <1>6 DEF EntriesCurrent, Created
<1> QED BY <1>7, <1>8, <1>9, <1>10 DEF PreopenInv

\* Waking threads changes nothing that the invariant is about.
LEMMA WokenAllFacts ==
  ASSUME PreopenTypeOK, activity' = WokenAll
  PROVE  /\ activity' \in [Caller -> PreopenCall]
         /\ \A t \in Caller : /\ activity'[t].at = activity[t].at
                               /\ activity'[t].paths = activity[t].paths
         /\ \A p : Created(p)' <=> Created(p)
BY DEF PreopenTypeOK, WokenAll, Doing, PreopenCall, Created

LEMMA SetBrowserReadyInv ==
  ASSUME PreopenInv, SetBrowserReady
  PROVE  PreopenInv'
<1>0. /\ started' = TRUE /\ activity' = WokenAll
      /\ UNCHANGED <<scheduled, entry, pos, it, result, fs, files, changes, dangling, disturbed, overlooked>>
  BY DEF SetBrowserReady
<1>1. PreopenTypeOK
  BY DEF PreopenInv
<1>2. /\ activity' \in [Caller -> PreopenCall]
      /\ \A t \in Caller : /\ activity'[t].at = activity[t].at
                            /\ activity'[t].paths = activity[t].paths
      /\ \A p : Created(p)' <=> Created(p)
  BY <1>0, <1>1, WokenAllFacts
<1>3. PreopenTypeOK'
  BY <1>0, <1>1, <1>2 DEF PreopenTypeOK, PreopenCall
<1>4. CallsSound' /\ InvalidatedSound'
  BY <1>0, <1>2 DEF PreopenInv, CallsSound, Shaped, InvalidatedSound
<1>5. IteratorSound' /\ NoDanglingWrite'
  BY <1>0 DEF PreopenInv, IteratorSound, NoDanglingWrite
<1>6. EntriesCurrent' /\ ResultCurrent'
  BY <1>0, <1>2 DEF PreopenInv, EntriesCurrent, ResultCurrent
<1> QED BY <1>3, <1>4, <1>5, <1>6 DEF PreopenInv

LEMMA PerformPreopensInv ==
  ASSUME PreopenInv, PerformPreopens
  PROVE  PreopenInv'
<1>0. /\ started /\ Advance(entry, 1)
      /\ UNCHANGED <<scheduled, entry, started, fs, files, changes, activity, dangling, disturbed, overlooked>>
  BY DEF PerformPreopens
<1>1. PreopenTypeOK
  BY DEF PreopenInv
<1>2. /\ pos' \in 0 .. Len(scheduled) + 1 /\ it' \in 0 .. Len(scheduled)
      /\ result' = Pending
      /\ it' # 0 => /\ it' \in DOMAIN entry /\ pos' \in DOMAIN scheduled
                    /\ scheduled[it'] = scheduled[pos'] /\ entry[it'] = Pending
  <2>1. entry \in Seq(Value) /\ Len(entry) = Len(scheduled)
    BY <1>1 DEF PreopenTypeOK, Value
  <2> QED BY <1>0, <1>1, <2>1, AdvanceFacts
<1>3. PreopenTypeOK'
  BY <1>0, <1>1, <1>2 DEF PreopenTypeOK
<1>4. CallsSound' /\ InvalidatedSound' /\ EntriesCurrent' /\ NoDanglingWrite'
  BY <1>0 DEF PreopenInv, CallsSound, Shaped, InvalidatedSound, EntriesCurrent, Created,
              NoDanglingWrite
<1>5. IteratorSound' /\ ResultCurrent'
  BY <1>0, <1>2 DEF IteratorSound, ResultCurrent, Pending, Gone
<1> QED BY <1>3, <1>4, <1>5 DEF PreopenInv

\* Pepper finds the file that the path names now, or the path is overlooked.
LEMMA PreopenIOInv ==
  ASSUME PreopenInv, PreopenIO
  PROVE  PreopenInv'
<1> DEFINE p == scheduled[pos]
<1>0. /\ it # 0 /\ result' \in {fs[p], NoFile}
      /\ overlooked' = overlooked \cup {r \in {p} : result' # fs[p]}
      /\ UNCHANGED <<scheduled, entry, started, pos, it, fs, files, changes, activity, dangling,
                     disturbed>>
  BY DEF PreopenIO
<1>1. PreopenTypeOK /\ pos \in DOMAIN scheduled
  BY <1>0 DEF PreopenInv, IteratorSound
<1>2. p \in Path /\ fs[p] \in {NoFile, Folder} \cup 1 .. MaxFile
  BY <1>1 DEF PreopenTypeOK
<1>3. overlooked \subseteq overlooked' /\ overlooked' \subseteq Path
      /\ (result' = fs[p] \/ p \in overlooked')
  BY <1>0, <1>1, <1>2 DEF PreopenTypeOK
<1>4. PreopenTypeOK'
  BY <1>0, <1>1, <1>2, <1>3 DEF PreopenTypeOK
<1>5. CallsSound' /\ InvalidatedSound' /\ NoDanglingWrite' /\ IteratorSound'
  BY <1>0 DEF PreopenInv, CallsSound, Shaped, InvalidatedSound, NoDanglingWrite, IteratorSound
<1>6. EntriesCurrent'
  BY <1>0, <1>3 DEF PreopenInv, EntriesCurrent, Created
<1>7. ResultCurrent'
  BY <1>0, <1>3 DEF ResultCurrent
<1> QED BY <1>4, <1>5, <1>6, <1>7 DEF PreopenInv

\* The descriptor becomes the entry: as fresh as it was.
LEMMA PreopenEndInv ==
  ASSUME PreopenInv, PreopenEnd
  PROVE  PreopenInv'
<1>0. /\ PreopenTypeOK /\ it # 0 /\ result # Pending
      /\ UNCHANGED <<scheduled, started, fs, files, changes, disturbed, overlooked>>
  BY DEF PreopenEnd, PreopenInv
<1>1. /\ started /\ it \in DOMAIN entry /\ pos \in DOMAIN scheduled
      /\ scheduled[it] = scheduled[pos] /\ entry[it] \in {Pending, Gone}
      /\ entry[it] = Gone => disturbed
  BY <1>0 DEF PreopenInv, IteratorSound
<1>2. CASE entry[it] = Gone
  <2>1. dangling' = TRUE /\ UNCHANGED <<entry, pos, it, result, activity>>
    BY <1>2 DEF PreopenEnd
  <2>2. PreopenTypeOK'
    BY <1>0, <2>1 DEF PreopenTypeOK
  <2>3. NoDanglingWrite'
    BY <1>0, <1>1, <1>2 DEF NoDanglingWrite
  <2> QED BY <1>0, <2>1, <2>2, <2>3 DEF PreopenInv, CallsSound, Shaped, InvalidatedSound,
          EntriesCurrent, Created, IteratorSound, ResultCurrent
<1>3. CASE entry[it] # Gone
  <2>1. /\ entry' = [entry EXCEPT ![it] = result] /\ Advance(entry', pos + 1)
        /\ activity' = WokenAll /\ UNCHANGED dangling
    BY <1>3 DEF PreopenEnd
  <2>2. entry \in Seq(Value) /\ result \in Value /\ pos + 1 \in Nat \ {0}
        /\ Len(entry) = Len(scheduled)
    BY <1>0, <1>1 DEF PreopenTypeOK, Value
  <2>3. /\ entry' \in Seq(Value) /\ Len(entry') = Len(scheduled)
        /\ DOMAIN entry' = DOMAIN entry
        /\ \A i \in DOMAIN entry : entry'[i] = IF i = it THEN result ELSE entry[i]
    BY <1>1, <2>1, <2>2
  <2>4. /\ pos' \in 0 .. Len(scheduled) + 1 /\ it' \in 0 .. Len(scheduled)
        /\ result' = Pending
        /\ it' # 0 => /\ it' \in DOMAIN entry' /\ pos' \in DOMAIN scheduled
                      /\ scheduled[it'] = scheduled[pos'] /\ entry'[it'] = Pending
    BY <1>0, <2>1, <2>2, <2>3, AdvanceFacts
  <2>5. /\ activity' \in [Caller -> PreopenCall]
        /\ \A t \in Caller : /\ activity'[t].at = activity[t].at
                              /\ activity'[t].paths = activity[t].paths
        /\ \A p : Created(p)' <=> Created(p)
    BY <1>0, <2>1, WokenAllFacts
  <2>6. PreopenTypeOK'
    BY <1>0, <2>1, <2>3, <2>4, <2>5 DEF PreopenTypeOK, Value, PreopenCall
  <2>7. CallsSound' /\ NoDanglingWrite'
    BY <1>0, <2>1, <2>5 DEF PreopenInv, CallsSound, Shaped, NoDanglingWrite
  <2>8. InvalidatedSound'
    BY <1>0, <1>3, <2>3, <2>5 DEF PreopenInv, InvalidatedSound
  <2>9. IteratorSound' /\ ResultCurrent'
    BY <1>0, <1>1, <2>4 DEF IteratorSound, ResultCurrent, Pending, Gone
  <2>10. EntriesCurrent'
    BY <1>0, <1>1, <1>3, <2>3, <2>5 DEF PreopenInv, EntriesCurrent, ResultCurrent
  <2> QED BY <2>6, <2>7, <2>8, <2>9, <2>10 DEF PreopenInv
<1> QED BY <1>2, <1>3

\* No entry of p is left.
Cleared(p) == \A i \in DOMAIN entry : scheduled[i] = p => entry[i] = Gone

\* The step only erases entries, and owns up to erasing pending ones.
OnlyErases ==
    /\ entry' \in Seq(Value) /\ DOMAIN entry' = DOMAIN entry /\ Len(entry') = Len(entry)
    /\ \A i \in DOMAIN entry : entry'[i] \in {entry[i], Gone}
OwnsUp ==
    /\ disturbed' \in BOOLEAN
    /\ disturbed => disturbed'
    /\ \A i \in DOMAIN entry : entry[i] = Pending /\ entry'[i] = Gone => disturbed'

\* No entry of c's paths is left.
ClearedFor(c) == \A k \in DOMAIN c.paths : Cleared(c.paths[k])

\* What a call may do to the cache and to the files at one step: erase entries,
\* own up to erasing pending ones, and change a file only if it leaves no entry of
\* its path, still has to invalidate them, or overlooks them.
LEMMA CallStepInv ==
  ASSUME PreopenInv, NEW t \in Caller, NEW c \in PreopenCall, Goes(t, c),
         UNCHANGED <<scheduled, started, pos, it, result, dangling>>,
         OnlyErases, OwnsUp, Shaped(c)',
         c.at \in {"removing", "renaming"} => ClearedFor(c)',
         fs' \in [Path -> {NoFile, Folder} \cup 1 .. MaxFile], files' \in 0 .. MaxFile,
         changes' \in 0 .. MaxChanges,
         overlooked \subseteq overlooked', overlooked' \subseteq Path,
         \A p \in Path : fs'[p] = fs[p] \/ Created(p)' \/ Cleared(p)' \/ p \in overlooked',
         \A p \in Path : Created(p) => Created(p)' \/ Cleared(p)'
  PROVE  PreopenInv'
<1>0. PreopenTypeOK /\ CallsSound /\ IteratorSound /\ InvalidatedSound /\ EntriesCurrent
      /\ ResultCurrent /\ NoDanglingWrite
  BY DEF PreopenInv
<1>1. activity \in [Caller -> PreopenCall]
  BY <1>0 DEF PreopenTypeOK, PreopenCall
<1>2. /\ activity' \in [Caller -> PreopenCall]
      /\ \A u \in Caller : activity'[u] = IF u = t THEN c ELSE activity[u]
  BY <1>1 DEF Goes
<1>3. PreopenTypeOK'
  BY <1>0, <1>2 DEF PreopenTypeOK, PreopenCall, Value, OnlyErases, OwnsUp
<1>4. CallsSound'
  BY <1>0, <1>2 DEF CallsSound, Shaped
<1>5. IteratorSound'
  BY <1>0 DEF IteratorSound, PreopenTypeOK, OnlyErases, OwnsUp
<1>6. NoDanglingWrite'
  BY <1>0 DEF NoDanglingWrite, OwnsUp
<1>7. InvalidatedSound'
  <2> SUFFICES ASSUME NEW u \in Caller, activity'[u].at \in {"removing", "renaming"},
                      NEW k \in DOMAIN activity'[u].paths, NEW i \in DOMAIN entry,
                      scheduled[i] = activity'[u].paths[k]
               PROVE  entry'[i] = Gone
    BY DEF InvalidatedSound, OnlyErases
  <2>1. CASE u = t
    BY <1>2, <2>1 DEF Cleared, ClearedFor, OnlyErases
  <2>2. CASE u # t
    BY <1>0, <1>2, <2>2 DEF InvalidatedSound, OnlyErases
  <2> QED BY <2>1, <2>2
<1>8. EntriesCurrent'
  <2> SUFFICES ASSUME NEW i \in DOMAIN entry, entry'[i] \notin {Pending, Gone}
               PROVE  \/ Created(scheduled[i])' \/ scheduled[i] \in overlooked'
                      \/ entry'[i] = fs'[scheduled[i]]
    BY DEF EntriesCurrent, OnlyErases
  <2>1. entry'[i] = entry[i] /\ scheduled[i] \in Path /\ ~Cleared(scheduled[i])'
    BY <1>0 DEF Cleared, PreopenTypeOK, OnlyErases
  <2> QED BY <1>0, <2>1 DEF EntriesCurrent
<1>9. ResultCurrent'
  <2> SUFFICES ASSUME it # 0, result # Pending, entry'[it] = Pending
               PROVE  \/ Created(scheduled[pos])' \/ scheduled[pos] \in overlooked'
                      \/ result = fs'[scheduled[pos]]
    BY DEF ResultCurrent
  <2>1. it \in DOMAIN entry /\ scheduled[it] = scheduled[pos] /\ scheduled[pos] \in Path
    BY <1>0 DEF IteratorSound, PreopenTypeOK
  <2>2. entry[it] = Pending /\ ~Cleared(scheduled[pos])'
    BY <1>0, <2>1 DEF Cleared, OnlyErases, Pending, Gone
  <2> QED BY <1>0, <2>1, <2>2 DEF ResultCurrent
<1> QED BY <1>3, <1>4, <1>5, <1>6, <1>7, <1>8, <1>9 DEF PreopenInv

\* Erasing the entries of a path leaves the others alone.
LEMMA ErasedFacts ==
  ASSUME PreopenTypeOK, NEW e \in Seq(Value), NEW p \in Path
  PROVE  /\ Erased(e, p) \in Seq(Value) /\ DOMAIN Erased(e, p) = DOMAIN e
         /\ Len(Erased(e, p)) = Len(e)
         /\ \A i \in DOMAIN e :
              Erased(e, p)[i] = IF scheduled[i] = p THEN Gone ELSE e[i]
<1>1. Len(e) \in Nat /\ DOMAIN e = 1 .. Len(e) /\ Gone \in Value
  BY DEF Value
<1>2. Erased(e, p) \in [1 .. Len(e) -> Value]
  BY <1>1 DEF Erased
<1> QED BY <1>1, <1>2 DEF Erased

\* A thread enters p's opening for writing, or keeps it: nobody else is concerned.
LEMMA CreatedKept ==
  ASSUME PreopenTypeOK, NEW t \in Caller, NEW c, Goes(t, c), activity[t].at # "created"
  PROVE  \A p : Created(p) => Created(p)'
BY DEF PreopenTypeOK, Goes, Created

\* open takes an entry that is not pending, or waits.
LEMMA OpenRoundInv ==
  ASSUME PreopenInv, NEW t \in Caller, NEW p \in Path, activity[t].at # "created",
         OpenRound(t, p),
         UNCHANGED <<scheduled, started, pos, it, result, fs, files, changes, dangling, disturbed, overlooked>>
  PROVE  PreopenInv'
<1>0. PreopenTypeOK /\ entry \in Seq(Value) /\ Len(entry) \in Nat
      /\ Resting \in PreopenCall /\ Waiting(p) \in PreopenCall
      /\ fs \in [Path -> {NoFile, Folder} \cup 1 .. MaxFile] /\ files \in 0 .. MaxFile
      /\ changes \in 0 .. MaxChanges /\ overlooked \subseteq Path /\ disturbed \in BOOLEAN
  <2>1. PreopenTypeOK
    BY DEF PreopenInv
  <2>2. entry \in Seq(Value) /\ Len(entry) \in Nat
    BY <2>1 DEF PreopenTypeOK, Value
  <2>3. fs \in [Path -> {NoFile, Folder} \cup 1 .. MaxFile] /\ files \in 0 .. MaxFile
        /\ changes \in 0 .. MaxChanges /\ overlooked \subseteq Path /\ disturbed \in BOOLEAN
    BY <2>1 DEF PreopenTypeOK
  <2> QED BY <2>1, <2>2, <2>3, DoingFacts
<1> DEFINE mine == EntriesOf(p)
<1>1. CASE mine # {} /\ entry[First(mine)] = Pending
  <2>1. Goes(t, Waiting(p)) /\ UNCHANGED entry
    BY <1>1 DEF OpenRound
  <2>2. Waiting(p).at = "waiting" /\ Shaped(Waiting(p))' /\ OnlyErases /\ OwnsUp
    BY <1>0, <2>1 DEF Waiting, Shaped, OnlyErases, OwnsUp, Pending, Gone
  <2>3. \A q : Created(q) => Created(q)'
    BY <1>0, <2>1, CreatedKept
  <2> QED BY <1>0, <2>1, <2>2, <2>3, CallStepInv
<1>2. CASE ~(mine # {} /\ entry[First(mine)] = Pending)
  <2>1. /\ entry' = IF mine = {} THEN entry ELSE [entry EXCEPT ![First(mine)] = Gone]
        /\ Goes(t, Resting)
    BY <1>2 DEF OpenRound
  <2>2. \A q : Created(q) => Created(q)'
    BY <1>0, <2>1, CreatedKept
  <2>3. Resting.at = "idle" /\ Shaped(Resting)'
    BY DEF Resting, Shaped
  <2>4. /\ entry' \in Seq(Value) /\ DOMAIN entry' = DOMAIN entry /\ Len(entry') = Len(entry)
        /\ \A i \in DOMAIN entry : entry'[i] \in {entry[i], Gone}
        /\ \A i \in DOMAIN entry : ~(entry[i] = Pending /\ entry'[i] = Gone)
    <3>1. CASE mine = {}
      BY <1>0, <2>1, <3>1 DEF Pending, Gone
    <3>2. CASE mine # {}
      <4>1. mine \in SUBSET Nat /\ mine \subseteq DOMAIN entry
        BY <1>0 DEF EntriesOf
      <4>2. First(mine) \in DOMAIN entry
        BY <3>2, <4>1, FirstFacts
      <4>3. entry[First(mine)] # Pending /\ Gone \in Value
        BY <1>2, <3>2 DEF Value
      <4> HIDE DEF mine
      <4> QED BY <1>0, <2>1, <3>2, <4>2, <4>3 DEF Pending, Gone
    <3> QED BY <3>1, <3>2
  <2>5. OnlyErases /\ OwnsUp
    BY <1>0, <2>4 DEF OnlyErases, OwnsUp
  <2> QED BY <1>0, <2>1, <2>2, <2>3, <2>5, CallStepInv
<1> QED BY <1>1, <1>2

LEMMA OpenForReadInv ==
  ASSUME PreopenInv, NEW t \in Caller, OpenForRead(t)
  PROVE  PreopenInv'
<1>1. UNCHANGED <<scheduled, started, pos, it, result, fs, files, changes, dangling, disturbed, overlooked>>
  BY DEF OpenForRead
<1>2. PICK p \in Path : OpenRound(t, p) /\ activity[t].at # "created"
  <2>1. CASE CanStart(t) /\ \E p \in Path : OpenRound(t, p)
    BY <2>1 DEF CanStart
  <2>2. CASE activity[t].at = "waiting" /\ ~activity[t].asleep /\ OpenRound(t, activity[t].paths[1])
    <3>1. activity[t].paths[1] \in Path
      BY <2>2 DEF PreopenInv, CallsSound, Shaped, PreopenTypeOK
    <3> QED BY <2>2, <3>1
  <2> QED BY <2>1, <2>2 DEF OpenForRead
<1> QED BY <1>1, <1>2, OpenRoundInv

\* NoteDisturbance owns up to the pending entries that are erased.
LEMMA DisturbanceFacts ==
  ASSUME PreopenTypeOK, NoteDisturbance
  PROVE  OwnsUp
BY DEF PreopenTypeOK, NoteDisturbance, OwnsUp

\* The types that a call relies on.
LEMMA CallTypes ==
  ASSUME PreopenInv
  PROVE  /\ PreopenTypeOK /\ entry \in Seq(Value)
         /\ fs \in [Path -> {NoFile, Folder} \cup 1 .. MaxFile] /\ files \in 0 .. MaxFile
         /\ changes \in 0 .. MaxChanges /\ overlooked \subseteq Path
         /\ \A t \in Caller :
              /\ activity[t].at \in {"created", "removing"} =>
                   /\ started /\ activity[t].paths[1] \in Path
                   /\ DOMAIN activity[t].paths = {1}
              /\ activity[t].at = "renaming" =>
                   /\ started /\ activity[t].paths[1] \in Path
                   /\ activity[t].paths[2] \in Path
                   /\ DOMAIN activity[t].paths = {1, 2}
<1>1. PreopenTypeOK /\ CallsSound
  BY DEF PreopenInv
<1>2. \A t \in Caller : activity[t].paths \in Seq(Path)
  BY <1>1 DEF PreopenTypeOK
<1>3. entry \in Seq(Value) /\ fs \in [Path -> {NoFile, Folder} \cup 1 .. MaxFile]
      /\ files \in 0 .. MaxFile /\ changes \in 0 .. MaxChanges /\ overlooked \subseteq Path
  BY <1>1 DEF PreopenTypeOK, Value
<1>4. ASSUME NEW t \in Caller, activity[t].at \in {"created", "removing"}
      PROVE  started /\ activity[t].paths[1] \in Path /\ DOMAIN activity[t].paths = {1}
  BY <1>1, <1>2, <1>4 DEF CallsSound, Shaped
<1>5. ASSUME NEW t \in Caller, activity[t].at = "renaming"
      PROVE  /\ started /\ activity[t].paths[1] \in Path /\ activity[t].paths[2] \in Path
             /\ DOMAIN activity[t].paths = {1, 2}
  BY <1>1, <1>2, <1>5 DEF CallsSound, Shaped
<1> QED BY <1>1, <1>3, <1>4, <1>5

\* A call that may change files is one more.
LEMMA CanChangeFacts ==
  ASSUME PreopenInv, NEW t \in Caller, CanChange(t), changes' = changes + 1
  PROVE  activity[t].at = "idle" /\ started /\ changes' \in 0 .. MaxChanges
<1>1. changes \in 0 .. MaxChanges
  BY CallTypes
<1> QED BY <1>1, PreopenAssumption DEF CanChange, CanStart

\* The entries of a path that changes unnoticed are gone, or it is overlooked.
LEMMA OverlooksFacts ==
  ASSUME PreopenInv, NEW P \in SUBSET Path, Overlooks(P), UNCHANGED <<scheduled, entry>>
  PROVE  /\ overlooked \subseteq overlooked' /\ overlooked' \subseteq Path
         /\ \A p \in P : fs'[p] = fs[p] \/ Cleared(p)' \/ p \in overlooked'
<1>1. PreopenTypeOK /\ overlooked \subseteq Path
  BY CallTypes
<1>2. \A p : EntriesOf(p) = {} => Cleared(p)'
  BY <1>1 DEF EntriesOf, Cleared, PreopenTypeOK
<1> HIDE DEF EntriesOf, Cleared
<1> QED BY <1>1, <1>2 DEF Overlooks

\* Pepper makes, deletes and renames files, and keeps the tree a tree.
LEMMA CreatesFacts ==
  ASSUME PreopenInv, NEW p \in Path, Creates(p)
  PROVE  /\ files' \in 0 .. MaxFile
         /\ fs' \in [Path -> {NoFile, Folder} \cup 1 .. MaxFile]
         /\ \A q \in Path : q # p => fs'[q] = fs[q]
<1>1. fs \in [Path -> {NoFile, Folder} \cup 1 .. MaxFile] /\ files \in 0 .. MaxFile
  BY CallTypes
<1>2. files + 1 \in 1 .. MaxFile
  BY <1>1, PreopenAssumption DEF Creates
<1> QED BY <1>1, <1>2 DEF Creates

LEMMA DeletesFacts ==
  ASSUME PreopenInv, NEW p \in Path, Deletes(p)
  PROVE  /\ fs' \in [Path -> {NoFile, Folder} \cup 1 .. MaxFile]
         /\ \A q \in Path : q # p => fs'[q] = fs[q]
<1>1. fs \in [Path -> {NoFile, Folder} \cup 1 .. MaxFile]
  BY CallTypes
<1> QED BY <1>1 DEF Deletes

LEMMA RenamesFacts ==
  ASSUME PreopenInv, NEW o \in Path, NEW n \in Path, Renames(o, n)
  PROVE  /\ fs' \in [Path -> {NoFile, Folder} \cup 1 .. MaxFile]
         /\ \A q \in Path : q \notin AtOrBelow(o) \cup AtOrBelow(n) => fs'[q] = fs[q]
<1> DEFINE T == {NoFile, Folder} \cup 1 .. MaxFile
<1>1. fs \in [Path -> T] /\ NoFile \in T
  BY CallTypes
<1> HIDE DEF T
<1>2. CASE fs' = fs
  BY <1>1, <1>2 DEF T
<1>3. CASE fs' = TreeRenamed(fs, NoFile, o, n)
  <2>1. TreeRenamed(fs, NoFile, o, n) \in [Path -> T]
    BY <1>1 DEF TreeRenamed
  <2>2. \A q \in Path : q \notin AtOrBelow(o) \cup AtOrBelow(n) =>
                          TreeRenamed(fs, NoFile, o, n)[q] = fs[q]
    BY DEF TreeRenamed
  <2> QED BY <1>3, <2>1, <2>2 DEF T
<1> QED BY <1>2, <1>3 DEF Renames

\* A step that changes files and leaves the cache and the calls alone.
LEMMA UnnoticedInv ==
  ASSUME PreopenInv, NEW t \in Caller, activity[t].at = "idle",
         UNCHANGED <<preopens, activity, dangling, disturbed>>,
         fs' \in [Path -> {NoFile, Folder} \cup 1 .. MaxFile], files' \in 0 .. MaxFile,
         changes' \in 0 .. MaxChanges, NEW p \in Path, Overlooks({p}),
         \A q \in Path : q # p => fs'[q] = fs[q]
  PROVE  PreopenInv'
<1>1. PreopenTypeOK /\ activity \in [Caller -> PreopenCall] /\ entry \in Seq(Value)
      /\ disturbed \in BOOLEAN
  BY CallTypes DEF PreopenTypeOK, PreopenCall
<1>2. UNCHANGED <<scheduled, entry, started, pos, it, result>>
  BY DEF preopens
<1>0. PICK c \in PreopenCall : c = activity[t]
  BY <1>1
<1>3. Goes(t, c) /\ c.at = "idle" /\ Shaped(c)'
  BY <1>0, <1>1 DEF Goes, Shaped
<1>4. /\ overlooked \subseteq overlooked' /\ overlooked' \subseteq Path
      /\ \A q \in {p} : fs'[q] = fs[q] \/ Cleared(q)' \/ q \in overlooked'
  <2>1. {p} \in SUBSET Path
    OBVIOUS
  <2> QED BY <1>2, <2>1, OverlooksFacts
<1>5. OnlyErases /\ OwnsUp
  BY <1>1, <1>2 DEF OnlyErases, OwnsUp, Pending, Gone
<1>6. \A q : Created(q) => Created(q)'
  BY DEF Created
<1>7. \A q \in Path : fs'[q] = fs[q] \/ Cleared(q)' \/ q \in overlooked'
  BY <1>4
<1>8. UNCHANGED <<scheduled, started, pos, it, result, dangling>>
  BY <1>2
<1> QED BY <1>3, <1>4, <1>5, <1>6, <1>7, <1>8, CallStepInv

\* open for writing changes the file first and invalidates the entries afterwards.
LEMMA OpenForWriteInv ==
  ASSUME PreopenInv, NEW t \in Caller, OpenForWrite(t)
  PROVE  PreopenInv'
<1>0. NoteDisturbance /\ UNCHANGED <<scheduled, started, pos, it, result, dangling>>
  BY DEF OpenForWrite
<1>1. PreopenTypeOK /\ entry \in Seq(Value)
      /\ fs \in [Path -> {NoFile, Folder} \cup 1 .. MaxFile] /\ files \in 0 .. MaxFile
      /\ changes \in 0 .. MaxChanges /\ overlooked \subseteq Path
  BY CallTypes
<1>2. OwnsUp
  BY <1>0, <1>1, DisturbanceFacts
<1>3. ASSUME NEW p \in Path, CanChange(t), changes' = changes + 1,
             Creates(p) \/ (fs[p] # NoFile /\ UNCHANGED <<fs, files>>),
             Goes(t, Doing("created", <<p>>)), UNCHANGED <<entry, overlooked>>
      PROVE  PreopenInv'
  <2> DEFINE c == Doing("created", <<p>>)
  <2>1. c \in PreopenCall /\ c.at = "created" /\ Len(c.paths) = 1 /\ c.paths[1] = p
    BY DEF Doing, PreopenCall
  <2>2. files' \in 0 .. MaxFile /\ fs' \in [Path -> {NoFile, Folder} \cup 1 .. MaxFile]
        /\ \A q \in Path : q # p => fs'[q] = fs[q]
    BY <1>1, <1>3, CreatesFacts
  <2>3. activity[t].at = "idle" /\ started /\ changes' \in 0 .. MaxChanges
    BY <1>3, CanChangeFacts
  <2>4. Created(p)' /\ \A q : Created(q) => Created(q)'
    <3>1. activity'[t] = c
      BY <1>1, <1>3 DEF Goes, PreopenTypeOK
    <3> HIDE DEF c
    <3>2. Created(p)'
      BY <3>1, <2>1 DEF Created
    <3> QED BY <1>1, <1>3, <2>3, <3>2, CreatedKept
  <2>5. Shaped(c)' /\ OnlyErases
    BY <1>0, <1>1, <1>3, <2>1, <2>3 DEF Shaped, OnlyErases
  <2>6. Goes(t, c)
    BY <1>3
  <2> HIDE DEF c
  <2> QED BY <1>0, <1>1, <1>2, <1>3, <2>1, <2>2, <2>3, <2>4, <2>5, <2>6, CallStepInv
<1>4. ASSUME NEW p \in Path, CanChange(t), changes' = changes + 1, Creates(p), Overlooks({p}),
             UNCHANGED <<entry, activity>>
      PROVE  PreopenInv'
  <2>1. files' \in 0 .. MaxFile /\ fs' \in [Path -> {NoFile, Folder} \cup 1 .. MaxFile]
        /\ \A q \in Path : q # p => fs'[q] = fs[q]
    BY <1>4, CreatesFacts
  <2>2. activity[t].at = "idle" /\ changes' \in 0 .. MaxChanges
    BY <1>4, CanChangeFacts
  <2>3. UNCHANGED <<preopens, activity, dangling, disturbed>>
    <3>1. UNCHANGED disturbed
      BY <1>1, <1>4, <1>0 DEF NoteDisturbance, PreopenTypeOK, Pending, Gone
    <3> QED BY <1>0, <1>4, <3>1 DEF preopens
  <2> QED BY <1>4, <2>1, <2>2, <2>3, UnnoticedInv
<1>5. ASSUME NEW p \in Path, activity[t].at = "created", activity[t].paths[1] = p,
             entry' = Erased(entry, p), Goes(t, Resting),
             UNCHANGED <<fs, files, changes, overlooked>>
      PROVE  PreopenInv'
  <2>1. Resting \in PreopenCall /\ Resting.at = "idle" /\ Shaped(Resting)'
    BY DEF Resting, PreopenCall, Shaped
  <2>2. /\ entry' \in Seq(Value) /\ DOMAIN entry' = DOMAIN entry /\ Len(entry') = Len(entry)
        /\ \A i \in DOMAIN entry : entry'[i] = IF scheduled[i] = p THEN Gone ELSE entry[i]
    BY <1>1, <1>5, ErasedFacts
  <2>3. Cleared(p)'
    BY <1>0, <2>2 DEF Cleared
  <2>4. \A q : Created(q) => Created(q)' \/ q = p
    BY <1>1, <1>5 DEF Created, Goes, PreopenTypeOK
  <2>5. OnlyErases
    BY <2>2 DEF OnlyErases
  <2> QED BY <1>0, <1>1, <1>2, <1>5, <2>1, <2>3, <2>4, <2>5, CallStepInv
<1>6. activity[t].at = "created" => activity[t].paths[1] \in Path
  BY CallTypes
<1> QED BY <1>3, <1>4, <1>5, <1>6 DEF OpenForWrite

\* remove and unlink invalidate first: no entry is there to become stale.
LEMMA RemoveInv ==
  ASSUME PreopenInv, NEW t \in Caller, Remove(t)
  PROVE  PreopenInv'
<1>0. NoteDisturbance
      /\ UNCHANGED <<scheduled, started, pos, it, result, files, dangling, overlooked>>
  BY DEF Remove
<1>1. PreopenTypeOK /\ entry \in Seq(Value)
      /\ fs \in [Path -> {NoFile, Folder} \cup 1 .. MaxFile] /\ files \in 0 .. MaxFile
      /\ changes \in 0 .. MaxChanges /\ overlooked \subseteq Path
  BY CallTypes
<1>2. OwnsUp
  BY <1>0, <1>1, DisturbanceFacts
<1>3. ASSUME NEW p \in Path, CanChange(t), changes' = changes + 1, entry' = Erased(entry, p),
             Goes(t, Doing("removing", <<p>>)), UNCHANGED fs
      PROVE  PreopenInv'
  <2> DEFINE c == Doing("removing", <<p>>)
  <2>0. activity[t].at = "idle" /\ started /\ changes' \in 0 .. MaxChanges
    BY <1>3, CanChangeFacts
  <2>1. c \in PreopenCall /\ c.at = "removing" /\ Len(c.paths) = 1
        /\ \A k \in DOMAIN c.paths : c.paths[k] = p
    BY DEF Doing, PreopenCall
  <2>2. /\ entry' \in Seq(Value) /\ DOMAIN entry' = DOMAIN entry /\ Len(entry') = Len(entry)
        /\ \A i \in DOMAIN entry : entry'[i] = IF scheduled[i] = p THEN Gone ELSE entry[i]
    BY <1>1, <1>3, ErasedFacts
  <2>3. Cleared(p)'
    BY <1>0, <2>2 DEF Cleared
  <2>4. \A q : Created(q) => Created(q)'
    BY <1>1, <1>3, <2>0, CreatedKept
  <2>5. Goes(t, c)
    BY <1>3
  <2>6. OnlyErases /\ Shaped(c)' /\ ClearedFor(c)'
    <3> HIDE DEF c
    <3> QED BY <1>0, <2>0, <2>1, <2>2, <2>3 DEF OnlyErases, Shaped, ClearedFor
  <2> HIDE DEF c
  <2> QED BY <1>0, <1>1, <1>2, <1>3, <2>0, <2>1, <2>4, <2>5, <2>6, CallStepInv
<1>4. ASSUME NEW p \in Path, activity[t].at = "removing", activity[t].paths[1] = p,
             Deletes(p), Goes(t, Resting), UNCHANGED <<changes, entry>>
      PROVE  PreopenInv'
  <2>1. Resting \in PreopenCall /\ Resting.at = "idle" /\ Shaped(Resting)'
    BY DEF Resting, PreopenCall, Shaped
  <2>2. Cleared(p)'
    <3>1. 1 \in DOMAIN activity[t].paths
      BY <1>4, CallTypes
    <3> QED BY <1>0, <1>4, <3>1 DEF PreopenInv, InvalidatedSound, Cleared
  <2>3. /\ fs' \in [Path -> {NoFile, Folder} \cup 1 .. MaxFile]
        /\ \A q \in Path : q # p => fs'[q] = fs[q]
    BY <1>4, DeletesFacts
  <2>4. \A q : Created(q) => Created(q)'
    BY <1>1, <1>4, CreatedKept
  <2>5. OnlyErases
    BY <1>1, <1>4 DEF OnlyErases
  <2> QED BY <1>0, <1>1, <1>2, <1>4, <2>1, <2>2, <2>3, <2>4, <2>5, CallStepInv
<1>5. activity[t].at = "removing" => activity[t].paths[1] \in Path
  BY CallTypes
<1> QED BY <1>3, <1>4, <1>5 DEF Remove

\* rename does so with both of its paths, and overlooks those below them.
LEMMA RenameFileInv ==
  ASSUME PreopenInv, NEW t \in Caller, RenameFile(t)
  PROVE  PreopenInv'
<1>0. NoteDisturbance /\ UNCHANGED <<scheduled, started, pos, it, result, files, dangling>>
  BY DEF RenameFile
<1>1. PreopenTypeOK /\ entry \in Seq(Value)
      /\ fs \in [Path -> {NoFile, Folder} \cup 1 .. MaxFile] /\ files \in 0 .. MaxFile
      /\ changes \in 0 .. MaxChanges /\ overlooked \subseteq Path
  BY CallTypes
<1>2. OwnsUp
  BY <1>0, <1>1, DisturbanceFacts
<1>3. ASSUME NEW p \in Path, NEW q \in Path, CanChange(t), changes' = changes + 1,
             entry' = Erased(Erased(entry, p), q),
             Goes(t, Doing("renaming", <<p, q>>)), UNCHANGED <<fs, overlooked>>
      PROVE  PreopenInv'
  <2> DEFINE c == Doing("renaming", <<p, q>>)
  <2>0. activity[t].at = "idle" /\ started /\ changes' \in 0 .. MaxChanges
    BY <1>3, CanChangeFacts
  <2>1. c \in PreopenCall /\ c.at = "renaming" /\ Len(c.paths) = 2
        /\ \A k \in DOMAIN c.paths : c.paths[k] \in {p, q}
    BY DEF Doing, PreopenCall
  <2>2. /\ entry' \in Seq(Value) /\ DOMAIN entry' = DOMAIN entry /\ Len(entry') = Len(entry)
        /\ \A i \in DOMAIN entry :
             entry'[i] = IF scheduled[i] \in {p, q} THEN Gone ELSE entry[i]
    <3> DEFINE e == Erased(entry, p)
    <3>1. /\ e \in Seq(Value) /\ DOMAIN e = DOMAIN entry /\ Len(e) = Len(entry)
          /\ \A i \in DOMAIN entry : e[i] = IF scheduled[i] = p THEN Gone ELSE entry[i]
      BY <1>1, ErasedFacts
    <3>2. entry' = Erased(e, q)
      BY <1>3
    <3> HIDE DEF e
    <3>3. /\ entry' \in Seq(Value) /\ DOMAIN entry' = DOMAIN e /\ Len(entry') = Len(e)
          /\ \A i \in DOMAIN e : entry'[i] = IF scheduled[i] = q THEN Gone ELSE e[i]
      BY <1>1, <3>1, <3>2, ErasedFacts
    <3> QED BY <3>1, <3>3
  <2>3. Cleared(p)' /\ Cleared(q)'
    BY <1>0, <2>2 DEF Cleared
  <2>4. \A r : Created(r) => Created(r)'
    BY <1>1, <1>3, <2>0, CreatedKept
  <2>5. Goes(t, c)
    BY <1>3
  <2>6. OnlyErases /\ Shaped(c)' /\ ClearedFor(c)'
    <3> HIDE DEF c
    <3> QED BY <1>0, <2>0, <2>1, <2>2, <2>3 DEF OnlyErases, Shaped, ClearedFor
  <2> HIDE DEF c
  <2> QED BY <1>0, <1>1, <1>2, <1>3, <2>0, <2>1, <2>4, <2>5, <2>6, CallStepInv
<1>4. ASSUME NEW p \in Path, NEW q \in Path, activity[t].at = "renaming",
             activity[t].paths[1] = p, activity[t].paths[2] = q,
             Renames(p, q), Overlooks(Below(p) \cup Below(q)),
             Goes(t, Resting), UNCHANGED <<changes, entry>>
      PROVE  PreopenInv'
  <2>1. Resting \in PreopenCall /\ Resting.at = "idle" /\ Shaped(Resting)'
    BY DEF Resting, PreopenCall, Shaped
  <2>2. Cleared(p)' /\ Cleared(q)'
    <3>1. 1 \in DOMAIN activity[t].paths /\ 2 \in DOMAIN activity[t].paths
      BY <1>4, CallTypes
    <3> QED BY <1>0, <1>4, <3>1 DEF PreopenInv, InvalidatedSound, Cleared
  <2>3. /\ fs' \in [Path -> {NoFile, Folder} \cup 1 .. MaxFile]
        /\ \A r \in Path : r \notin AtOrBelow(p) \cup AtOrBelow(q) => fs'[r] = fs[r]
    BY <1>4, RenamesFacts
  <2>4. /\ overlooked \subseteq overlooked' /\ overlooked' \subseteq Path
        /\ \A r \in Below(p) \cup Below(q) : fs'[r] = fs[r] \/ Cleared(r)' \/ r \in overlooked'
    <3>1. Below(p) \cup Below(q) \in SUBSET Path
      BY DEF Below
    <3> QED BY <1>0, <1>4, <3>1, OverlooksFacts
  <2>5. \A r \in Path : fs'[r] = fs[r] \/ Cleared(r)' \/ r \in overlooked'
    <3> HIDE DEF Below, Cleared
    <3> QED BY <2>2, <2>3, <2>4 DEF AtOrBelow
  <2>6. \A r : Created(r) => Created(r)'
    BY <1>1, <1>4, CreatedKept
  <2>7. OnlyErases
    BY <1>1, <1>4 DEF OnlyErases
  <2> QED BY <1>0, <1>1, <1>2, <1>4, <2>1, <2>3, <2>4, <2>5, <2>6, <2>7, CallStepInv
<1>5. activity[t].at = "renaming" =>
        activity[t].paths[1] \in Path /\ activity[t].paths[2] \in Path
  BY CallTypes
<1> QED BY <1>3, <1>4, <1>5 DEF RenameFile

\* mkdir and rmdir overlook the entries of their path.
LEMMA MakeDirectoryInv ==
  ASSUME PreopenInv, NEW t \in Caller, MakeDirectory(t)
  PROVE  PreopenInv'
<1>1. activity[t].at = "idle" /\ changes' \in 0 .. MaxChanges
  BY CanChangeFacts DEF MakeDirectory
<1>2. PICK p \in Path : fs' = [fs EXCEPT ![p] = Folder] /\ Overlooks({p})
  BY DEF MakeDirectory
<1>3. UNCHANGED <<preopens, files, activity, dangling, disturbed>>
  BY DEF MakeDirectory
<1>4. /\ fs' \in [Path -> {NoFile, Folder} \cup 1 .. MaxFile] /\ files' \in 0 .. MaxFile
      /\ \A q \in Path : q # p => fs'[q] = fs[q]
  BY <1>2, <1>3, CallTypes
<1> QED BY <1>1, <1>2, <1>3, <1>4, UnnoticedInv

LEMMA RemoveDirectoryInv ==
  ASSUME PreopenInv, NEW t \in Caller, RemoveDirectory(t)
  PROVE  PreopenInv'
<1>1. activity[t].at = "idle" /\ changes' \in 0 .. MaxChanges
  BY CanChangeFacts DEF RemoveDirectory
<1>2. PICK p \in Path : Deletes(p) /\ Overlooks({p})
  BY DEF RemoveDirectory
<1>3. UNCHANGED <<preopens, files, activity, dangling, disturbed>>
  BY DEF RemoveDirectory
<1>4. /\ fs' \in [Path -> {NoFile, Folder} \cup 1 .. MaxFile] /\ files' \in 0 .. MaxFile
      /\ \A q \in Path : q # p => fs'[q] = fs[q]
  BY <1>2, <1>3, CallTypes, DeletesFacts
<1> QED BY <1>1, <1>2, <1>3, <1>4, UnnoticedInv

LEMMA PreopenNextInv == PreopenInv /\ [PreopenNext]_preopenVars => PreopenInv'
<1> SUFFICES ASSUME PreopenInv, [PreopenNext]_preopenVars PROVE PreopenInv'
  OBVIOUS
<1>1. CASE UNCHANGED preopenVars
  BY <1>1 DEF preopenVars, preopens, PreopenInv, PreopenTypeOK, CallsSound, Shaped,
              IteratorSound, InvalidatedSound, EntriesCurrent, ResultCurrent, Created,
              NoDanglingWrite
<1>2. CASE PreopenNext
  BY <1>2, SchedulePreopenInv, SetBrowserReadyInv, PerformPreopensInv, PreopenIOInv,
     PreopenEndInv, OpenForReadInv, OpenForWriteInv, RemoveInv, RenameFileInv,
     MakeDirectoryInv, RemoveDirectoryInv DEF PreopenNext, PreopenThread
<1> QED BY <1>1, <1>2

-----------------------------------------------------------------------------
(* Theorems *)

\* The entries of preopened_fds_ keep their types, and PerformPreopens writes
\* through an invalid iterator only after pending entries were invalidated.
THEOREM IteratorValid == PreopenSpec => []EntriesSound
<1>1. PreopenInv => EntriesSound
  BY DEF PreopenInv, EntriesSound
<1> QED BY <1>1, PreopenInitInv, PreopenNextInv, PTL DEF PreopenSpec

\* What the cache holds of a path is what an open would find, when no call is
\* changing it: the calls that invalidate a path leave no stale entry of it behind,
\* whatever interleaves with them.  The paths that mkdir, rmdir, the rename of a
\* directory above them, an open that made the file and failed, or a failed preopen
\* left alone are excepted: the code does not invalidate their entries.
THEOREM EntriesStayFresh == PreopenSpec => []EntriesFresh
<1>1. PreopenInv => EntriesFresh
  <2> SUFFICES ASSUME PreopenInv, NEW i \in DOMAIN entry, entry[i] \notin {Pending, Gone},
                      ~Modifying(scheduled[i]), scheduled[i] \notin overlooked
               PROVE  entry[i] = fs[scheduled[i]]
    BY DEF EntriesFresh
  <2>1. ~Created(scheduled[i])
    <3>1. \A t \in Caller : activity[t].at = "created" => 1 \in DOMAIN activity[t].paths
      BY CallTypes
    <3> QED BY <3>1 DEF Created, Modifying
  <2> QED BY <2>1 DEF PreopenInv, EntriesCurrent
<1> QED BY <1>1, PreopenInitInv, PreopenNextInv, PTL DEF PreopenSpec
=============================================================================

--------------------------- MODULE FdTableProofs ---------------------------
(***************************************************************************)
(* Proofs about FdTable, for any numbers of threads, streams and           *)
(* descriptors.                                                            *)
(*                                                                         *)
(* RefCountExact and FdPartition support each other: an action gives a     *)
(* descriptor to a stream on the word of the heap (unused[fd] > 0), so the *)
(* count of the stream that held it before is only right if the heap and   *)
(* the map are disjoint; and a reference can only be dropped if the count  *)
(* of the stream is positive.  Inv adds to them that a stream that was     *)
(* never opened has no reference, and that the source of a suspended dup2  *)
(* is a stream.                                                            *)
(***************************************************************************)
EXTENDS FdTable, FiniteSetTheorems, TLAPS

\* The values of streams_.
Table == [Fd -> Stream \cup {Absent, Null}]

\* How many descriptors the map f gives to x.
Count(f, x) == Cardinality({fd \in Fd : f[fd] = x})

\* A stream object that no descriptor has named yet has no reference.
FreshHasNoRef == \A s \in Stream : ~had[s] => refs[s] = 0

\* A suspended dup2 holds the stream it looked up.
SourceHeld ==
    \A t \in Thread : pc[t] = "dup2ing" => srcOf[t] \in Stream /\ had[srcOf[t]]

Inv ==
    /\ TypeOK
    /\ RefCountExact
    /\ FdPartition
    /\ FreshHasNoRef
    /\ SourceHeld

-----------------------------------------------------------------------------
(* Counting descriptors *)

\* The descriptor table is finite: min..max and what callers pass.
LEMMA FdFinite == IsFiniteSet(Fd)
<1>1. MinFd \in Int /\ MaxFd \in Int /\ IsFiniteSet(CallerFds)
  BY ConstantsAssumption DEF ConstantsAssumption
<1>2. IsFiniteSet(MinFd .. MaxFd)
  BY <1>1, FS_Interval
<1> QED BY <1>1, <1>2, FS_Union DEF Fd

\* The number of descriptors of an entry is a natural number, positive when
\* some descriptor has that entry.
LEMMA CountNat ==
  ASSUME NEW f, NEW x
  PROVE  /\ Count(f, x) \in Nat
         /\ \A fd \in Fd : f[fd] = x => Count(f, x) > 0
<1> DEFINE D == {fd \in Fd : f[fd] = x}
<1>1. IsFiniteSet(D)
  BY FdFinite, FS_Subset
<1>2. Cardinality(D) \in Nat
  BY <1>1, FS_CardinalityType
<1>3. ASSUME NEW fd \in Fd, f[fd] = x PROVE Cardinality(D) > 0
  <2>1. D # {}
    BY <1>3
  <2>2. Cardinality(D) # 0
    BY <2>1, <1>1, FS_EmptySet
  <2> QED BY <2>2, <1>2
<1> QED BY <1>2, <1>3 DEF Count

\* Overwriting one entry of the map moves one descriptor from the old entry to
\* the new one.
LEMMA CountUpdate ==
  ASSUME NEW f \in Table, NEW g \in Table, NEW fd \in Fd, NEW x \in Stream,
         \A d \in Fd : d # fd => g[d] = f[d]
  PROVE  Count(g, x) =
           IF g[fd] = x
             THEN IF f[fd] = x THEN Count(f, x) ELSE Count(f, x) + 1
             ELSE IF f[fd] = x THEN Count(f, x) - 1 ELSE Count(f, x)
<1> DEFINE D == {d \in Fd : f[d] = x}
           E == {d \in Fd : g[d] = x}
<1>1. IsFiniteSet(D)
  BY FdFinite, FS_Subset
<1>2. CASE g[fd] = x /\ f[fd] # x
  <2>1. E = D \cup {fd}
    BY <1>2
  <2>2. fd \notin D
    BY <1>2
  <2>3. Cardinality(E) = Cardinality(D) + 1
    BY <1>1, <2>1, <2>2, FS_AddElement
  <2> QED BY <1>2, <2>3 DEF Count
<1>3. CASE g[fd] # x /\ f[fd] = x
  <2>1. E = D \ {fd}
    BY <1>3
  <2>2. fd \in D
    BY <1>3
  <2>3. Cardinality(E) = Cardinality(D) - 1
    BY <1>1, <2>1, <2>2, FS_RemoveElement
  <2> QED BY <1>3, <2>3 DEF Count
<1>4. CASE (g[fd] = x) = (f[fd] = x)
  <2>1. E = D
    BY <1>4
  <2> QED BY <1>4, <2>1 DEF Count
<1> QED BY <1>2, <1>3, <1>4

\* RefCountExact in terms of Count.
LEMMA RefCountIsCount ==
  RefCountExact <=> \A s \in Stream : refs[s] = Count(streams, s)
BY DEF RefCountExact, DescriptorsOf, Count

-----------------------------------------------------------------------------
(* The inductive invariant *)

\* An entry a descriptor can have, and the facts about constants used below.
LEMMA Entries ==
  /\ Absent \notin Stream /\ Null \notin Stream /\ Absent # Null
  /\ Blocking \subseteq Stream
  /\ MinFd \in Fd
  /\ Fd \subseteq Nat
  /\ CallerFds \subseteq Fd
BY ConstantsAssumption DEF ConstantsAssumption, Fd

\* No descriptor names a stream at the start: all counts are zero.
LEMMA InitInv == Init => Inv
<1> SUFFICES ASSUME Init PROVE Inv
  OBVIOUS
<1>1. TypeOK
  BY Entries DEF Init, TypeOK
<1>2. RefCountExact
  <2> SUFFICES ASSUME NEW s \in Stream PROVE refs[s] = Cardinality(DescriptorsOf(s))
    BY DEF RefCountExact
  <2>1. DescriptorsOf(s) = {}
    BY Entries DEF Init, DescriptorsOf
  <2> QED BY <2>1, FS_EmptySet DEF Init
<1>3. FdPartition
  BY Entries DEF Init, FdPartition
<1>4. FreshHasNoRef /\ SourceHeld
  BY DEF Init, FreshHasNoRef, SourceHeld
<1> QED BY <1>1, <1>2, <1>3, <1>4 DEF Inv

\* The invariant without the counts, which each action is shown to keep first.
Shape == TypeOK /\ FdPartition /\ FreshHasNoRef /\ SourceHeld

\* A stream that a descriptor names has a reference, and one that was never
\* opened is named by no descriptor.
LEMMA NamedHasRef ==
  ASSUME Inv
  PROVE  /\ \A fd \in Fd : streams[fd] \in Stream =>
              refs[streams[fd]] > 0 /\ had[streams[fd]]
         /\ \A s \in Stream : Fresh(s) => refs[s] = 0
         /\ \A s \in Stream : Fresh(s) => \A fd \in Fd : streams[fd] # s
         /\ \A s \in Stream : refs[s] = Count(streams, s)
<1>1. \A s \in Stream : refs[s] = Count(streams, s)
  BY RefCountIsCount DEF Inv
<1>2. \A fd \in Fd : streams[fd] \in Stream => refs[streams[fd]] > 0
  BY <1>1, CountNat
<1>3. \A s \in Stream : ~had[s] => refs[s] = 0
  BY DEF Inv, FreshHasNoRef
<1>4. \A fd \in Fd : streams[fd] \in Stream => had[streams[fd]]
  BY <1>2, <1>3
<1> QED BY <1>1, <1>2, <1>3, <1>4 DEF Fresh

\* A step that overwrites one entry of the table, and moves the reference of the
\* descriptor from the old entry to the new one.
Moves(fd, y) ==
    /\ fd \in Fd
    /\ y \in Stream \cup {Absent, Null}
    /\ streams' = [streams EXCEPT ![fd] = y]
    /\ \A x \in Stream : refs'[x] =
         IF y = x
           THEN IF streams[fd] = x THEN refs[x] ELSE refs[x] + 1
           ELSE IF streams[fd] = x THEN refs[x] - 1 ELSE refs[x]

\* The counts stay exact when one entry of the table is overwritten and the
\* streams that gain or lose the descriptor gain or lose a reference.
LEMMA CountsStep ==
  ASSUME Inv, NEW fd, NEW y, Moves(fd, y)
  PROVE  RefCountExact'
<1> USE DEF Moves
<1> SUFFICES ASSUME NEW x \in Stream PROVE refs'[x] = Count(streams', x)
  BY DEF RefCountExact, Count, DescriptorsOf
<1>1. streams \in Table /\ streams' \in Table
  BY DEF Inv, TypeOK, Table
<1>2. refs[x] = Count(streams, x)
  BY NamedHasRef
<1>3. streams'[fd] = y /\ \A d \in Fd : d # fd => streams'[d] = streams[d]
  BY <1>1 DEF Table
<1>4. Count(streams', x) =
        IF y = x
          THEN IF streams[fd] = x THEN refs[x] ELSE refs[x] + 1
          ELSE IF streams[fd] = x THEN refs[x] - 1 ELSE refs[x]
  BY ONLY <1>1, <1>2, <1>3, fd \in Fd, x \in Stream, CountUpdate
<1> QED BY <1>4

\* What an action may assume: types, and the streams behind the descriptors.
LEMMA Facts ==
  ASSUME Inv
  PROVE  /\ streams \in [Fd -> Stream \cup {Absent, Null}]
         /\ unused \in [Fd -> Nat]
         /\ refs \in [Stream -> Nat]
         /\ had \in [Stream -> BOOLEAN]
         /\ \A fd \in Fd : streams[fd] \in Stream =>
              refs[streams[fd]] > 0 /\ had[streams[fd]] = TRUE
         /\ \A s \in Stream : Fresh(s) =>
              had[s] = FALSE /\ refs[s] = 0 /\ \A fd \in Fd : streams[fd] # s
         /\ \A fd \in Fd : unused[fd] > 0 => unused[fd] = 1 /\ streams[fd] = Absent
<1>1. TypeOK /\ FdPartition
  BY DEF Inv
<1>2. \A fd \in Fd : unused[fd] > 0 => unused[fd] = 1 /\ streams[fd] = Absent
  BY <1>1 DEF TypeOK, FdPartition
<1> QED BY <1>1, <1>2, NamedHasRef DEF TypeOK, Fresh

\* Every step of a thread preserves the invariant.
LEMMA StepInv ==
  ASSUME Inv, NEW t \in Thread, Step(t)
  PROVE  Inv'
<1> SUFFICES Shape' /\ RefCountExact'
  BY DEF Inv, Shape
<1>0. TypeOK /\ FdPartition /\ FreshHasNoRef /\ SourceHeld
  BY DEF Inv
<1>a. CASE AddFileStreamLocked(t)
  <2>1. UNCHANGED <<pc, fdOf, srcOf, aborted, rude>>
    BY <1>a DEF AddFileStreamLocked
  <2> PICK fd \in FirstUnused, s \in {x \in Stream : Fresh(x)} :
         /\ streams' = [streams EXCEPT ![fd] = s]
         /\ unused' = Popped(unused, fd)
         /\ refs' = AddRef(refs, s)
         /\ had' = [had EXCEPT ![s] = TRUE]
    BY <1>a DEF AddFileStreamLocked
  <2>2. /\ fd \in Fd /\ unused[fd] = 1 /\ streams[fd] = Absent
        /\ s \in Stream /\ had[s] = FALSE /\ refs[s] = 0
        /\ \A d \in Fd : streams[d] # s
    BY Facts DEF FirstUnused
  <2>3. Shape'
    <3>1. TypeOK'
      BY <1>0, Entries, <2>1, <2>2 DEF TypeOK, Popped, AddRef
    <3>2. FdPartition'
      BY <1>0, Entries, <2>1, <2>2 DEF TypeOK, FdPartition, Popped, AddRef
    <3>3. FreshHasNoRef'
      BY <1>0, Entries, <2>1, <2>2 DEF TypeOK, FreshHasNoRef, Popped, AddRef
    <3>4. SourceHeld'
      BY <1>0, Entries, <2>1, <2>2 DEF TypeOK, SourceHeld, Popped, AddRef
    <3> QED BY <3>1, <3>2, <3>3, <3>4 DEF Shape
  <2>4. Moves(fd, s)
    BY <1>0, <2>1, <2>2, Entries DEF TypeOK, Moves, AddRef
  <2> QED BY <2>3, <2>4, CountsStep
<1>b. CASE AddPair(t)
  <2>1. UNCHANGED <<pc, fdOf, srcOf, aborted, rude>>
    BY <1>b DEF AddPair
  <2> PICK fd1 \in FirstUnused, fd2 \in Fd,
           s1, s2 \in {x \in Stream : Fresh(x)} :
         LET rest == Popped(unused, fd1) IN
         /\ rest[fd2] > 0
         /\ \A g \in Fd : rest[g] > 0 => fd2 <= g
         /\ s1 # s2
         /\ streams' = [streams EXCEPT ![fd1] = s1, ![fd2] = s2]
         /\ unused' = Popped(rest, fd2)
         /\ refs' = AddRef(AddRef(refs, s1), s2)
         /\ had' = [had EXCEPT ![s1] = TRUE, ![s2] = TRUE]
    BY <1>b DEF AddPair
  <2>2. /\ fd1 \in Fd /\ unused[fd1] = 1 /\ streams[fd1] = Absent
        /\ s1 \in Stream /\ s2 \in Stream /\ s1 # s2
        /\ had[s1] = FALSE /\ had[s2] = FALSE
    BY Facts DEF FirstUnused
  <2>3. fd2 # fd1 /\ unused[fd2] = 1 /\ streams[fd2] = Absent
    BY <2>2, Facts DEF Popped
  <2>4. /\ unused' = [unused EXCEPT ![fd1] = 0, ![fd2] = 0]
        /\ refs' = [refs EXCEPT ![s1] = refs[s1] + 1, ![s2] = refs[s2] + 1]
    <3>1. unused \in [Fd -> Nat] /\ refs \in [Stream -> Nat]
      BY <1>0 DEF TypeOK
    <3>2. unused' = [unused EXCEPT ![fd1] = 0, ![fd2] = 0]
      BY <2>2, <2>3, <3>1 DEF Popped
    <3>3. refs' = [refs EXCEPT ![s1] = refs[s1] + 1, ![s2] = refs[s2] + 1]
      BY <2>2, <3>1 DEF AddRef
    <3> QED BY <3>2, <3>3
  <2>5. Shape'
    <3>1. TypeOK'
      <4>1. unused' \in [Fd -> Nat] /\ refs' \in [Stream -> Nat]
        BY <1>0, <2>2, <2>4 DEF TypeOK
      <4>2. /\ streams' \in [Fd -> Stream \cup {Absent, Null}]
            /\ had' \in [Stream -> BOOLEAN]
        BY <1>0, <2>2 DEF TypeOK
      <4> QED BY <1>0, <2>1, <4>1, <4>2 DEF TypeOK
    <3>2. FdPartition'
      BY <1>0, Entries, <2>1, <2>2, <2>3, <2>4 DEF TypeOK, FdPartition, Fresh
    <3>3. FreshHasNoRef'
      BY <1>0, Entries, <2>1, <2>2, <2>3, <2>4 DEF TypeOK, FreshHasNoRef, Fresh
    <3>4. SourceHeld'
      BY <1>0, Entries, <2>1, <2>2, <2>3, <2>4 DEF TypeOK, SourceHeld, Fresh
    <3> QED BY <3>1, <3>2, <3>3, <3>4 DEF Shape
  <2>6. RefCountExact'
    <3> DEFINE mid == [streams EXCEPT ![fd1] = s1]
    <3> SUFFICES ASSUME NEW x \in Stream PROVE refs'[x] = Count(streams', x)
      BY DEF RefCountExact, Count, DescriptorsOf
    <3>1. /\ streams \in Table /\ mid \in Table /\ streams' \in Table
          /\ \A d \in Fd : d # fd1 => mid[d] = streams[d]
          /\ \A d \in Fd : d # fd2 => streams'[d] = mid[d]
          /\ mid[fd1] = s1 /\ mid[fd2] = Absent /\ streams'[fd2] = s2
      BY <1>0, <2>2, <2>3 DEF TypeOK, Table
    <3>2. refs[x] = Count(streams, x)
      BY NamedHasRef
    <3> HIDE DEF mid
    <3>3. Count(mid, x) = IF s1 = x THEN refs[x] + 1 ELSE refs[x]
      BY ONLY <2>2, <3>1, <3>2, x \in Stream, Entries, CountUpdate
    <3>4. Count(streams', x) = IF s2 = x THEN Count(mid, x) + 1 ELSE Count(mid, x)
      BY ONLY fd2 \in Fd, <3>1, x \in Stream, Entries, CountUpdate
    <3> QED BY <1>0, <2>2, <2>4, <3>3, <3>4 DEF TypeOK
  <2> QED BY <2>5, <2>6
<1>c. CASE Dup(t)
  <2>1. UNCHANGED <<had, pc, fdOf, srcOf, aborted, rude>>
    BY <1>c DEF Dup
  <2> PICK fd \in Fd, newfd \in FirstUnused :
         /\ streams[fd] \in Stream
         /\ streams' = [streams EXCEPT ![newfd] = streams[fd]]
         /\ unused' = Popped(unused, newfd)
         /\ refs' = AddRef(refs, streams[fd])
    BY <1>c DEF Dup
  <2>2. /\ newfd \in Fd /\ unused[newfd] = 1 /\ streams[newfd] = Absent
        /\ had[streams[fd]] = TRUE
    BY Facts DEF FirstUnused
  <2>3. Shape'
    <3>1. TypeOK'
      BY <1>0, Entries, <2>1, <2>2 DEF TypeOK, Popped, AddRef
    <3>2. FdPartition'
      BY <1>0, Entries, <2>1, <2>2 DEF TypeOK, FdPartition, Popped, AddRef
    <3>3. FreshHasNoRef'
      BY <1>0, Entries, <2>1, <2>2 DEF TypeOK, FreshHasNoRef, Popped, AddRef
    <3>4. SourceHeld'
      BY <1>0, Entries, <2>1, <2>2 DEF TypeOK, SourceHeld, Popped, AddRef
    <3> QED BY <3>1, <3>2, <3>3, <3>4 DEF Shape
  <2>4. Moves(newfd, streams[fd])
    BY <1>0, <2>1, <2>2, Entries DEF TypeOK, Moves, AddRef
  <2> QED BY <2>3, <2>4, CountsStep
<1>d. CASE RegisterFileStream(t)
  <2>1. UNCHANGED <<pc, fdOf, srcOf, aborted, rude>>
    BY <1>d DEF RegisterFileStream, IsKnownDescriptor
  <2> PICK fd \in CallerFds, s \in {x \in Stream : Fresh(x)} :
         /\ streams[fd] = Absent
         /\ streams' = [streams EXCEPT ![fd] = s]
         /\ unused' = Claimed(unused, fd)
         /\ refs' = AddRef(refs, s)
         /\ had' = [had EXCEPT ![s] = TRUE]
    BY <1>d DEF RegisterFileStream, IsKnownDescriptor
  <2>2. /\ fd \in Fd /\ unused' = [unused EXCEPT ![fd] = 0]
        /\ s \in Stream /\ had[s] = FALSE /\ refs[s] = 0
        /\ \A d \in Fd : streams[d] # s
    BY Entries, Facts DEF Claimed
  <2>3. Shape'
    <3>1. TypeOK'
      BY <1>0, Entries, <2>1, <2>2 DEF TypeOK, AddRef
    <3>2. FdPartition'
      BY <1>0, Entries, <2>1, <2>2 DEF TypeOK, FdPartition, AddRef
    <3>3. FreshHasNoRef'
      BY <1>0, Entries, <2>1, <2>2 DEF TypeOK, FreshHasNoRef, AddRef
    <3>4. SourceHeld'
      BY <1>0, Entries, <2>1, <2>2 DEF TypeOK, SourceHeld, AddRef
    <3> QED BY <3>1, <3>2, <3>3, <3>4 DEF Shape
  <2>4. Moves(fd, s)
    BY <1>0, <2>1, <2>2, Entries DEF TypeOK, Moves, AddRef
  <2> QED BY <2>3, <2>4, CountsStep
<1>e. CASE Close(t)
  <2>1. UNCHANGED <<had, aborted, rude>>
    BY <1>e DEF Close
  <2> PICK fd \in Fd :
         /\ streams[fd] \in Stream
         /\ streams' = [streams EXCEPT ![fd] = Absent]
         /\ unused' = Pushed(unused, fd)
         /\ refs' = DropRef(refs, streams[fd])
         /\ IF LastBlocking(fd)
              THEN Suspend(t, "closing", MinFd, Null)
              ELSE UNCHANGED <<pc, fdOf, srcOf>>
    BY <1>e DEF Close
  <2>2. /\ unused[fd] = 0 /\ refs[streams[fd]] > 0
        /\ had[streams[fd]] = TRUE
    BY <1>0, Entries, Facts DEF FdPartition
  <2>3. Shape'
    <3>1. TypeOK'
      BY <1>0, Entries, <2>1, <2>2 DEF TypeOK, Pushed, DropRef, Suspend
    <3>2. FdPartition'
      BY <1>0, Entries, <2>1, <2>2 DEF TypeOK, FdPartition, Pushed
    <3>3. FreshHasNoRef'
      BY <1>0, Entries, <2>1, <2>2 DEF TypeOK, FreshHasNoRef, DropRef
    <3>4. SourceHeld'
      BY <1>0, Entries, <2>1, <2>2 DEF TypeOK, SourceHeld, Suspend
    <3> QED BY <3>1, <3>2, <3>3, <3>4 DEF Shape
  <2>4. Moves(fd, Absent)
    BY <1>0, <2>1, <2>2, Entries DEF TypeOK, Moves, DropRef
  <2> QED BY <2>3, <2>4, CountsStep
<1>f. CASE CloseEnd(t)
  <2>1. UNCHANGED <<streams, unused, refs, had, aborted, rude>> /\ Return(t)
    BY <1>f DEF CloseEnd
  <2>2. Shape'
    <3>1. TypeOK'
      BY <1>0, Entries, <2>1 DEF TypeOK, Return, Suspend
    <3>2. FdPartition'
      BY <1>0, Entries, <2>1 DEF TypeOK, FdPartition, Return, Suspend
    <3>3. FreshHasNoRef'
      BY <1>0, Entries, <2>1 DEF TypeOK, FreshHasNoRef, Return, Suspend
    <3>4. SourceHeld'
      BY <1>0, Entries, <2>1 DEF TypeOK, SourceHeld, Return, Suspend
    <3> QED BY <3>1, <3>2, <3>3, <3>4 DEF Shape
  <2>3. RefCountExact'
    BY <2>1 DEF Inv, RefCountExact, DescriptorsOf
  <2> QED BY <2>2, <2>3
<1>g. CASE ReplaceFileStream(t)
  <2>1. UNCHANGED <<unused, aborted, rude>>
    BY <1>g DEF ReplaceFileStream
  <2> PICK fd \in Fd, s \in {x \in Stream : Fresh(x)} :
         /\ streams[fd] \in Stream
         /\ streams' = [streams EXCEPT ![fd] = s]
         /\ refs' = DropRef(AddRef(refs, s), streams[fd])
         /\ had' = [had EXCEPT ![s] = TRUE]
         /\ IF LastBlocking(fd)
              THEN Suspend(t, "closing", MinFd, Null)
              ELSE UNCHANGED <<pc, fdOf, srcOf>>
    BY <1>g DEF ReplaceFileStream
  <2>2. /\ refs[streams[fd]] > 0 /\ had[streams[fd]] = TRUE
        /\ s \in Stream /\ had[s] = FALSE /\ refs[s] = 0
        /\ \A d \in Fd : streams[d] # s
        /\ refs' = [refs EXCEPT ![s] = refs[s] + 1,
                                ![streams[fd]] = refs[streams[fd]] - 1]
    <3>1. /\ refs[streams[fd]] > 0 /\ had[streams[fd]] = TRUE
          /\ s \in Stream /\ Fresh(s) /\ streams[fd] \in Stream
      BY <2>1, Facts
    <3>2. had[s] = FALSE /\ refs[s] = 0 /\ \A d \in Fd : streams[d] # s
      BY <3>1, Facts
    <3>3. /\ AddRef(refs, s) = [refs EXCEPT ![s] = refs[s] + 1]
          /\ s # streams[fd]
      BY <3>1, <3>2 DEF AddRef
    <3>4. refs' = [refs EXCEPT ![s] = refs[s] + 1,
                               ![streams[fd]] = refs[streams[fd]] - 1]
      BY <2>1, <3>1, <3>3, Facts DEF DropRef
    <3> QED BY <3>1, <3>2, <3>4
  <2>3. Shape'
    <3>1. TypeOK'
      BY <1>0, Entries, <2>1, <2>2 DEF TypeOK, Suspend
    <3>2. FdPartition'
      BY <1>0, Entries, <2>1, <2>2 DEF TypeOK, FdPartition, Suspend
    <3>3. FreshHasNoRef'
      BY <1>0, Entries, <2>1, <2>2 DEF TypeOK, FreshHasNoRef, Suspend
    <3>4. SourceHeld'
      BY <1>0, Entries, <2>1, <2>2 DEF TypeOK, SourceHeld, Suspend
    <3> QED BY <3>1, <3>2, <3>3, <3>4 DEF Shape
  <2>4. Moves(fd, s)
    BY <1>0, <2>1, <2>2, Entries DEF TypeOK, Moves
  <2> QED BY <2>3, <2>4, CountsStep
<1>h. CASE OpenBegin(t)
  <2>1. UNCHANGED <<refs, had, aborted, rude>>
    BY <1>h DEF OpenBegin
  <2> PICK fd \in FirstUnused :
         /\ streams' = [streams EXCEPT ![fd] = Null]
         /\ unused' = Popped(unused, fd)
         /\ Suspend(t, "opening", fd, Null)
    BY <1>h DEF OpenBegin
  <2>2. /\ fd \in Fd /\ unused[fd] = 1 /\ streams[fd] = Absent
    BY Facts DEF FirstUnused
  <2>3. Shape'
    <3>1. TypeOK'
      BY <1>0, Entries, <2>1, <2>2 DEF TypeOK, Popped, Suspend
    <3>2. FdPartition'
      BY <1>0, Entries, <2>1, <2>2 DEF TypeOK, FdPartition, Popped, Suspend
    <3>3. FreshHasNoRef'
      BY <1>0, Entries, <2>1, <2>2 DEF TypeOK, FreshHasNoRef, Popped, Suspend
    <3>4. SourceHeld'
      BY <1>0, Entries, <2>1, <2>2 DEF TypeOK, SourceHeld, Popped, Suspend
    <3> QED BY <3>1, <3>2, <3>3, <3>4 DEF Shape
  <2>4. Moves(fd, Null)
    BY <1>0, <2>1, <2>2, Entries DEF TypeOK, Moves
  <2> QED BY <2>3, <2>4, CountsStep
<1>i. CASE OpenFail(t) /\ streams[fdOf[t]] # Absent
  <2> DEFINE fd == fdOf[t]
  <2>1. /\ fd \in Fd /\ streams[fd] # Absent /\ unused[fd] = 0
        /\ streams' = [streams EXCEPT ![fd] = Absent]
        /\ unused' = Pushed(unused, fd)
        /\ refs' = Released(refs, streams[fd])
        /\ UNCHANGED <<had, aborted, rude>>
        /\ Suspend(t, "closing", MinFd, Null) \/ Return(t)
    BY <1>0, <1>i DEF OpenFail, TypeOK, FdPartition
  <2>2. streams[fd] \in Stream => refs[streams[fd]] > 0 /\ had[streams[fd]] = TRUE
    BY <2>1, Facts
  <2> HIDE DEF fd
  <2>3. Shape'
    <3>1. TypeOK'
      BY <1>0, Entries, <2>1, <2>2 DEF TypeOK, Pushed, Released, DropRef, Suspend, Return
    <3>2. FdPartition'
      BY <1>0, Entries, <2>1, <2>2 DEF TypeOK, FdPartition, Pushed
    <3>3. FreshHasNoRef'
      BY <1>0, Entries, <2>1, <2>2 DEF TypeOK, FreshHasNoRef, Released, DropRef
    <3>4. SourceHeld'
      BY <1>0, Entries, <2>1, <2>2 DEF TypeOK, SourceHeld, Suspend, Return
    <3> QED BY <3>1, <3>2, <3>3, <3>4 DEF Shape
  <2>4. Moves(fd, Absent)
    BY <1>0, <2>1, <2>2, Entries DEF TypeOK, Moves, Released, DropRef
  <2> QED BY <2>3, <2>4, CountsStep
<1>j. CASE OpenEnd(t) /\ streams[fdOf[t]] \notin Stream
  <2> DEFINE fd == fdOf[t]
  <2> PICK s \in {x \in Stream : Fresh(x)} :
         /\ streams' = [streams EXCEPT ![fd] = s]
         /\ unused' = Claimed(unused, fd)
         /\ refs' = AddRef(refs, s)
         /\ had' = [had EXCEPT ![s] = TRUE]
         /\ Return(t)
         /\ UNCHANGED <<aborted, rude>>
    BY <1>j DEF OpenEnd
  <2>1. /\ fd \in Fd /\ streams[fd] \notin Stream
        /\ unused' = [unused EXCEPT ![fd] = 0]
    BY <1>0, <1>j DEF Claimed, TypeOK, FdPartition
  <2>2. /\ s \in Stream /\ had[s] = FALSE /\ refs[s] = 0
        /\ \A d \in Fd : streams[d] # s
    BY Facts
  <2> HIDE DEF fd
  <2>3. Shape'
    <3>1. TypeOK'
      BY <1>0, Entries, <2>1, <2>2 DEF TypeOK, AddRef, Return, Suspend
    <3>2. FdPartition'
      BY <1>0, Entries, <2>1, <2>2 DEF TypeOK, FdPartition, AddRef, Return, Suspend
    <3>3. FreshHasNoRef'
      BY <1>0, Entries, <2>1, <2>2 DEF TypeOK, FreshHasNoRef, AddRef, Return, Suspend
    <3>4. SourceHeld'
      BY <1>0, Entries, <2>1, <2>2 DEF TypeOK, SourceHeld, AddRef, Return, Suspend
    <3> QED BY <3>1, <3>2, <3>3, <3>4 DEF Shape
  <2>4. Moves(fd, s)
    BY <1>0, <2>1, <2>2, Entries DEF TypeOK, Moves, AddRef
  <2> QED BY <2>3, <2>4, CountsStep
<1>k. CASE Dup2(t)
  <2>1. UNCHANGED <<had, aborted>>
    BY <1>k DEF Dup2
  <2> PICK fd \in Fd, newfd \in CallerFds :
         /\ streams[fd] \in Stream
         /\ fd # newfd
         /\ rude' = (rude \/ ~Dup2Discipline(newfd))
         /\ IF LastBlocking(newfd)
              THEN /\ streams' = [streams EXCEPT ![newfd] = Absent]
                   /\ unused' = Pushed(unused, newfd)
                   /\ refs' = DropRef(refs, streams[newfd])
                   /\ Suspend(t, "dup2ing", newfd, streams[fd])
              ELSE /\ streams' = [streams EXCEPT ![newfd] = streams[fd]]
                   /\ unused' = IF streams[newfd] = Null
                                  THEN unused
                                  ELSE [unused EXCEPT ![newfd] = 0]
                   /\ refs' = AddRef(Released(refs, streams[newfd]), streams[fd])
                   /\ UNCHANGED <<pc, fdOf, srcOf>>
    BY <1>k DEF Dup2
  <2>2. /\ newfd \in Fd /\ had[streams[fd]] = TRUE /\ refs[streams[fd]] > 0
        /\ streams[newfd] \in Stream =>
             refs[streams[newfd]] > 0 /\ had[streams[newfd]] = TRUE
    BY Entries, Facts
  <2>3. CASE LastBlocking(newfd)
    <3>1. /\ streams[newfd] \in Stream /\ unused[newfd] = 0
          /\ streams' = [streams EXCEPT ![newfd] = Absent]
          /\ unused' = [unused EXCEPT ![newfd] = 1]
          /\ refs' = DropRef(refs, streams[newfd])
          /\ Suspend(t, "dup2ing", newfd, streams[fd])
      BY <1>0, <2>2, <2>3, Entries DEF LastBlocking, Pushed, TypeOK, FdPartition
    <3>2. Shape'
      <4>1. TypeOK'
        BY <1>0, Entries, <2>1, <2>2, <3>1 DEF TypeOK, DropRef, Suspend
      <4>2. FdPartition'
        BY <1>0, Entries, <2>1, <2>2, <3>1 DEF TypeOK, FdPartition, Suspend
      <4>3. FreshHasNoRef'
        BY <1>0, Entries, <2>1, <2>2, <3>1 DEF TypeOK, FreshHasNoRef, DropRef
      <4>4. SourceHeld'
        BY <1>0, Entries, <2>1, <2>2, <3>1 DEF TypeOK, SourceHeld, Suspend
      <4> QED BY <4>1, <4>2, <4>3, <4>4 DEF Shape
    <3>3. Moves(newfd, Absent)
      BY <1>0, <2>2, <3>1, Entries DEF TypeOK, Moves, DropRef
    <3> QED BY <3>2, <3>3, CountsStep
  <2>4. CASE ~LastBlocking(newfd)
    <3>1. /\ streams' = [streams EXCEPT ![newfd] = streams[fd]]
          /\ unused' = [unused EXCEPT ![newfd] = 0]
          /\ refs' = AddRef(Released(refs, streams[newfd]), streams[fd])
          /\ UNCHANGED <<pc, fdOf, srcOf>>
      BY <1>0, <2>2, <2>4, Entries DEF TypeOK, FdPartition
    <3>2. Shape'
      <4>1. TypeOK'
        BY <1>0, Entries, <2>1, <2>2, <3>1 DEF TypeOK, Released, AddRef, DropRef
      <4>2. FdPartition'
        BY <1>0, Entries, <2>1, <2>2, <3>1 DEF TypeOK, FdPartition, Suspend
      <4>3. FreshHasNoRef'
        BY <1>0, Entries, <2>1, <2>2, <3>1 DEF TypeOK, FreshHasNoRef, Released, AddRef, DropRef
      <4>4. SourceHeld'
        BY <1>0, Entries, <2>1, <2>2, <3>1 DEF TypeOK, SourceHeld, Suspend
      <4> QED BY <4>1, <4>2, <4>3, <4>4 DEF Shape
    <3>3. Moves(newfd, streams[fd])
      BY <1>0, <2>2, <3>1, Entries DEF TypeOK, Moves, Released, AddRef, DropRef
    <3> QED BY <3>2, <3>3, CountsStep
  <2> QED BY <2>3, <2>4
<1>l. CASE Dup2End(t) /\ ~(IsClosed(srcOf[t]) \/ streams[fdOf[t]] \in Stream)
  <2> DEFINE newfd == fdOf[t]
             s == srcOf[t]
  <2>1. /\ streams' = [streams EXCEPT ![newfd] = s]
        /\ unused' = Claimed(unused, newfd)
        /\ refs' = AddRef(refs, s)
        /\ Return(t)
        /\ UNCHANGED <<had, aborted, rude>>
    BY <1>l DEF Dup2End, CheckNotClosed
  <2>2. /\ newfd \in Fd /\ streams[newfd] \notin Stream
        /\ s \in Stream /\ had[s] /\ ~IsClosed(s)
        /\ unused' = [unused EXCEPT ![newfd] = 0]
    <3>1. newfd \in Fd /\ streams[newfd] \notin Stream /\ ~IsClosed(s)
      BY <1>0, <1>l DEF TypeOK
    <3>2. pc[t] = "dup2ing"
      BY <1>l DEF Dup2End, CheckNotClosed, At
    <3>3. s \in Stream /\ had[s]
      BY <1>0, <3>2 DEF SourceHeld
    <3>4. unused' = [unused EXCEPT ![newfd] = 0]
      BY <1>0, <2>1, <3>1 DEF Claimed, TypeOK, FdPartition
    <3> QED BY <3>1, <3>3, <3>4
  <2> HIDE DEF newfd, s
  <2>3. Shape'
    <3>1. TypeOK'
      BY <1>0, Entries, <2>1, <2>2 DEF TypeOK, AddRef, Return, Suspend
    <3>2. FdPartition'
      BY <1>0, Entries, <2>1, <2>2 DEF TypeOK, FdPartition, AddRef, Return, Suspend
    <3>3. FreshHasNoRef'
      BY <1>0, Entries, <2>1, <2>2 DEF TypeOK, FreshHasNoRef, AddRef, Return, Suspend
    <3>4. SourceHeld'
      BY <1>0, Entries, <2>1, <2>2 DEF TypeOK, SourceHeld, AddRef, Return, Suspend
    <3> QED BY <3>1, <3>2, <3>3, <3>4 DEF Shape
  <2>4. Moves(newfd, s)
    BY <1>0, <2>1, <2>2, Entries DEF TypeOK, Moves, AddRef
  <2> QED BY <2>3, <2>4, CountsStep
<1>m. CASE Abort
  <2>1. UNCHANGED <<streams, unused, refs, had, pc, fdOf, srcOf, rude>> /\ aborted' = TRUE
    BY <1>m DEF Abort
  <2>2. Shape'
    <3>1. TypeOK'
      BY <1>0, Entries, <2>1 DEF TypeOK, Abort
    <3>2. FdPartition'
      BY <1>0, Entries, <2>1 DEF TypeOK, FdPartition, Abort
    <3>3. FreshHasNoRef'
      BY <1>0, Entries, <2>1 DEF TypeOK, FreshHasNoRef, Abort
    <3>4. SourceHeld'
      BY <1>0, Entries, <2>1 DEF TypeOK, SourceHeld, Abort
    <3> QED BY <3>1, <3>2, <3>3, <3>4 DEF Shape
  <2>3. RefCountExact'
    BY <2>1 DEF Inv, RefCountExact, DescriptorsOf
  <2> QED BY <2>2, <2>3
<1>n. \/ AddFileStreamLocked(t) \/ AddPair(t) \/ Dup(t) \/ RegisterFileStream(t)
      \/ Close(t) \/ CloseEnd(t) \/ ReplaceFileStream(t) \/ OpenBegin(t) \/ Dup2(t)
      \/ (OpenFail(t) /\ streams[fdOf[t]] # Absent)
      \/ (OpenEnd(t) /\ streams[fdOf[t]] \notin Stream)
      \/ (Dup2End(t) /\ ~(IsClosed(srcOf[t]) \/ streams[fdOf[t]] \in Stream))
      \/ Abort
  BY DEF Step, OpenFail, OpenEnd, Dup2End, CheckNotClosed
<1> QED
  BY <1>a, <1>b, <1>c, <1>d, <1>e, <1>f, <1>g, <1>h, <1>i, <1>j, <1>k, <1>l,
     <1>m, <1>n

-----------------------------------------------------------------------------
(* Theorems *)

\* The inductive invariant holds in every reachable state.
THEOREM InvHolds == Spec => []Inv
<1>1. Init => Inv
  BY InitInv
<1>2. Inv /\ [Next]_vars => Inv'
  <2> SUFFICES ASSUME Inv, [Next]_vars PROVE Inv'
    OBVIOUS
  <2>1. CASE Next
    BY <2>1, StepInv DEF Next
  <2>2. CASE UNCHANGED vars
    BY <2>2 DEF vars, Inv, TypeOK, RefCountExact, DescriptorsOf, FdPartition,
         FreshHasNoRef, SourceHeld
  <2> QED BY <2>1, <2>2
<1> QED BY <1>1, <1>2, PTL DEF Spec

\* Every variable of the descriptor table keeps its type.
THEOREM TypeCorrect == Spec => []TypeOK
BY InvHolds, PTL DEF Inv

\* AddFileStream, RemoveFileStream and ReplaceFileStream keep the reference count
\* of every stream equal to the number of descriptors that name it, in any
\* interleaving of the calls at the points where they release the mutex.
THEOREM RefCountsExact == Spec => []RefCountExact
BY InvHolds, PTL DEF Inv

\* unused_fds_ and streams_ partition the descriptors.
THEOREM DescriptorsPartitioned == Spec => []FdPartition
BY InvHolds, PTL DEF Inv

\* GetStream never returns a closed stream: a stream that is being closed with
\* the mutex released is no longer in the table.
THEOREM ClosedUnreachable == Spec => []NoClosedStreamReachable
<1>1. Inv => NoClosedStreamReachable
  <2> SUFFICES ASSUME Inv, NEW fd \in Fd, streams[fd] \in Stream
               PROVE  ~IsClosed(streams[fd])
    BY DEF NoClosedStreamReachable
  <2>1. refs[streams[fd]] > 0
    BY Facts
  <2> QED BY <2>1 DEF IsClosed
<1> QED BY <1>1, InvHolds, PTL

\* A closed stream is never revived, not even by a dup2 that looked its source up
\* before it lost the mutex.
THEOREM ClosedStaysClosed == Spec => ClosedForever
<1>1. Inv /\ [Next]_vars => [\A s \in Stream : IsClosed(s) => IsClosed(s)']_vars
  <2> SUFFICES ASSUME Inv, NEW t \in Thread, Step(t), NEW s \in Stream, IsClosed(s)
               PROVE  IsClosed(s)'
    BY DEF Next
  <2>1. had[s] = TRUE /\ refs[s] = 0 /\ \A fd \in Fd : streams[fd] # s
    <3>1. had \in [Stream -> BOOLEAN]
      BY DEF Inv, TypeOK
    <3>2. had[s] = TRUE /\ refs[s] = 0
      BY <3>1 DEF IsClosed
    <3>3. \A fd \in Fd : streams[fd] \in Stream => refs[streams[fd]] > 0
      BY Facts
    <3> QED BY <3>2, <3>3
  <2>2. ASSUME OpenFail(t) PROVE had'[s] = TRUE /\ refs'[s] = 0
    <3>1. /\ had' = had
          /\ refs' = refs \/ refs' = Released(refs, streams[fdOf[t]])
      BY <2>2 DEF OpenFail, Abort
    <3>2. fdOf[t] \in Fd /\ refs \in [Stream -> Nat]
      BY DEF Inv, TypeOK
    <3> QED BY <2>1, <3>1, <3>2 DEF Released, DropRef
  <2>3. had'[s] = TRUE /\ refs'[s] = 0
    <3> USE <2>1, Facts, Entries DEF AddRef, DropRef, Released, Fresh
    <3>1. CASE AddFileStreamLocked(t)
      BY <3>1 DEF AddFileStreamLocked
    <3>2. CASE AddPair(t)
      BY <3>2 DEF AddPair
    <3>3. CASE Dup(t)
      BY <3>3 DEF Dup
    <3>4. CASE RegisterFileStream(t)
      BY <3>4 DEF RegisterFileStream, IsKnownDescriptor
    <3>5. CASE Close(t)
      BY <3>5 DEF Close
    <3>6. CASE CloseEnd(t)
      BY <3>6 DEF CloseEnd
    <3>7. CASE ReplaceFileStream(t)
      BY <3>7 DEF ReplaceFileStream
    <3>8. CASE OpenBegin(t)
      BY <3>8 DEF OpenBegin
    <3>9. CASE OpenFail(t)
      BY <2>2, <3>9
    <3>10. CASE OpenEnd(t)
      BY <3>10 DEF OpenEnd, Abort
    <3>11. CASE Dup2(t)
      BY <3>11 DEF Dup2, LastBlocking
    <3>12. CASE Dup2End(t)
      BY <3>12 DEF Dup2End, CheckNotClosed, IsClosed, Abort
    <3> QED BY <3>1, <3>2, <3>3, <3>4, <3>5, <3>6, <3>7, <3>8, <3>9, <3>10,
               <3>11, <3>12 DEF Step
  <2> QED BY <2>3 DEF IsClosed
<1> QED BY <1>1, InvHolds, PTL DEF Spec, ClosedForever

-----------------------------------------------------------------------------
(* Callers of dup2 that respect Dup2Discipline *)

\* Under the discipline no dup2 is ever suspended, so a reserved descriptor is
\* only touched by the open() that reserved it and no assertion can fail.
DInv ==
    /\ Inv
    /\ ~rude => /\ Owned
                /\ aborted = FALSE
                /\ \A t \in Thread : pc[t] # "dup2ing"

\* A step that leaves the threads alone keeps the reservations if it neither
\* makes nor drops one.
LEMMA ReservationsKept ==
  ASSUME Inv, Owned, pc' = pc, fdOf' = fdOf,
         \A fd \in Fd : streams'[fd] = Null <=> streams[fd] = Null
  PROVE  Owned'
<1>1. fdOf \in [Thread -> Fd] 
  BY DEF Inv, TypeOK
<1> QED BY <1>1 DEF Owned

\* The same when a thread that was not opening stops or starts waiting in a
\* socket's OnLastFileRef().
LEMMA ReservationsKeptClosing ==
  ASSUME Inv, Owned, NEW t \in Thread, pc[t] # "opening", NEW w, w # "opening",
         pc' = [pc EXCEPT ![t] = w], NEW d \in Fd, fdOf' = [fdOf EXCEPT ![t] = d],
         \A fd \in Fd : streams'[fd] = Null <=> streams[fd] = Null
  PROVE  Owned'
<1>1. fdOf \in [Thread -> Fd] /\ DOMAIN pc = Thread
  BY DEF Inv, TypeOK
<1> QED BY <1>1 DEF Owned

\* The history variable is never reset.
LEMMA RudeKept ==
  ASSUME NEW t \in Thread, Step(t), ~rude'
  PROVE  ~rude
BY DEF Step, AddFileStreamLocked, AddPair, Dup, RegisterFileStream, Close, CloseEnd,
       ReplaceFileStream, OpenBegin, OpenFail, OpenEnd, Dup2, Dup2End, Abort

\* Every step preserves DInv: one that breaks the discipline sets rude, the others
\* keep the reservations.
LEMMA DisciplinedStep ==
  ASSUME DInv, NEW t \in Thread, Step(t)
  PROVE  DInv'
<1>1. Inv'
  BY StepInv DEF DInv
<1> SUFFICES ASSUME ~rude'
             PROVE  Owned' /\ aborted' = FALSE /\ \A u \in Thread : pc'[u] # "dup2ing"
  BY <1>1 DEF DInv
<1>0. /\ Inv /\ Owned /\ aborted = FALSE
      /\ pc \in [Thread -> {"idle", "opening", "closing", "dup2ing"}]
      /\ fdOf \in [Thread -> Fd]
      /\ streams \in [Fd -> Stream \cup {Absent, Null}]
      /\ pc[t] # "dup2ing"
  BY RudeKept DEF DInv, Inv, TypeOK
<1>2. \A u \in Thread : pc[u] # "dup2ing"
  BY RudeKept DEF DInv
<1>a. CASE AddFileStreamLocked(t)
  <2>1. UNCHANGED <<pc, fdOf, aborted>>
    BY <1>a DEF AddFileStreamLocked
  <2>2. \A fd \in Fd : streams'[fd] = Null <=> streams[fd] = Null
    BY <1>0, <1>a, Facts, Entries DEF AddFileStreamLocked, FirstUnused
  <2> QED BY <1>0, <1>2, <2>1, <2>2, ReservationsKept
<1>b. CASE AddPair(t)
  <2>1. UNCHANGED <<pc, fdOf, aborted>>
    BY <1>b DEF AddPair
  <2>2. \A fd \in Fd : streams'[fd] = Null <=> streams[fd] = Null
    <3> PICK fd1 \in FirstUnused, fd2 \in Fd,
             s1, s2 \in {x \in Stream : Fresh(x)} :
           LET rest == Popped(unused, fd1) IN
           /\ rest[fd2] > 0
           /\ \A g \in Fd : rest[g] > 0 => fd2 <= g
           /\ s1 # s2
           /\ streams' = [streams EXCEPT ![fd1] = s1, ![fd2] = s2]
           /\ unused' = Popped(rest, fd2)
           /\ refs' = AddRef(AddRef(refs, s1), s2)
           /\ had' = [had EXCEPT ![s1] = TRUE, ![s2] = TRUE]
      BY <1>b DEF AddPair
    <3>1. fd1 \in Fd /\ unused[fd1] = 1 /\ streams[fd1] = Absent
      BY <1>0, Facts DEF FirstUnused
    <3>2. streams[fd2] = Absent
      BY <1>0, <3>1, Facts DEF Popped
    <3> QED BY <1>0, <3>1, <3>2, Entries
  <2> QED BY <1>0, <1>2, <2>1, <2>2, ReservationsKept
<1>c. CASE Dup(t)
  <2>1. UNCHANGED <<pc, fdOf, aborted>>
    BY <1>c DEF Dup
  <2>2. \A fd \in Fd : streams'[fd] = Null <=> streams[fd] = Null
    BY <1>0, <1>c, Facts, Entries DEF Dup, FirstUnused
  <2> QED BY <1>0, <1>2, <2>1, <2>2, ReservationsKept
<1>d. CASE RegisterFileStream(t)
  <2>1. UNCHANGED <<pc, fdOf, aborted>>
    BY <1>d DEF RegisterFileStream, IsKnownDescriptor
  <2>2. \A fd \in Fd : streams'[fd] = Null <=> streams[fd] = Null
    BY <1>0, <1>d, Entries DEF RegisterFileStream, IsKnownDescriptor
  <2> QED BY <1>0, <1>2, <2>1, <2>2, ReservationsKept
<1>e. CASE Close(t) \/ ReplaceFileStream(t)
  <2>1. aborted' = aborted /\ pc[t] = "idle"
    BY <1>e DEF Close, ReplaceFileStream, At
  <2>2. \A fd \in Fd : streams'[fd] = Null <=> streams[fd] = Null
    BY <1>0, <1>e, Entries DEF Close, ReplaceFileStream
  <2>3. \/ UNCHANGED <<pc, fdOf>>
        \/ pc' = [pc EXCEPT ![t] = "closing"] /\ fdOf' = [fdOf EXCEPT ![t] = MinFd]
    BY <1>e DEF Close, ReplaceFileStream, Suspend
  <2>4. Owned'
    BY <1>0, <2>1, <2>2, <2>3, Entries, ReservationsKept, ReservationsKeptClosing
  <2> QED BY <1>0, <1>2, <2>1, <2>3, <2>4
<1>f. CASE CloseEnd(t)
  <2>1. /\ UNCHANGED <<streams, aborted>> /\ pc[t] = "closing"
        /\ pc' = [pc EXCEPT ![t] = "idle"] /\ fdOf' = [fdOf EXCEPT ![t] = MinFd]
    BY <1>f DEF CloseEnd, At, Return, Suspend
  <2>2. Owned'
    BY <1>0, <2>1, Entries, ReservationsKeptClosing
  <2> QED BY <1>0, <1>2, <2>1, <2>2
<1>g. CASE OpenBegin(t)
  <2>1. aborted' = aborted /\ pc[t] = "idle"
    BY <1>g DEF OpenBegin, At
  <2> PICK fd \in FirstUnused :
         /\ streams' = [streams EXCEPT ![fd] = Null]
         /\ pc' = [pc EXCEPT ![t] = "opening"]
         /\ fdOf' = [fdOf EXCEPT ![t] = fd]
    BY <1>g DEF OpenBegin, Suspend
  <2>2. fd \in Fd /\ streams[fd] = Absent
    BY <1>0, Facts DEF FirstUnused
  <2>3. Owned'
    BY <1>0, <2>1, <2>2, Entries DEF Owned
  <2> QED BY <1>0, <1>2, <2>1, <2>3
<1>h. CASE OpenFail(t) \/ OpenEnd(t)
  <2>1. pc[t] = "opening" /\ streams[fdOf[t]] = Null
    BY <1>0, <1>h DEF OpenFail, OpenEnd, At, Owned
  <2>2. \E y \in Stream \cup {Absent} :
          /\ streams' = [streams EXCEPT ![fdOf[t]] = y]
          /\ \/ Return(t) \/ Suspend(t, "closing", MinFd, Null)
          /\ aborted' = aborted
    BY <1>h, <2>1, Entries DEF OpenFail, OpenEnd
  <2> PICK y \in Stream \cup {Absent}, w \in {"idle", "closing"} :
         /\ streams' = [streams EXCEPT ![fdOf[t]] = y]
         /\ pc' = [pc EXCEPT ![t] = w]
         /\ fdOf' = [fdOf EXCEPT ![t] = MinFd]
         /\ aborted' = aborted
    BY <2>2 DEF Return, Suspend
  <2>3. y # Null /\ w # "opening"
    BY Entries
  <2>4. Owned'
    BY <1>0, <2>1, <2>3, Entries DEF Owned
  <2> QED BY <1>0, <1>2, <2>4
<1>i. CASE Dup2(t)
  <2>1. UNCHANGED <<pc, fdOf, aborted>> /\ \A fd \in Fd : streams'[fd] = Null <=> streams[fd] = Null
    BY <1>0, <1>i, Entries DEF Dup2, Dup2Discipline
  <2> QED BY <1>0, <1>2, <2>1, ReservationsKept
<1>j. ~Dup2End(t)
  BY <1>0 DEF Dup2End, CheckNotClosed, At
<1> QED BY <1>a, <1>b, <1>c, <1>d, <1>e, <1>f, <1>g, <1>h, <1>i, <1>j DEF Step

\* As long as no caller has used dup2 on a descriptor that another open() has
\* reserved, or on the last descriptor of a TCP or UDP socket, no assertion of the
\* table fails and every reserved descriptor belongs to exactly one open() in
\* progress.
THEOREM DisciplinedNoAssertFails ==
  Spec => []Disciplined
<1>1. Init => DInv
  BY InitInv, Entries DEF Init, DInv, Owned
<1>2. DInv /\ [Next]_vars => DInv'
  <2> SUFFICES ASSUME DInv, [Next]_vars PROVE DInv'
    OBVIOUS
  <2>1. CASE Next
    BY <2>1, DisciplinedStep DEF Next
  <2>2. CASE UNCHANGED vars
    BY <2>2 DEF vars, DInv, Inv, TypeOK, RefCountExact, DescriptorsOf, FdPartition,
         FreshHasNoRef, SourceHeld, Owned
  <2> QED BY <2>1, <2>2
<1>3. DInv => Disciplined
  BY DEF DInv, Disciplined
<1> QED BY <1>1, <1>2, <1>3, PTL DEF Spec
=============================================================================

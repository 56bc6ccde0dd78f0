----------------------------- MODULE FenceProofs -----------------------------
(***************************************************************************)
(* Fences are signalled exactly when their timelines have reached their    *)
(* sync points, no waiter is left asleep, no pointer outlives its fence    *)
(* and the locks are taken in their order, for any number of threads,      *)
(* timelines, fences and descriptors.                                      *)
(***************************************************************************)
EXTENDS Fence, FiniteSetTheorems, TLAPS

Waits == {"wait", "waiting", "return"}

\* Who has which lock: a timeline's lock is held over the loop of
\* IncrementCounter, the file system lock over the making, merging and destroying
\* of a fence.
LocksHeld ==
    /\ \A t \in Thread :
         /\ call[t].at \in {"mark", "signal"} =>
              call[t].tl \in Timeline /\ lock[call[t].tl] = t
         /\ call[t].at \in {"create", "attach", "detach"} <=> vfs = t
    /\ ~full => \A tl \in Timeline : lock[tl] # Null =>
                  call[lock[tl]].at \in {"mark", "signal"} /\ call[lock[tl]].tl = tl

\* What a thread refers to in each of its steps.
CallsSound == \A t \in Thread :
    /\ call[t].at \in {"signal", "attach", "detach"} \cup Waits => call[t].fence \in Fence
    /\ call[t].at = "create" => call[t].tl \in Timeline
    /\ call[t].todo # {} => call[t].at \in {"mark", "signal"}
    /\ call[t].asleep => call[t].at = "waiting"

\* The points of a fence, their attachments and their timestamps.
PointsSigned == \A f \in Fence :
    /\ attached[f] \subseteq DOMAIN points[f]
    /\ signaled[f] \subseteq DOMAIN points[f]
    /\ attached[f] # {} => Alive(f)
    /\ \A tl \in signaled[f] : points[f][tl] <= counter[tl]
    /\ status[f] = "SIGNALED" => AllSignaled(f, signaled[f])

\* A fence that has a descriptor or a waiting thread exists, with all its points
\* attached; one that is being made or destroyed has neither.
Published(f) == Alive(f) /\ attached[f] = DOMAIN points[f]
ReferencesSound ==
    /\ \A f \in Fence : fds[f] > 0 => Published(f)
    /\ \A t \in Thread :
         /\ call[t].at \in Waits => Published(call[t].fence)
         /\ call[t].at \in {"attach", "detach"} =>
              /\ Alive(call[t].fence) /\ fds[call[t].fence] = 0
              /\ \A u \in Thread : call[u].at \in Waits => call[u].fence # call[t].fence

\* The points that the loop of IncrementCounter has yet to mark are attached, due
\* and without a timestamp.
LoopSound == \A t \in Thread :
    /\ \A f \in call[t].todo :
         /\ call[t].tl \in attached[f] /\ call[t].tl \notin signaled[f]
         /\ points[f][call[t].tl] <= counter[call[t].tl]
    /\ call[t].at = "signal" => call[t].tl \in attached[call[t].fence]

\* An attached point that is due has its timestamp, or somebody is about to mark it.
DueMarked == \A f \in Fence, tl \in Timeline :
    tl \in attached[f] /\ points[f][tl] <= counter[tl] =>
      \/ tl \in signaled[f]
      \/ \E t \in Thread : call[t].tl = tl /\ f \in call[t].todo

\* A fence all of whose points have timestamps is signalled, or somebody is about
\* to look.
Looking(f) == \E t \in Thread : call[t].at \in {"signal", "attach"} /\ call[t].fence = f
MarkedSignaled == \A f \in Fence :
    Alive(f) /\ AllSignaled(f, signaled[f]) => status[f] = "SIGNALED" \/ Looking(f)

\* The points of a merged fence are not before those of its parents.
ParentsBefore == \A f \in Fence : \A p \in parents[f] :
    /\ status[f] # "NONE" /\ status[p] # "NONE"
    /\ \A tl \in DOMAIN points[p] :
         tl \in DOMAIN points[f] /\ points[p][tl] <= points[f][tl]

\* The inductive invariant.
Inv ==
    /\ TypeOK /\ LocksHeld /\ CallsSound /\ PointsSigned /\ ReferencesSound /\ LoopSound
    /\ DueMarked /\ MarkedSignaled /\ ParentsBefore /\ NoLostWakeup /\ NoAssertFails

-----------------------------------------------------------------------------
(* Types and calls *)

Call == [at : {"idle", "create", "mark", "signal", "attach", "detach", "wait",
               "waiting", "return"},
         fence : Fence \cup {Null}, tl : Timeline \cup {Null},
         todo : SUBSET Fence, asleep : BOOLEAN]
PointMap == UNION {[tls -> Times] : tls \in SUBSET Timeline}

\* A thread does what c says, but may have been woken.
Alike(c, d) ==
    /\ c.at = d.at /\ c.fence = d.fence /\ c.tl = d.tl /\ c.todo = d.todo
    /\ c.asleep => d.asleep

\* Thread t goes on with c; the others do what they did, some of them woken.
Moves(t, c) ==
    /\ call' \in [Thread -> Call]
    /\ Alike(call'[t], c)
    /\ \A u \in Thread : u # t => Alike(call'[u], call[u])

LEMMA Types ==
  ASSUME TypeOK
  PROVE  /\ call \in [Thread -> Call]
         /\ points \in [Fence -> PointMap]
         /\ \A tl \in Timeline : counter[tl] \in Nat
         /\ \A f \in Fence : /\ DOMAIN points[f] \subseteq Timeline
                             /\ \A tl \in DOMAIN points[f] : points[f][tl] \in Nat
<1>1. call \in [Thread -> Call] /\ points \in [Fence -> PointMap]
  BY DEF TypeOK, Call, PointMap
<1>2. \A tl \in Timeline : counter[tl] \in Nat
  BY DEF TypeOK, Times
<1>3. ASSUME NEW f \in Fence
      PROVE  /\ DOMAIN points[f] \subseteq Timeline
             /\ \A tl \in DOMAIN points[f] : points[f][tl] \in Nat
  <2>1. PICK tls \in SUBSET Timeline : points[f] \in [tls -> Times]
    BY <1>1 DEF PointMap
  <2> QED BY <2>1 DEF Times
<1> QED BY <1>1, <1>2, <1>3

LEMMA PointMapFacts ==
  ASSUME NEW tls \in SUBSET Timeline, NEW p \in [tls -> Times]
  PROVE  p \in PointMap
BY DEF PointMap

LEMMA GoesMoves ==
  ASSUME TypeOK, NEW t \in Thread, NEW c \in Call, call' = [call EXCEPT ![t] = c]
  PROVE  Moves(t, c)
BY Types DEF Moves, Alike

\* MaybeSignal decides the state of the fence; if it is signalled all its waiters
\* are awake.
LEMMA MaybeSignalFacts ==
  ASSUME TypeOK, NEW t \in Thread, NEW c \in Call, NEW f \in Fence, NEW marked,
         MaybeSignal(f, marked, [call EXCEPT ![t] = c])
  PROVE  /\ Moves(t, c)
         /\ status' = [status EXCEPT ![f] = IF AllSignaled(f, marked) THEN "SIGNALED" ELSE @]
         /\ AllSignaled(f, marked) =>
              \A u \in Thread : call'[u].fence = f => ~call'[u].asleep
<1> DEFINE calls == [call EXCEPT ![t] = c]
<1>1. /\ calls \in [Thread -> Call] /\ calls[t] = c
      /\ \A u \in Thread : u # t => calls[u] = call[u]
  BY Types
<1>2. /\ status' = [status EXCEPT ![f] = IF AllSignaled(f, marked) THEN "SIGNALED" ELSE @]
      /\ call' = [u \in Thread |-> IF AllSignaled(f, marked) /\ calls[u].fence = f
                                     THEN Awake(calls[u]) ELSE calls[u]]
  BY DEF MaybeSignal
<1> HIDE DEF calls
<1>3. \A u \in Thread : Awake(calls[u]) \in Call /\ Alike(Awake(calls[u]), calls[u])
                        /\ ~Awake(calls[u]).asleep
  BY <1>1 DEF Awake, Doing, Call, Alike
<1>4. \A u \in Thread : Alike(calls[u], calls[u])
  BY DEF Alike
<1>5. \A u \in Thread : call'[u] \in Call /\ Alike(call'[u], calls[u])
  BY <1>1, <1>2, <1>3, <1>4
<1>6. call' \in [Thread -> Call]
  BY <1>2, <1>5
<1>7. Moves(t, c)
  BY <1>1, <1>5, <1>6 DEF Moves
<1>8. AllSignaled(f, marked) => \A u \in Thread : call'[u].fence = f => ~call'[u].asleep
  BY <1>2, <1>3, <1>5 DEF Alike
<1> QED BY <1>2, <1>7, <1>8

\* Descriptors in use are counted: there is room for another one of f.
LEMMA FdRoom ==
  ASSUME TypeOK, HasFd, NEW f \in Fence
  PROVE  fds[f] + 1 \in 0 .. MaxFds
<1>1. fds[f] \in Nat /\ fds[f] <= MaxFds /\ MaxFds \in Nat /\ fds \in [Fence -> 0 .. MaxFds]
  BY ConstantsAssumption DEF TypeOK
<1>2. IsFiniteSet(InUse)
  <2>1. IsFiniteSet(Fence) /\ IsFiniteSet(1 .. MaxFds)
    BY ConstantsAssumption, FS_Interval DEF Fence
  <2>2. IsFiniteSet(Fence \X (1 .. MaxFds))
    BY <2>1, FS_Product
  <2>3. InUse \in SUBSET (Fence \X (1 .. MaxFds))
    BY DEF InUse
  <2> QED BY <2>2, <2>3, FS_Subset
<1>3. [i \in 1 .. fds[f] |-> <<f, i>>] \in Injection(1 .. fds[f], InUse)
  <2>1. \A i \in 1 .. fds[f] : <<f, i>> \in InUse
    BY <1>1 DEF InUse
  <2> DEFINE g == [i \in 1 .. fds[f] |-> <<f, i>>]
  <2>2. g \in [1 .. fds[f] -> InUse]
    BY <2>1
  <2>3. \A i, j \in 1 .. fds[f] : g[i] = g[j] => i = j
    OBVIOUS
  <2> HIDE DEF g
  <2>4. g \in Injection(1 .. fds[f], InUse)
    BY <2>2, <2>3 DEF Injection, IsInjective
  <2> QED BY <2>4 DEF g
<1>4. Cardinality(1 .. fds[f]) <= Cardinality(InUse)
  BY <1>2, <1>3, FS_Injection
<1>5. Cardinality(1 .. fds[f]) = fds[f]
  BY <1>1, FS_Interval
<1>6. Cardinality(InUse) \in Nat
  BY <1>2, FS_CardinalityType
<1> QED BY <1>1, <1>4, <1>5, <1>6 DEF HasFd

-----------------------------------------------------------------------------
(* Steps *)

\* A step that only moves a thread, and perhaps the file system lock with it.
LEMMA CallOnlyInv ==
  ASSUME Inv, NEW t \in Thread, NEW c \in Call, Moves(t, c),
         UNCHANGED <<counter, fence, lock, parents, full, aborted>>,
         call[t].at \in {"idle"} \cup Waits, c.todo = {},
         c.at \in {"idle", "create", "detach"} \cup Waits,
         vfs' \in Thread \cup {Null},
         \A u \in Thread : vfs' = u <=> IF u = t THEN c.at \in {"create", "detach"} ELSE vfs = u,
         c.at \in {"detach"} \cup Waits => c.fence \in Fence,
         c.at = "create" => c.tl \in Timeline,
         c.asleep => c.at = "waiting" /\ status[c.fence] = "ACTIVE",
         c.at \in Waits =>
           /\ Published(c.fence)
           /\ \A u \in Thread : call[u].at \in {"attach", "detach"} => call[u].fence # c.fence,
         c.at = "detach" =>
           /\ Alive(c.fence) /\ fds[c.fence] = 0
           /\ \A u \in Thread : u # t /\ call[u].at \in Waits => call[u].fence # c.fence
  PROVE  Inv'
<1>0. /\ TypeOK /\ LocksHeld /\ CallsSound /\ PointsSigned /\ ReferencesSound /\ LoopSound
      /\ DueMarked /\ MarkedSignaled /\ ParentsBefore /\ NoLostWakeup /\ NoAssertFails
  BY DEF Inv
<1>1. UNCHANGED <<counter, points, signaled, attached, status, fds, lock, parents, full, aborted>>
  BY DEF fence
<1>2. /\ call' \in [Thread -> Call] /\ Alike(call'[t], c)
      /\ \A u \in Thread : u # t => Alike(call'[u], call[u])
  BY DEF Moves
<1>3. TypeOK'
  BY <1>0, <1>1, <1>2 DEF TypeOK, Call
<1>4. LocksHeld'
  <2>1. \A u \in Thread : call'[u].at \in {"mark", "signal"} =>
          call'[u].tl \in Timeline /\ lock'[call'[u].tl] = u
    BY <1>0, <1>1, <1>2 DEF LocksHeld, Alike, Waits
  <2>2. \A u \in Thread : call'[u].at \in {"create", "attach", "detach"} <=> vfs' = u
    BY <1>0, <1>2 DEF LocksHeld, Alike, Waits
  <2>3. ASSUME ~full, NEW tl \in Timeline, lock[tl] # Null
        PROVE  call'[lock[tl]].at \in {"mark", "signal"} /\ call'[lock[tl]].tl = tl
    <3>1. lock[tl] \in Thread
      BY <1>0, <2>3 DEF TypeOK
    <3>2. call[lock[tl]].at \in {"mark", "signal"} /\ call[lock[tl]].tl = tl
      BY <1>0, <2>3 DEF LocksHeld
    <3> QED BY <1>2, <3>1, <3>2 DEF Alike, Waits
  <2> QED BY <1>1, <2>1, <2>2, <2>3 DEF LocksHeld
<1>5. CallsSound'
  BY <1>0, <1>2 DEF CallsSound, Alike, Waits
<1>6. PointsSigned' /\ ParentsBefore' /\ NoAssertFails'
  BY <1>0, <1>1 DEF PointsSigned, ParentsBefore, NoAssertFails, Alive, AllSignaled
<1>7. ReferencesSound'
  BY <1>0, <1>1, <1>2 DEF ReferencesSound, Published, Alive, Alike, Waits
<1>8. LoopSound'
  BY <1>0, <1>1, <1>2 DEF LoopSound, Alike, Waits
<1>9. DueMarked'
  BY <1>0, <1>1, <1>2 DEF DueMarked, CallsSound, Alike, Waits
<1>10. MarkedSignaled'
  BY <1>0, <1>1, <1>2 DEF MarkedSignaled, Looking, Alive, AllSignaled, Alike, Waits
<1>11. NoLostWakeup'
  BY <1>0, <1>1, <1>2 DEF NoLostWakeup, Alike
<1> QED BY <1>3, <1>4, <1>5, <1>6, <1>7, <1>8, <1>9, <1>10, <1>11 DEF Inv

LEMMA InitInv == Init => Inv
<1> SUFFICES ASSUME Init PROVE Inv
  OBVIOUS
<1>1. /\ counter = [tl \in Timeline |-> 0] /\ points = [f \in Fence |-> << >>]
      /\ signaled = [f \in Fence |-> {}] /\ attached = [f \in Fence |-> {}]
      /\ status = [f \in Fence |-> "NONE"] /\ fds = [f \in Fence |-> 0]
      /\ vfs = Null /\ lock = [tl \in Timeline |-> Null]
      /\ call = [t \in Thread |-> Idle]
      /\ parents = [f \in Fence |-> {}] /\ full = FALSE /\ aborted = FALSE
  BY DEF Init
<1>2. Idle \in Call /\ Idle.at = "idle" /\ Idle.todo = {} /\ ~Idle.asleep
  BY DEF Idle, Call
<1>3. TypeOK
  <2>1. points \in [Fence -> PointMap]
    <3>1. << >> \in [{} -> Times]
      OBVIOUS
    <3>2. << >> \in PointMap
      BY <3>1, PointMapFacts
    <3> QED BY <1>1, <3>2
  <2>2. call \in [Thread -> Call]
    BY <1>1, <1>2
  <2>3. counter \in [Timeline -> Times] /\ fds \in [Fence -> 0 .. MaxFds]
    BY <1>1, ConstantsAssumption DEF Times
  <2> QED BY <1>1, <2>1, <2>2, <2>3 DEF TypeOK, Call, PointMap
<1>4. LocksHeld
  BY <1>1, <1>2, ConstantsAssumption DEF LocksHeld
<1>5. CallsSound /\ NoLostWakeup /\ NoAssertFails
  BY <1>1, <1>2 DEF CallsSound, NoLostWakeup, NoAssertFails, Waits
<1>6. PointsSigned /\ ParentsBefore
  BY <1>1 DEF PointsSigned, ParentsBefore
<1>7. ReferencesSound /\ LoopSound
  BY <1>1, <1>2 DEF ReferencesSound, LoopSound, Waits
<1>8. DueMarked /\ MarkedSignaled
  BY <1>1 DEF DueMarked, MarkedSignaled, Alive
<1> QED BY <1>3, <1>4, <1>5, <1>6, <1>7, <1>8 DEF Inv

\* CreateFence takes the file system lock.
LEMMA CreateBeginInv ==
  ASSUME Inv, NEW t \in Thread, CreateBegin(t)
  PROVE  Inv'
<1>1. PICK tl \in Timeline : call' = [call EXCEPT ![t] = Doing("create", Null, tl, {})]
  BY DEF CreateBegin
<1>2. /\ call[t].at = "idle" /\ vfs = Null /\ vfs' = t
      /\ UNCHANGED <<counter, fence, lock, parents, full, aborted>>
  BY DEF CreateBegin, At
<1> DEFINE c == Doing("create", Null, tl, {})
<1>3. c \in Call /\ c.at = "create" /\ c.tl = tl /\ c.todo = {} /\ ~c.asleep
  BY DEF Doing, Call
<1> HIDE DEF c
<1>4. Moves(t, c)
  BY <1>1, <1>3, GoesMoves DEF Inv, c
<1>5. \A u \in Thread : vfs' = u <=> IF u = t THEN c.at \in {"create", "detach"} ELSE vfs = u
  BY <1>2, <1>3, ConstantsAssumption
<1> QED BY <1>2, <1>3, <1>4, <1>5, CallOnlyInv DEF Waits

\* SYNC_IOC_WAIT finds a fence through a descriptor ...
LEMMA WaitBeginInv ==
  ASSUME Inv, NEW t \in Thread, WaitBegin(t)
  PROVE  Inv'
<1>1. PICK f \in Fence : fds[f] > 0 /\ call' = [call EXCEPT ![t] = Doing("wait", f, Null, {})]
  BY DEF WaitBegin
<1>2. /\ call[t].at = "idle"
      /\ UNCHANGED <<counter, fence, vfs, lock, parents, full, aborted>>
  BY DEF WaitBegin, At
<1> DEFINE c == Doing("wait", f, Null, {})
<1>3. c \in Call /\ c.at = "wait" /\ c.fence = f /\ c.todo = {} /\ ~c.asleep
  BY DEF Doing, Call
<1> HIDE DEF c
<1>4. Moves(t, c)
  BY <1>1, <1>3, GoesMoves DEF Inv, c
<1>5. /\ vfs' \in Thread \cup {Null}
      /\ \A u \in Thread : vfs' = u <=> IF u = t THEN c.at \in {"create", "detach"} ELSE vfs = u
  BY <1>2, <1>3 DEF Inv, TypeOK, LocksHeld
<1>6. /\ Published(f)
      /\ \A u \in Thread : call[u].at \in {"attach", "detach"} => call[u].fence # f
  BY <1>1, Types DEF Inv, ReferencesSound, TypeOK
<1> QED BY <1>2, <1>3, <1>4, <1>5, <1>6, CallOnlyInv DEF Waits

\* ... holds on to it while it waits ...
LEMMA WaitOnInv ==
  ASSUME Inv, NEW t \in Thread, NEW c \in Call, call' = [call EXCEPT ![t] = c],
         call[t].at \in Waits, c.at \in Waits, c.fence = call[t].fence, c.todo = {},
         c.asleep => c.at = "waiting" /\ status[c.fence] # "SIGNALED",
         UNCHANGED <<counter, fence, vfs, lock, parents, full, aborted>>
  PROVE  Inv'
<1>1. Moves(t, c)
  BY GoesMoves DEF Inv
<1>2. /\ vfs' \in Thread \cup {Null}
      /\ \A u \in Thread : vfs' = u <=> IF u = t THEN c.at \in {"create", "detach"} ELSE vfs = u
  BY DEF Inv, TypeOK, LocksHeld, Waits
<1>3. /\ c.fence \in Fence /\ Published(c.fence)
      /\ \A u \in Thread : call[u].at \in {"attach", "detach"} => call[u].fence # c.fence
  BY DEF Inv, ReferencesSound, CallsSound
<1>4. c.asleep => c.at = "waiting" /\ status[c.fence] = "ACTIVE"
  BY <1>3 DEF Published, Alive
<1> QED BY <1>1, <1>2, <1>3, <1>4, CallOnlyInv DEF Waits

LEMMA WaitRoundInv ==
  ASSUME Inv, NEW t \in Thread, WaitRound(t)
  PROVE  Inv'
<1>0. TypeOK /\ call[t].fence \in Fence
  BY DEF Inv, CallsSound, WaitRound, Waits
<1>1. /\ call[t].at \in {"wait", "waiting"}
      /\ UNCHANGED <<counter, fence, vfs, lock, parents, full, aborted>>
  BY DEF WaitRound
<1> DEFINE f == call[t].fence
           c == IF status[f] = "SIGNALED" THEN Doing("return", f, Null, {}) ELSE Waiting(f)
<1>2. call' = [call EXCEPT ![t] = c]
  BY DEF WaitRound
<1>3. /\ c \in Call /\ c.at \in Waits /\ c.fence = f /\ c.todo = {}
      /\ c.asleep => c.at = "waiting" /\ status[f] # "SIGNALED"
  BY <1>0 DEF Doing, Waiting, Call, Waits
<1> HIDE DEF c
<1> QED BY <1>1, <1>2, <1>3, WaitOnInv DEF Waits

LEMMA WaitTimeoutInv ==
  ASSUME Inv, NEW t \in Thread, WaitTimeout(t)
  PROVE  Inv'
<1>0. TypeOK /\ call[t].fence \in Fence
  BY DEF Inv, CallsSound, WaitTimeout, Waits, At
<1>1. /\ call[t].at = "waiting"
      /\ UNCHANGED <<counter, fence, vfs, lock, parents, full, aborted>>
  BY DEF WaitTimeout, At
<1> DEFINE c == Doing("return", call[t].fence, Null, {})
<1>2. call' = [call EXCEPT ![t] = c]
  BY DEF WaitTimeout
<1>3. c \in Call /\ c.at = "return" /\ c.fence = call[t].fence /\ c.todo = {} /\ ~c.asleep
  BY <1>0 DEF Doing, Call
<1> HIDE DEF c
<1> QED BY <1>1, <1>2, <1>3, WaitOnInv DEF Waits

\* ... and destroys it when it was the last to refer to it.
LEMMA WaitReturnInv ==
  ASSUME Inv, NEW t \in Thread, WaitReturn(t)
  PROVE  Inv'
<1>0. /\ TypeOK /\ call[t].at = "return" /\ vfs = Null
      /\ call[t].fence \in Fence /\ Published(call[t].fence)
  BY DEF Inv, CallsSound, ReferencesSound, WaitReturn, Waits, At
<1>1. UNCHANGED <<counter, fence, lock, parents, full, aborted>>
  BY DEF WaitReturn
<1> DEFINE f == call[t].fence
<1>2. CASE LastReference(f, fds[f], t)
  <2> DEFINE c == Doing("detach", f, Null, {})
  <2>1. call' = [call EXCEPT ![t] = c] /\ vfs' = t
    BY <1>2 DEF WaitReturn
  <2>2. c \in Call /\ c.at = "detach" /\ c.fence = f /\ c.todo = {} /\ ~c.asleep
    BY <1>0 DEF Doing, Call
  <2> HIDE DEF c
  <2>3. Moves(t, c)
    BY <1>0, <2>1, <2>2, GoesMoves
  <2>4. \A u \in Thread : vfs' = u <=> IF u = t THEN c.at \in {"create", "detach"} ELSE vfs = u
    BY <1>0, <2>1, <2>2, ConstantsAssumption
  <2>5. /\ Alive(f) /\ fds[f] = 0
        /\ \A u \in Thread : u # t /\ call[u].at \in Waits => call[u].fence # f
    BY <1>0, <1>2 DEF LastReference, Holders, Published, Waits
  <2> QED BY <1>0, <1>1, <2>1, <2>2, <2>3, <2>4, <2>5, CallOnlyInv DEF Waits
<1>3. CASE ~LastReference(f, fds[f], t)
  <2>1. call' = [call EXCEPT ![t] = Idle] /\ UNCHANGED vfs
    BY <1>3 DEF WaitReturn
  <2>2. Idle \in Call /\ Idle.at = "idle" /\ Idle.todo = {} /\ ~Idle.asleep
    BY DEF Idle, Call
  <2>3. Moves(t, Idle)
    BY <1>0, <2>1, <2>2, GoesMoves
  <2>4. /\ vfs' \in Thread \cup {Null}
        /\ \A u \in Thread : vfs' = u <=> IF u = t THEN Idle.at \in {"create", "detach"} ELSE vfs = u
    BY <1>0, <2>1, <2>2, ConstantsAssumption
  <2> QED BY <1>0, <1>1, <2>2, <2>3, <2>4, CallOnlyInv DEF Waits
<1> QED BY <1>2, <1>3

\* close drops a descriptor and, with the last reference, destroys the fence.
LEMMA CloseInv ==
  ASSUME Inv, NEW t \in Thread, Close(t)
  PROVE  Inv'
<1>0. /\ TypeOK /\ LocksHeld /\ CallsSound /\ PointsSigned /\ ReferencesSound /\ LoopSound
      /\ DueMarked /\ MarkedSignaled /\ ParentsBefore /\ NoLostWakeup /\ NoAssertFails
  BY DEF Inv
<1>1. PICK f \in Fence :
        /\ fds[f] > 0 /\ fds' = [fds EXCEPT ![f] = @ - 1]
        /\ IF LastReference(f, fds[f] - 1, t)
             THEN call' = [call EXCEPT ![t] = Doing("detach", f, Null, {})] /\ vfs' = t
             ELSE UNCHANGED <<call, vfs>>
  BY DEF Close
<1>2. /\ call[t].at = "idle" /\ vfs = Null
      /\ UNCHANGED <<counter, points, signaled, attached, status, lock, parents, full, aborted>>
  BY DEF Close, At
<1>3. /\ fds' \in [Fence -> 0 .. MaxFds] /\ fds'[f] = fds[f] - 1
      /\ \A g \in Fence : g # f => fds'[g] = fds[g]
      /\ \A g \in Fence : fds'[g] > 0 => fds[g] > 0
  BY <1>0, <1>1, ConstantsAssumption DEF TypeOK
<1>4. Published(f) /\ \A u \in Thread : call[u].at \notin {"create", "attach", "detach"}
  BY <1>0, <1>1, <1>2, ConstantsAssumption DEF ReferencesSound, LocksHeld
<1>5. PointsSigned' /\ ParentsBefore' /\ NoAssertFails'
  BY <1>0, <1>2 DEF PointsSigned, ParentsBefore, NoAssertFails, Alive, AllSignaled
<1>6. CASE LastReference(f, fds[f] - 1, t)
  <2> DEFINE c == Doing("detach", f, Null, {})
  <2>1. c \in Call /\ c.at = "detach" /\ c.fence = f /\ c.todo = {} /\ ~c.asleep
    BY DEF Doing, Call
  <2>2. call' = [call EXCEPT ![t] = c] /\ vfs' = t
    BY <1>1, <1>6
  <2> HIDE DEF c
  <2>3. /\ call' \in [Thread -> Call] /\ Alike(call'[t], c)
        /\ \A u \in Thread : u # t => Alike(call'[u], call[u])
    BY <1>0, <2>1, <2>2, GoesMoves DEF Moves
  <2>4. fds'[f] = 0 /\ \A u \in Thread : call[u].at \in Waits => call[u].fence # f
    BY <1>2, <1>3, <1>6 DEF LastReference, Holders, Waits
  <2>5. TypeOK'
    BY <1>0, <1>2, <1>3, <2>2, <2>3 DEF TypeOK, Call
  <2>6. LocksHeld'
    <3>1. \A u \in Thread : call'[u].at \in {"mark", "signal"} =>
            call'[u].tl \in Timeline /\ lock'[call'[u].tl] = u
      BY <1>0, <1>2, <2>1, <2>3 DEF LocksHeld, Alike
    <3>2. \A u \in Thread : call'[u].at \in {"create", "attach", "detach"} <=> vfs' = u
      BY <1>4, <2>1, <2>2, <2>3 DEF Alike
    <3>3. ASSUME ~full, NEW tl \in Timeline, lock[tl] # Null
          PROVE  call'[lock[tl]].at \in {"mark", "signal"} /\ call'[lock[tl]].tl = tl
      <4>1. lock[tl] \in Thread /\ call[lock[tl]].at \in {"mark", "signal"}
            /\ call[lock[tl]].tl = tl
        BY <1>0, <3>3 DEF TypeOK, LocksHeld
      <4> QED BY <1>2, <2>3, <4>1 DEF Alike
    <3> QED BY <1>2, <3>1, <3>2, <3>3 DEF LocksHeld
  <2>7. CallsSound'
    BY <1>0, <2>1, <2>3 DEF CallsSound, Alike, Waits
  <2>8. ReferencesSound'
    BY <1>0, <1>2, <1>3, <1>4, <2>1, <2>3, <2>4
       DEF ReferencesSound, Published, Alive, Alike, Waits
  <2>9. LoopSound' /\ DueMarked'
    BY <1>0, <1>2, <2>1, <2>3 DEF LoopSound, DueMarked, CallsSound, Alike
  <2>10. MarkedSignaled'
    BY <1>0, <1>2, <2>1, <2>3 DEF MarkedSignaled, Looking, Alive, AllSignaled, Alike
  <2>11. NoLostWakeup'
    BY <1>0, <1>2, <2>1, <2>3 DEF NoLostWakeup, Alike
  <2> QED BY <1>5, <2>5, <2>6, <2>7, <2>8, <2>9, <2>10, <2>11 DEF Inv
<1>7. CASE ~LastReference(f, fds[f] - 1, t)
  <2>1. UNCHANGED <<call, vfs>>
    BY <1>1, <1>7
  <2>2. TypeOK'
    BY <1>0, <1>2, <1>3, <2>1 DEF TypeOK
  <2>3. LocksHeld' /\ CallsSound' /\ LoopSound' /\ DueMarked'
    BY <1>0, <1>2, <2>1 DEF LocksHeld, CallsSound, LoopSound, DueMarked
  <2>4. MarkedSignaled' /\ NoLostWakeup'
    BY <1>0, <1>2, <2>1 DEF MarkedSignaled, NoLostWakeup, Looking, Alive, AllSignaled
  <2>5. ReferencesSound'
    BY <1>0, <1>2, <1>3, <1>4, <2>1 DEF ReferencesSound, Published, Alive
  <2> QED BY <1>5, <2>2, <2>3, <2>4, <2>5 DEF Inv
<1> QED BY <1>6, <1>7

\* Nothing refers to an object before it is made.
LEMMA NewFacts ==
  ASSUME Inv, NEW f \in New
  PROVE  /\ f \in Fence /\ status[f] = "NONE" /\ fds[f] = 0 /\ attached[f] = {}
         /\ parents[f] = {} /\ \A g \in Fence : f \notin parents[g]
         /\ \A t \in Thread :
              /\ f \notin call[t].todo
              /\ call[t].at \in {"signal", "attach", "detach"} \cup Waits => call[t].fence # f
<1>0. /\ TypeOK /\ PointsSigned /\ ReferencesSound /\ LoopSound /\ ParentsBefore /\ CallsSound
  BY DEF Inv
<1>1. f \in Fence /\ status[f] = "NONE"
  BY ConstantsAssumption DEF New, Fence
<1>2. attached[f] = {} /\ ~Published(f)
  BY <1>0, <1>1 DEF PointsSigned, Published, Alive
<1>3. fds[f] = 0
  BY <1>0, <1>1, <1>2, ConstantsAssumption DEF ReferencesSound, TypeOK
<1>4. parents[f] = {} /\ \A g \in Fence : f \notin parents[g]
  BY <1>0, <1>1 DEF ParentsBefore
<1>5. \A t \in Thread : f \notin call[t].todo
  BY <1>0, <1>1, <1>2 DEF LoopSound
<1>6. \A t \in Thread :
        call[t].at \in {"signal", "attach", "detach"} \cup Waits => call[t].fence # f
  BY <1>0, <1>1, <1>2 DEF LoopSound, ReferencesSound, Alive
<1> QED BY <1>1, <1>2, <1>3, <1>4, <1>5, <1>6

\* CreateFence makes a fence with one point, which is signalled if it is due.
LEMMA CreateEndInv ==
  ASSUME Inv, NEW t \in Thread, CreateEnd(t)
  PROVE  Inv'
<1>0. /\ TypeOK /\ LocksHeld /\ CallsSound /\ PointsSigned /\ ReferencesSound /\ LoopSound
      /\ DueMarked /\ MarkedSignaled /\ ParentsBefore /\ NoLostWakeup /\ NoAssertFails
  BY DEF Inv
<1> DEFINE tl == call[t].tl
<1>1. /\ call[t].at = "create" /\ tl \in Timeline /\ lock[tl] = Null
      /\ UNCHANGED <<counter, parents, aborted>>
  BY <1>0 DEF CreateEnd, At, CallsSound
<1>2. PICK f \in New, time \in Times :
        /\ points' = [points EXCEPT ![f] = [x \in {tl} |-> time]]
        /\ attached' = [attached EXCEPT ![f] = {tl}]
        /\ signaled' = [signaled EXCEPT ![f] = IF time <= counter[tl] THEN {tl} ELSE {}]
        /\ status' = [status EXCEPT ![f] = IF time <= counter[tl] THEN "SIGNALED" ELSE "ACTIVE"]
        /\ IF HasFd
             THEN /\ fds' = [fds EXCEPT ![f] = 1] /\ vfs' = Null
                  /\ call' = [call EXCEPT ![t] = Idle] /\ UNCHANGED <<lock, full>>
             ELSE /\ call' = [call EXCEPT ![t] = Doing("detach", f, Null, {})]
                  /\ lock' = [lock EXCEPT ![tl] = t] /\ full' = TRUE
                  /\ UNCHANGED <<fds, vfs>>
  BY DEF CreateEnd
<1>3. /\ f \in Fence /\ status[f] = "NONE" /\ fds[f] = 0 /\ attached[f] = {}
      /\ parents[f] = {} /\ \A g \in Fence : f \notin parents[g]
      /\ \A u \in Thread :
           /\ f \notin call[u].todo
           /\ call[u].at \in {"signal", "attach", "detach"} \cup Waits => call[u].fence # f
  BY NewFacts
<1> HIDE DEF tl
<1> DEFINE c == IF HasFd THEN Idle ELSE Doing("detach", f, Null, {})
<1>4. /\ c \in Call /\ c.todo = {} /\ ~c.asleep
      /\ c.at = IF HasFd THEN "idle" ELSE "detach"
      /\ c.at = "detach" => c.fence = f
      /\ call' = [call EXCEPT ![t] = c]
  BY <1>2, <1>3 DEF Idle, Doing, Call
<1> HIDE DEF c
<1>5. /\ call' \in [Thread -> Call] /\ Alike(call'[t], c)
      /\ \A u \in Thread : u # t => Alike(call'[u], call[u])
  BY <1>0, <1>4, GoesMoves DEF Moves
<1>6. /\ \A g \in Fence : g # f => /\ points'[g] = points[g] /\ attached'[g] = attached[g]
                                 /\ signaled'[g] = signaled[g] /\ status'[g] = status[g]
      /\ DOMAIN points'[f] = {tl} /\ points'[f][tl] = time
      /\ attached'[f] = {tl}
      /\ signaled'[f] = IF time <= counter[tl] THEN {tl} ELSE {}
      /\ status'[f] = IF time <= counter[tl] THEN "SIGNALED" ELSE "ACTIVE"
  BY <1>0, <1>2, <1>3, Types DEF TypeOK
<1>7. vfs = t /\ \A u \in Thread : u # t => call[u].at \notin {"create", "attach", "detach"}
  BY <1>0, <1>1 DEF LocksHeld
<1>8. /\ fds' \in [Fence -> 0 .. MaxFds]
      /\ \A g \in Fence : g # f => fds'[g] = fds[g]
      /\ fds'[f] = IF HasFd THEN 1 ELSE 0
  <2>1. CASE HasFd
    <3>1. 1 \in 0 .. MaxFds
      BY <1>0, <1>3, <2>1, FdRoom
    <3> QED BY <1>0, <1>2, <1>3, <2>1, <3>1 DEF TypeOK
  <2>2. CASE ~HasFd
    BY <1>0, <1>2, <1>3, <2>2 DEF TypeOK
  <2> QED BY <2>1, <2>2
<1>9. TypeOK'
  <2>1. points' \in [Fence -> PointMap]
    <3>1. [x \in {tl} |-> time] \in [{tl} -> Times] /\ {tl} \in SUBSET Timeline
      BY <1>1
    <3>2. [x \in {tl} |-> time] \in PointMap
      BY <3>1, PointMapFacts
    <3> QED BY <1>0, <1>2, <1>3, <3>2, Types
  <2>2. /\ attached' \in [Fence -> SUBSET Timeline] /\ signaled' \in [Fence -> SUBSET Timeline]
        /\ status' \in [Fence -> {"NONE", "ACTIVE", "SIGNALED", "FREED"}]
    BY <1>0, <1>1, <1>2, <1>3 DEF TypeOK
  <2>3. /\ vfs' \in Thread \cup {Null} /\ lock' \in [Timeline -> Thread \cup {Null}]
        /\ full' \in BOOLEAN
    BY <1>0, <1>1, <1>2 DEF TypeOK
  <2> QED BY <1>0, <1>1, <1>5, <1>8, <2>1, <2>2, <2>3 DEF TypeOK, Call, PointMap
<1>10. LocksHeld'
  <2>1. ASSUME NEW u \in Thread, call'[u].at \in {"mark", "signal"}
        PROVE  call'[u].tl \in Timeline /\ lock'[call'[u].tl] = u
    <3>1. u # t /\ call[u].at \in {"mark", "signal"} /\ call'[u].tl = call[u].tl
      BY <1>4, <1>5, <2>1 DEF Alike
    <3>2. call[u].tl \in Timeline /\ lock[call[u].tl] = u
      BY <1>0, <3>1 DEF LocksHeld
    <3>3. call[u].tl # tl
      BY <1>1, <3>2, ConstantsAssumption
    <3> QED BY <1>0, <1>2, <3>1, <3>2, <3>3 DEF TypeOK
  <2>2. \A u \in Thread : call'[u].at \in {"create", "attach", "detach"} <=> vfs' = u
    BY <1>2, <1>4, <1>5, <1>7, ConstantsAssumption DEF Alike
  <2>3. ASSUME ~full', NEW x \in Timeline, lock'[x] # Null
        PROVE  call'[lock'[x]].at \in {"mark", "signal"} /\ call'[lock'[x]].tl = x
    <3>1. lock' = lock /\ ~full
      BY <1>2, <2>3
    <3>2. lock[x] \in Thread /\ call[lock[x]].at \in {"mark", "signal"} /\ call[lock[x]].tl = x
      BY <1>0, <2>3, <3>1 DEF TypeOK, LocksHeld
    <3> QED BY <1>1, <1>5, <3>1, <3>2 DEF Alike
  <2> QED BY <2>1, <2>2, <2>3 DEF LocksHeld
<1>11. CallsSound'
  BY <1>0, <1>3, <1>4, <1>5 DEF CallsSound, Alike, Waits
<1>12. PointsSigned'
  BY <1>0, <1>1, <1>6 DEF PointsSigned, Alive, AllSignaled
<1>13. ReferencesSound'
  <2>1. \A g \in Fence : fds'[g] > 0 => Published(g)'
    BY <1>0, <1>6, <1>8 DEF ReferencesSound, Published, Alive
  <2>2. \A u \in Thread : call'[u].at \in Waits => Published(call[u].fence)'
    BY <1>0, <1>3, <1>4, <1>5, <1>6 DEF ReferencesSound, CallsSound, Published, Alive, Alike, Waits
  <2>3. ASSUME NEW u \in Thread, call'[u].at \in {"attach", "detach"}
        PROVE  /\ Alive(call[u].fence)' /\ fds'[call'[u].fence] = 0
               /\ \A v \in Thread : call'[v].at \in Waits => call'[v].fence # call'[u].fence
    <3>1. u = t /\ ~HasFd /\ call'[t].fence = f
      BY <1>4, <1>5, <1>7, <2>3 DEF Alike
    <3>2. Alive(f)' /\ fds'[f] = 0
      BY <1>6, <1>8, <3>1 DEF Alive
    <3>3. \A v \in Thread : call'[v].at \in Waits => call'[v].fence # f
      BY <1>3, <1>4, <1>5 DEF Alike, Waits
    <3> QED BY <3>1, <3>2, <3>3
  <2> QED BY <2>1, <2>2, <2>3 DEF ReferencesSound
<1>14. LoopSound'
  BY <1>0, <1>1, <1>3, <1>4, <1>5, <1>6 DEF LoopSound, CallsSound, Alike, TypeOK, Call
<1>15. DueMarked'
  <2> SUFFICES ASSUME NEW g \in Fence, NEW x \in Timeline, x \in attached'[g],
                      points'[g][x] <= counter[x], x \notin signaled'[g]
               PROVE  \E u \in Thread : call'[u].tl = x /\ g \in call'[u].todo
    BY <1>1 DEF DueMarked
  <2>1. g # f
    BY <1>6
  <2>2. PICK u \in Thread : call[u].tl = x /\ g \in call[u].todo
    BY <1>0, <1>6, <2>1 DEF DueMarked
  <2>3. u # t
    BY <1>0, <1>1, <2>2 DEF CallsSound
  <2> QED BY <1>5, <2>2, <2>3 DEF Alike
<1>16. MarkedSignaled'
  BY <1>0, <1>1, <1>5, <1>6 DEF MarkedSignaled, Looking, Alive, AllSignaled, Alike
<1>17. ParentsBefore'
  BY <1>0, <1>1, <1>3, <1>6 DEF ParentsBefore, TypeOK
<1>18. NoLostWakeup' /\ NoAssertFails'
  BY <1>0, <1>1, <1>3, <1>4, <1>5, <1>6 DEF NoLostWakeup, NoAssertFails, CallsSound, Alike, Waits
<1> QED BY <1>9, <1>10, <1>11, <1>12, <1>13, <1>14, <1>15, <1>16, <1>17, <1>18 DEF Inv

\* IncrementCounter finds the points that the new value reaches.
LEMMA IncrementBeginInv ==
  ASSUME Inv, NEW t \in Thread, IncrementBegin(t)
  PROVE  Inv'
<1>0. /\ TypeOK /\ LocksHeld /\ CallsSound /\ PointsSigned /\ ReferencesSound /\ LoopSound
      /\ DueMarked /\ MarkedSignaled /\ ParentsBefore /\ NoLostWakeup /\ NoAssertFails
  BY DEF Inv
<1>1. /\ call[t].at = "idle"
      /\ UNCHANGED <<points, signaled, attached, status, fds, vfs, parents, full, aborted>>
  BY DEF IncrementBegin, At, fence
<1>2a. PICK tl \in Timeline : \E new \in counter[tl] + 1 .. MaxCounter :
        /\ lock[tl] = Null
        /\ counter' = [counter EXCEPT ![tl] = new]
        /\ lock' = [lock EXCEPT ![tl] = IF Due(tl, counter[tl], new) = {} THEN Null ELSE t]
        /\ call' = [call EXCEPT ![t] = Loop(t, tl, Due(tl, counter[tl], new))]
  BY DEF IncrementBegin
<1>2. PICK new \in counter[tl] + 1 .. MaxCounter :
        /\ lock[tl] = Null
        /\ counter' = [counter EXCEPT ![tl] = new]
        /\ lock' = [lock EXCEPT ![tl] = IF Due(tl, counter[tl], new) = {} THEN Null ELSE t]
        /\ call' = [call EXCEPT ![t] = Loop(t, tl, Due(tl, counter[tl], new))]
  BY <1>2a
<1> DEFINE due == Due(tl, counter[tl], new)
           c == Loop(t, tl, due)
<1>3. /\ counter[tl] \in Nat /\ new \in Times /\ new > counter[tl] /\ new \in Nat
      /\ counter'[tl] = new /\ \A x \in Timeline : x # tl => counter'[x] = counter[x]
      /\ \A x \in Timeline : counter[x] \in Nat /\ counter'[x] \in Nat /\ counter[x] <= counter'[x]
  BY <1>0, <1>2, ConstantsAssumption, Types DEF TypeOK, Times
<1>4. /\ due \subseteq Fence
      /\ \A f \in due : tl \in attached[f] /\ points[f][tl] > counter[tl] /\ points[f][tl] <= new
      /\ \A f \in Fence : /\ tl \in attached[f] /\ points[f][tl] <= new /\ points[f][tl] \in Nat
                          => f \in due \/ points[f][tl] <= counter[tl]
  BY <1>3 DEF Due
<1>5. /\ c \in Call /\ c.todo = due /\ ~c.asleep
      /\ due = {} => c.at = "idle"
      /\ due # {} => c.at = "mark" /\ c.tl = tl
      /\ call' = [call EXCEPT ![t] = c]
  BY <1>2, <1>4 DEF Loop, Idle, Doing, Call
<1>6. \A x \in Timeline : lock'[x] = IF x = tl THEN IF due = {} THEN Null ELSE t ELSE lock[x]
  BY <1>0, <1>2 DEF TypeOK
<1> HIDE DEF c, due
<1>7. /\ call' \in [Thread -> Call] /\ Alike(call'[t], c)
      /\ \A u \in Thread : u # t => Alike(call'[u], call[u])
  BY <1>0, <1>5, GoesMoves DEF Moves
<1>8. TypeOK'
  <2>1. counter' \in [Timeline -> Times]
    BY <1>0, <1>2, <1>3 DEF TypeOK
  <2>2. lock' \in [Timeline -> Thread \cup {Null}]
    BY <1>0, <1>2 DEF TypeOK
  <2> QED BY <1>0, <1>1, <1>7, <2>1, <2>2 DEF TypeOK, Call
<1>9. \A u \in Thread : call[u].tl = tl => call[u].todo = {} /\ call[u].at \notin {"mark", "signal"}
  BY <1>0, <1>2, ConstantsAssumption DEF LocksHeld, CallsSound
<1>10. LocksHeld'
  <2>1. ASSUME NEW u \in Thread, call'[u].at \in {"mark", "signal"}
        PROVE  call'[u].tl \in Timeline /\ lock'[call'[u].tl] = u
    <3>1. CASE u = t
      BY <1>5, <1>6, <1>7, <2>1, <3>1 DEF Alike
    <3>2. CASE u # t
      BY <1>0, <1>6, <1>7, <1>9, <2>1, <3>2 DEF Alike, LocksHeld
    <3> QED BY <3>1, <3>2
  <2>2. \A u \in Thread : call'[u].at \in {"create", "attach", "detach"} <=> vfs' = u
    BY <1>0, <1>1, <1>5, <1>7 DEF LocksHeld, Alike
  <2>3. ASSUME ~full', NEW x \in Timeline, lock'[x] # Null
        PROVE  call'[lock'[x]].at \in {"mark", "signal"} /\ call'[lock'[x]].tl = x
    <3>1. CASE x = tl
      BY <1>5, <1>6, <1>7, <2>3, <3>1 DEF Alike
    <3>2. CASE x # tl
      <4>1. lock[x] \in Thread /\ call[lock[x]].at \in {"mark", "signal"} /\ call[lock[x]].tl = x
            /\ lock'[x] = lock[x]
        BY <1>0, <1>1, <1>6, <2>3, <3>2 DEF TypeOK, LocksHeld
      <4> QED BY <1>1, <1>7, <4>1 DEF Alike
    <3> QED BY <3>1, <3>2
  <2> QED BY <2>1, <2>2, <2>3 DEF LocksHeld
<1>11. CallsSound'
  BY <1>0, <1>5, <1>7 DEF CallsSound, Alike, Waits
<1>12. PointsSigned'
  <2>1. ASSUME NEW f \in Fence, NEW x \in signaled[f]
        PROVE  points[f][x] <= counter'[x]
    <3>1. x \in Timeline /\ points[f][x] \in Nat /\ points[f][x] <= counter[x]
      BY <1>0, Types DEF PointsSigned
    <3> QED BY <1>3, <3>1
  <2> QED BY <1>0, <1>1, <2>1 DEF PointsSigned, Alive, AllSignaled
<1>13. ReferencesSound'
  BY <1>0, <1>1, <1>5, <1>7 DEF ReferencesSound, Published, Alive, Alike, Waits
<1>14. LoopSound'
  <2>1. ASSUME NEW f \in due
        PROVE  /\ f \in Fence /\ tl \in attached[f] /\ tl \notin signaled[f]
               /\ points[f][tl] <= counter'[tl]
    <3>1. f \in Fence /\ tl \in attached[f] /\ points[f][tl] > counter[tl]
          /\ points[f][tl] <= counter'[tl]
      BY <1>3, <1>4
    <3>2. points[f][tl] \in Nat
      BY <1>0, <3>1, Types DEF PointsSigned
    <3>3. tl \notin signaled[f]
      BY <1>0, <1>3, <3>1, <3>2 DEF PointsSigned
    <3> QED BY <3>1, <3>3
  <2>2. ASSUME NEW u \in Thread, u # t, NEW f \in call[u].todo
        PROVE  /\ call[u].tl \in attached[f] /\ call[u].tl \notin signaled[f]
               /\ points[f][call[u].tl] <= counter'[call[u].tl]
    <3>1. /\ call[u].tl \in attached[f] /\ call[u].tl \notin signaled[f]
          /\ points[f][call[u].tl] <= counter[call[u].tl]
      BY <1>0 DEF LoopSound
    <3>2. f \in Fence /\ call[u].tl \in Timeline /\ points[f][call[u].tl] \in Nat
      BY <1>0, <3>1, Types DEF PointsSigned, Call
    <3> QED BY <1>3, <3>1, <3>2
  <2>3. ASSUME NEW u \in Thread
        PROVE  /\ \A f \in call'[u].todo :
                    /\ call'[u].tl \in attached[f] /\ call'[u].tl \notin signaled[f]
                    /\ points[f][call'[u].tl] <= counter'[call'[u].tl]
               /\ call'[u].at = "signal" => call'[u].tl \in attached[call'[u].fence]
    <3>1. CASE u = t
      BY <1>5, <1>7, <2>1, <3>1 DEF Alike
    <3>2. CASE u # t
      BY <1>0, <1>7, <2>2, <3>2 DEF Alike, LoopSound
    <3> QED BY <3>1, <3>2
  <2> QED BY <1>1, <2>3 DEF LoopSound
<1>15. DueMarked'
  <2> SUFFICES ASSUME NEW g \in Fence, NEW x \in Timeline, x \in attached[g],
                      points[g][x] <= counter'[x], x \notin signaled[g]
               PROVE  \E u \in Thread : call'[u].tl = x /\ g \in call'[u].todo
    BY <1>1 DEF DueMarked
  <2>1. points[g][x] \in Nat
    BY <1>0, Types DEF PointsSigned
  <2>2. CASE x = tl /\ g \in due
    BY <1>5, <1>7, <2>2 DEF Alike
  <2>3. CASE ~(x = tl /\ g \in due)
    <3>1. points[g][x] <= counter[x]
      BY <1>3, <1>4, <2>1, <2>3
    <3>2. PICK u \in Thread : call[u].tl = x /\ g \in call[u].todo
      BY <1>0, <3>1 DEF DueMarked
    <3>3. u # t
      BY <1>0, <1>1, <3>2 DEF CallsSound
    <3> QED BY <1>7, <3>2, <3>3 DEF Alike
  <2> QED BY <2>2, <2>3
<1>16. MarkedSignaled'
  BY <1>0, <1>1, <1>7 DEF MarkedSignaled, Looking, Alive, AllSignaled, Alike
<1>17. ParentsBefore' /\ NoAssertFails'
  BY <1>0, <1>1 DEF ParentsBefore, NoAssertFails
<1>18. NoLostWakeup'
  BY <1>0, <1>1, <1>5, <1>7 DEF NoLostWakeup, Alike
<1> QED BY <1>8, <1>10, <1>11, <1>12, <1>13, <1>14, <1>15, <1>16, <1>17, <1>18 DEF Inv

\* A point is marked: it has no timestamp yet.
LEMMA IncrementMarkInv ==
  ASSUME Inv, NEW t \in Thread, IncrementMark(t)
  PROVE  Inv'
<1>0. /\ TypeOK /\ LocksHeld /\ CallsSound /\ PointsSigned /\ ReferencesSound /\ LoopSound
      /\ DueMarked /\ MarkedSignaled /\ ParentsBefore /\ NoLostWakeup /\ NoAssertFails
  BY DEF Inv
<1> DEFINE tl == call[t].tl
<1>1. /\ call[t].at = "mark" /\ tl \in Timeline /\ lock[tl] = t
      /\ UNCHANGED <<counter, points, attached, status, fds, vfs, lock, parents, full>>
  BY <1>0 DEF IncrementMark, At, LocksHeld
<1>2. PICK f \in call[t].todo :
        /\ signaled' = [signaled EXCEPT ![f] = @ \cup {tl}]
        /\ aborted' = (tl \in signaled[f])
        /\ call' = [call EXCEPT ![t] = Doing("signal", f, tl, call[t].todo \ {f})]
  BY DEF IncrementMark
<1> DEFINE c == Doing("signal", f, tl, call[t].todo \ {f})
<1>3. /\ f \in Fence /\ tl \in attached[f] /\ tl \notin signaled[f]
      /\ points[f][tl] <= counter[tl] /\ tl \in DOMAIN points[f]
  BY <1>0, Types DEF LoopSound, PointsSigned, Call
<1>4. /\ c \in Call /\ c.at = "signal" /\ c.fence = f /\ c.tl = tl
      /\ c.todo = call[t].todo \ {f} /\ ~c.asleep /\ call' = [call EXCEPT ![t] = c]
  BY <1>0, <1>1, <1>2, <1>3, Types DEF Doing, Call
<1>5. /\ signaled'[f] = signaled[f] \cup {tl}
      /\ \A g \in Fence : g # f => signaled'[g] = signaled[g]
      /\ aborted' = FALSE
  <2>1. aborted' = FALSE
    <3>1. (tl \in signaled[f]) = FALSE
      BY <1>3
    <3>2. aborted' = (tl \in signaled[f])
      BY <1>2
    <3> QED BY <3>1, <3>2, Zenon
  <2>2. /\ signaled'[f] = signaled[f] \cup {tl}
        /\ \A g \in Fence : g # f => signaled'[g] = signaled[g]
    BY <1>0, <1>2, <1>3 DEF TypeOK
  <2> QED BY <2>1, <2>2
<1> HIDE DEF tl, c
<1>6. /\ call' \in [Thread -> Call] /\ Alike(call'[t], c)
      /\ \A u \in Thread : u # t => Alike(call'[u], call[u])
  BY <1>0, <1>4, GoesMoves DEF Moves
<1>7. TypeOK'
  <2>1. signaled' \in [Fence -> SUBSET Timeline]
    BY <1>0, <1>1, <1>2, <1>3 DEF TypeOK
  <2> QED BY <1>0, <1>1, <1>5, <1>6, <2>1 DEF TypeOK, Call
<1>8. LocksHeld'
  <2>1. \A u \in Thread : call'[u].at \in {"mark", "signal"} =>
          call'[u].tl \in Timeline /\ lock'[call'[u].tl] = u
    BY <1>0, <1>1, <1>4, <1>6 DEF LocksHeld, Alike
  <2>2. \A u \in Thread : call'[u].at \in {"create", "attach", "detach"} <=> vfs' = u
    BY <1>0, <1>1, <1>4, <1>6 DEF LocksHeld, Alike
  <2>3. ASSUME ~full, NEW x \in Timeline, lock[x] # Null
        PROVE  call'[lock[x]].at \in {"mark", "signal"} /\ call'[lock[x]].tl = x
    <3>1. lock[x] \in Thread /\ call[lock[x]].at \in {"mark", "signal"} /\ call[lock[x]].tl = x
      BY <1>0, <2>3 DEF TypeOK, LocksHeld
    <3> QED BY <1>4, <1>6, <3>1 DEF Alike, tl
  <2> QED BY <1>1, <2>1, <2>2, <2>3 DEF LocksHeld
<1>9. CallsSound'
  BY <1>0, <1>3, <1>4, <1>6 DEF CallsSound, Alike, Waits
<1>10. PointsSigned'
  BY <1>0, <1>1, <1>3, <1>5 DEF PointsSigned, Alive, AllSignaled
<1>11. ReferencesSound'
  BY <1>0, <1>1, <1>4, <1>6 DEF ReferencesSound, Published, Alive, Alike, Waits
<1>12. LoopSound'
  <2>1. \A u \in Thread : u # t /\ call[u].at \in {"mark", "signal"} => call[u].tl # tl
    BY <1>0, <1>1 DEF LocksHeld
  <2>2. \A u \in Thread : u # t /\ call[u].todo # {} => call[u].tl # tl
    BY <1>0, <2>1 DEF CallsSound
  <2>3. ASSUME NEW u \in Thread
        PROVE  /\ \A g \in call'[u].todo :
                    /\ call'[u].tl \in attached[g] /\ call'[u].tl \notin signaled'[g]
                    /\ points[g][call'[u].tl] <= counter[call'[u].tl]
               /\ call'[u].at = "signal" => call'[u].tl \in attached[call'[u].fence]
    <3>1. CASE u = t
      BY <1>0, <1>3, <1>4, <1>5, <1>6, <3>1, Types DEF Alike, LoopSound, Call, tl
    <3>2. CASE u # t
      BY <1>0, <1>5, <1>6, <2>2, <3>2, Types DEF Alike, LoopSound, Call
    <3> QED BY <3>1, <3>2
  <2> QED BY <1>1, <2>3 DEF LoopSound
<1>13. DueMarked'
  <2> SUFFICES ASSUME NEW g \in Fence, NEW x \in Timeline, x \in attached[g],
                      points[g][x] <= counter[x], x \notin signaled'[g]
               PROVE  \E u \in Thread : call'[u].tl = x /\ g \in call'[u].todo
    BY <1>1 DEF DueMarked
  <2>1. x \notin signaled[g] /\ ~(x = tl /\ g = f)
    BY <1>5
  <2>2. PICK u \in Thread : call[u].tl = x /\ g \in call[u].todo
    BY <1>0, <2>1 DEF DueMarked
  <2> QED BY <1>4, <1>6, <2>1, <2>2 DEF Alike, tl
<1>14. MarkedSignaled'
  <2> SUFFICES ASSUME NEW g \in Fence, Alive(g), AllSignaled(g, signaled'[g])
               PROVE  status[g] = "SIGNALED" \/ Looking(g)'
    BY <1>1 DEF MarkedSignaled, Alive, AllSignaled
  <2>1. CASE g = f
    BY <1>4, <1>6, <2>1 DEF Looking, Alike
  <2>2. CASE g # f
    BY <1>0, <1>1, <1>5, <1>6, <2>2 DEF MarkedSignaled, Looking, Alike
  <2> QED BY <2>1, <2>2
<1>15. ParentsBefore' /\ NoAssertFails'
  BY <1>0, <1>1, <1>5 DEF ParentsBefore, NoAssertFails
<1>16. NoLostWakeup'
  BY <1>0, <1>1, <1>4, <1>6 DEF NoLostWakeup, Alike
<1> QED BY <1>7, <1>8, <1>9, <1>10, <1>11, <1>12, <1>13, <1>14, <1>15, <1>16 DEF Inv

\* MaybeSignal after the mark: the fence is signalled or one of its points is not.
LEMMA IncrementSignalInv ==
  ASSUME Inv, NEW t \in Thread, IncrementSignal(t)
  PROVE  Inv'
<1>0. /\ TypeOK /\ LocksHeld /\ CallsSound /\ PointsSigned /\ ReferencesSound /\ LoopSound
      /\ DueMarked /\ MarkedSignaled /\ ParentsBefore /\ NoLostWakeup /\ NoAssertFails
  BY DEF Inv
<1> DEFINE tl == call[t].tl
           f == call[t].fence
           todo == call[t].todo
           c == Loop(t, tl, todo)
<1>1. /\ call[t].at = "signal" /\ tl \in Timeline /\ lock[tl] = t /\ f \in Fence
      /\ tl \in attached[f] /\ Alive(f)
      /\ lock' = IF todo = {} THEN Unlocked(tl) ELSE lock
      /\ UNCHANGED <<counter, points, signaled, attached, fds, vfs, parents, full, aborted>>
  BY <1>0 DEF IncrementSignal, At, LocksHeld, CallsSound, LoopSound, PointsSigned
<1>2. /\ c \in Call /\ c.todo = todo /\ ~c.asleep
      /\ todo = {} => c.at = "idle"
      /\ todo # {} => c.at = "mark" /\ c.tl = tl
  BY <1>0, <1>1, Types DEF Loop, Idle, Doing, Call
<1>3. MaybeSignal(f, signaled[f], [call EXCEPT ![t] = c])
  BY DEF IncrementSignal
<1> HIDE DEF tl, f, todo, c
<1>4. /\ call' \in [Thread -> Call] /\ Alike(call'[t], c)
      /\ \A u \in Thread : u # t => Alike(call'[u], call[u])
      /\ status' = [status EXCEPT ![f] = IF AllSignaled(f, signaled[f]) THEN "SIGNALED" ELSE @]
      /\ AllSignaled(f, signaled[f]) =>
           \A u \in Thread : call'[u].fence = f => ~call'[u].asleep
  BY <1>0, <1>1, <1>2, <1>3, MaybeSignalFacts DEF Moves
<1>5. /\ \A g \in Fence : g # f => status'[g] = status[g]
      /\ status'[f] = IF AllSignaled(f, signaled[f]) THEN "SIGNALED" ELSE status[f]
      /\ \A g \in Fence : (Alive(g)' <=> Alive(g)) /\ (status'[g] = "NONE" <=> status[g] = "NONE")
  BY <1>0, <1>1, <1>4 DEF TypeOK, Alive
<1>6. \A x \in Timeline : lock'[x] = IF x = tl /\ todo = {} THEN Null ELSE lock[x]
  BY <1>0, <1>1 DEF TypeOK, Unlocked
<1>7. TypeOK'
  <2>1. lock' \in [Timeline -> Thread \cup {Null}]
    BY <1>0, <1>1 DEF TypeOK, Unlocked
  <2>2. status' \in [Fence -> {"NONE", "ACTIVE", "SIGNALED", "FREED"}]
    BY <1>0, <1>1, <1>4 DEF TypeOK
  <2> QED BY <1>0, <1>1, <1>4, <2>1, <2>2 DEF TypeOK, Call
<1>8. LocksHeld'
  <2>1. ASSUME NEW u \in Thread, call'[u].at \in {"mark", "signal"}
        PROVE  call'[u].tl \in Timeline /\ lock'[call'[u].tl] = u
    <3>1. CASE u = t
      BY <1>1, <1>2, <1>4, <1>6, <2>1, <3>1 DEF Alike
    <3>2. CASE u # t
      <4>1. call[u].tl \in Timeline /\ lock[call[u].tl] = u /\ call'[u].tl = call[u].tl
        BY <1>0, <1>4, <2>1, <3>2 DEF Alike, LocksHeld
      <4> QED BY <1>1, <1>6, <3>2, <4>1
    <3> QED BY <3>1, <3>2
  <2>2. \A u \in Thread : call'[u].at \in {"create", "attach", "detach"} <=> vfs' = u
    BY <1>0, <1>1, <1>2, <1>4 DEF LocksHeld, Alike
  <2>3. ASSUME ~full, NEW x \in Timeline, lock'[x] # Null
        PROVE  call'[lock'[x]].at \in {"mark", "signal"} /\ call'[lock'[x]].tl = x
    <3>1. /\ lock'[x] = lock[x] /\ lock[x] \in Thread /\ ~(x = tl /\ todo = {})
          /\ call[lock[x]].at \in {"mark", "signal"} /\ call[lock[x]].tl = x
      BY <1>0, <1>6, <2>3 DEF TypeOK, LocksHeld
    <3> QED BY <1>2, <1>4, <3>1 DEF Alike, tl
  <2> QED BY <1>1, <2>1, <2>2, <2>3 DEF LocksHeld
<1>9. CallsSound'
  BY <1>0, <1>2, <1>4 DEF CallsSound, Alike, Waits
<1>10. PointsSigned'
  BY <1>0, <1>1, <1>5 DEF PointsSigned, AllSignaled
<1>11. ReferencesSound'
  <2>1. \A g \in Fence : Published(g)' <=> Published(g)
    BY <1>1, <1>5 DEF Published
  <2> QED BY <1>0, <1>1, <1>2, <1>4, <1>5, <2>1 DEF ReferencesSound, CallsSound, Alike, Waits
<1>12. LoopSound'
  <2>1. ASSUME NEW u \in Thread
        PROVE  /\ \A g \in call'[u].todo :
                    /\ call'[u].tl \in attached[g] /\ call'[u].tl \notin signaled[g]
                    /\ points[g][call'[u].tl] <= counter[call'[u].tl]
               /\ call'[u].at = "signal" => call'[u].tl \in attached[call'[u].fence]
    <3>1. CASE u = t
      BY <1>0, <1>2, <1>4, <3>1 DEF Alike, LoopSound, tl, todo
    <3>2. CASE u # t
      BY <1>0, <1>4, <3>2 DEF Alike, LoopSound
    <3> QED BY <3>1, <3>2
  <2> QED BY <1>1, <2>1 DEF LoopSound
<1>13. DueMarked'
  <2> SUFFICES ASSUME NEW g \in Fence, NEW x \in Timeline, x \in attached[g],
                      points[g][x] <= counter[x], x \notin signaled[g]
               PROVE  \E u \in Thread : call'[u].tl = x /\ g \in call'[u].todo
    BY <1>1 DEF DueMarked
  <2>1. PICK u \in Thread : call[u].tl = x /\ g \in call[u].todo
    BY <1>0 DEF DueMarked
  <2> QED BY <1>2, <1>4, <2>1 DEF Alike, tl, todo
<1>14. MarkedSignaled'
  <2> SUFFICES ASSUME NEW g \in Fence, Alive(g), AllSignaled(g, signaled[g]),
                      status'[g] # "SIGNALED"
               PROVE  Looking(g)'
    BY <1>1, <1>5 DEF MarkedSignaled, AllSignaled
  <2>1. g # f /\ status[g] # "SIGNALED"
    BY <1>5
  <2>2. PICK u \in Thread : call[u].at \in {"signal", "attach"} /\ call[u].fence = g
    BY <1>0, <2>1 DEF MarkedSignaled, Looking
  <2>3. u # t
    BY <2>1, <2>2 DEF f
  <2> QED BY <1>4, <2>2, <2>3 DEF Looking, Alike
<1>15. ParentsBefore' /\ NoAssertFails'
  BY <1>0, <1>1, <1>5 DEF ParentsBefore, NoAssertFails, TypeOK
<1>16. NoLostWakeup'
  <2> SUFFICES ASSUME NEW u \in Thread, call'[u].asleep
               PROVE  status'[call'[u].fence] = "ACTIVE"
    BY DEF NoLostWakeup
  <2>1. u # t /\ call[u].asleep /\ call'[u].fence = call[u].fence
    BY <1>2, <1>4 DEF Alike
  <2>2. status[call[u].fence] = "ACTIVE" /\ call[u].fence \in Fence
    BY <1>0, <2>1 DEF NoLostWakeup, CallsSound, Waits
  <2> QED BY <1>4, <1>5, <2>1, <2>2
<1> QED BY <1>7, <1>8, <1>9, <1>10, <1>11, <1>12, <1>13, <1>14, <1>15, <1>16 DEF Inv

\* Merging keeps the types, and no point gets earlier.
LEMMA MergedFacts ==
  ASSUME TypeOK, NEW f \in Fence, NEW g \in Fence
  PROVE  /\ Merged(points[f], points[g]) \in PointMap
         /\ DOMAIN Merged(points[f], points[g]) = DOMAIN points[f] \cup DOMAIN points[g]
         /\ \A tl \in DOMAIN points[f] : points[f][tl] <= Merged(points[f], points[g])[tl]
         /\ \A tl \in DOMAIN points[g] : points[g][tl] <= Merged(points[f], points[g])[tl]
<1> DEFINE D == DOMAIN points[f] \cup DOMAIN points[g]
           M == Merged(points[f], points[g])
<1>1. /\ D \in SUBSET Timeline
      /\ \A tl \in DOMAIN points[f] : points[f][tl] \in Times /\ points[f][tl] \in Nat
      /\ \A tl \in DOMAIN points[g] : points[g][tl] \in Times /\ points[g][tl] \in Nat
  <2>1. ASSUME NEW x \in Fence
        PROVE  \A tl \in DOMAIN points[x] : points[x][tl] \in Times
    <3>1. PICK tls \in SUBSET Timeline : points[x] \in [tls -> Times]
      BY Types DEF PointMap
    <3> QED BY <3>1
  <2> QED BY <2>1, Types
<1>2. M = [tl \in D |-> IF tl \notin DOMAIN points[g] \/ (tl \in DOMAIN points[f] /\ points[f][tl] >= points[g][tl])
                          THEN points[f][tl] ELSE points[g][tl]]
  BY DEF Merged
<1>3. \A tl \in D : M[tl] \in Times
  BY <1>1, <1>2
<1>4. M \in [D -> Times]
  BY <1>2, <1>3
<1>5. M \in PointMap
  BY <1>1, <1>4, PointMapFacts
<1>6. \A tl \in DOMAIN points[f] : points[f][tl] <= M[tl]
  BY <1>1, <1>2
<1>7. \A tl \in DOMAIN points[g] : points[g][tl] <= M[tl]
  BY <1>1, <1>2
<1> QED BY <1>4, <1>5, <1>6, <1>7

\* A timestamp is copied with its point: the point is due.
LEMMA CopiedFacts ==
  ASSUME TypeOK, PointsSigned, NEW f \in Fence, NEW g \in Fence
  PROVE  /\ CopiedStamps(f, g) \subseteq DOMAIN points[f] \cup DOMAIN points[g]
         /\ \A tl \in CopiedStamps(f, g) : Merged(points[f], points[g])[tl] <= counter[tl]
BY DEF CopiedStamps, Merged, PointsSigned

\* SYNC_IOC_MERGE duplicates a descriptor, or makes a fence whose points have yet to
\* be attached.
LEMMA MergeBeginInv ==
  ASSUME Inv, NEW t \in Thread, MergeBegin(t)
  PROVE  Inv'
<1>0. /\ TypeOK /\ LocksHeld /\ CallsSound /\ PointsSigned /\ ReferencesSound /\ LoopSound
      /\ DueMarked /\ MarkedSignaled /\ ParentsBefore /\ NoLostWakeup /\ NoAssertFails
  BY DEF Inv
<1>1. call[t].at = "idle" /\ vfs = Null /\ UNCHANGED <<counter, lock, full, aborted>>
  BY DEF MergeBegin, At
<1>2. ASSUME NEW f \in Fence, fds[f] > 0, HasFd, fds' = [fds EXCEPT ![f] = @ + 1],
             UNCHANGED <<points, signaled, attached, status, vfs, call, parents>>
      PROVE  Inv'
  <2>1. fds' \in [Fence -> 0 .. MaxFds]
    BY <1>0, <1>2, FdRoom DEF TypeOK
  <2>2. \A g \in Fence : g # f => fds'[g] = fds[g]
    BY <1>0, <1>2 DEF TypeOK
  <2>3. TypeOK'
    BY <1>0, <1>1, <1>2, <2>1 DEF TypeOK
  <2>4. LocksHeld' /\ CallsSound' /\ LoopSound' /\ DueMarked'
    BY <1>0, <1>1, <1>2 DEF LocksHeld, CallsSound, LoopSound, DueMarked
  <2>5. PointsSigned' /\ ParentsBefore' /\ MarkedSignaled' /\ NoLostWakeup' /\ NoAssertFails'
    BY <1>0, <1>1, <1>2 DEF PointsSigned, ParentsBefore, NoAssertFails, MarkedSignaled,
       NoLostWakeup, Looking, Alive, AllSignaled
  <2>6. ReferencesSound'
    <3>1. Published(f) /\ \A u \in Thread : call[u].at \notin {"attach", "detach"}
      BY <1>0, <1>1, <1>2, ConstantsAssumption DEF ReferencesSound, LocksHeld
    <3> QED BY <1>0, <1>2, <2>2, <3>1 DEF ReferencesSound, Published, Alive
  <2> QED BY <2>3, <2>4, <2>5, <2>6 DEF Inv
<1>3. ASSUME NEW f \in Fence, NEW g \in Fence, NEW h \in New, fds[f] > 0, fds[g] > 0,
             points' = [points EXCEPT ![h] = Merged(points[f], points[g])],
             signaled' = [signaled EXCEPT ![h] = CopiedStamps(f, g)],
             status' = [status EXCEPT ![h] = "ACTIVE"],
             call' = [call EXCEPT ![t] = Doing("attach", h, Null, {})],
             parents' = [parents EXCEPT ![h] = {f, g}],
             vfs' = t, UNCHANGED <<attached, fds>>
      PROVE  Inv'
  <2>1. /\ h \in Fence /\ status[h] = "NONE" /\ fds[h] = 0 /\ attached[h] = {}
        /\ parents[h] = {} /\ \A x \in Fence : h \notin parents[x]
        /\ \A u \in Thread :
             /\ h \notin call[u].todo
             /\ call[u].at \in {"signal", "attach", "detach"} \cup Waits => call[u].fence # h
    BY NewFacts
  <2>2. f # h /\ g # h /\ Alive(f) /\ Alive(g)
    BY <1>0, <1>3, <2>1 DEF ReferencesSound, Published, Alive
  <2> DEFINE M == Merged(points[f], points[g])
             S == CopiedStamps(f, g)
             c == Doing("attach", h, Null, {})
  <2>3. /\ M \in PointMap /\ DOMAIN M = DOMAIN points[f] \cup DOMAIN points[g]
        /\ \A tl \in DOMAIN points[f] : points[f][tl] <= M[tl]
        /\ \A tl \in DOMAIN points[g] : points[g][tl] <= M[tl]
        /\ S \subseteq DOMAIN M /\ \A tl \in S : M[tl] <= counter[tl]
        /\ S \subseteq Timeline
    BY <1>0, MergedFacts, CopiedFacts, Types
  <2>4. c \in Call /\ c.at = "attach" /\ c.fence = h /\ c.todo = {} /\ ~c.asleep
        /\ call' = [call EXCEPT ![t] = c]
    BY <1>3, <2>1 DEF Doing, Call
  <2>5. /\ points'[h] = M /\ \A x \in Fence : x # h => points'[x] = points[x]
        /\ signaled'[h] = S /\ \A x \in Fence : x # h => signaled'[x] = signaled[x]
        /\ status'[h] = "ACTIVE" /\ \A x \in Fence : x # h => status'[x] = status[x]
        /\ parents'[h] = {f, g} /\ \A x \in Fence : x # h => parents'[x] = parents[x]
    BY <1>0, <1>3, <2>1, Types DEF TypeOK
  <2>6. TypeOK'
    <3>1. points' \in [Fence -> PointMap]
      BY <1>0, <1>3, <2>1, <2>3, Types
    <3>2. /\ signaled' \in [Fence -> SUBSET Timeline]
          /\ status' \in [Fence -> {"NONE", "ACTIVE", "SIGNALED", "FREED"}]
          /\ parents' \in [Fence -> SUBSET Fence]
      BY <1>0, <1>3, <2>1, <2>3 DEF TypeOK
    <3>3. call' \in [Thread -> Call]
      BY <1>0, <2>4, GoesMoves DEF Moves
    <3> QED BY <1>0, <1>1, <1>3, <3>1, <3>2, <3>3 DEF TypeOK, Call, PointMap
  <2> HIDE DEF M, S, c
  <2>7. /\ call' \in [Thread -> Call] /\ Alike(call'[t], c)
        /\ \A u \in Thread : u # t => Alike(call'[u], call[u])
    BY <1>0, <2>4, GoesMoves DEF Moves
  <2>8. \A u \in Thread : call[u].at \notin {"create", "attach", "detach"}
    BY <1>0, <1>1, ConstantsAssumption DEF LocksHeld
  <2>9. LocksHeld'
    <3>1. \A u \in Thread : call'[u].at \in {"mark", "signal"} =>
            call'[u].tl \in Timeline /\ lock'[call'[u].tl] = u
      BY <1>0, <1>1, <2>4, <2>7 DEF LocksHeld, Alike
    <3>2. \A u \in Thread : call'[u].at \in {"create", "attach", "detach"} <=> vfs' = u
      BY <1>3, <2>4, <2>7, <2>8 DEF Alike
    <3>3. ASSUME ~full, NEW x \in Timeline, lock[x] # Null
          PROVE  call'[lock[x]].at \in {"mark", "signal"} /\ call'[lock[x]].tl = x
      <4>1. lock[x] \in Thread /\ call[lock[x]].at \in {"mark", "signal"} /\ call[lock[x]].tl = x
        BY <1>0, <3>3 DEF TypeOK, LocksHeld
      <4> QED BY <1>1, <2>7, <4>1 DEF Alike
    <3> QED BY <1>1, <3>1, <3>2, <3>3 DEF LocksHeld
  <2>10. CallsSound'
    BY <1>0, <2>1, <2>4, <2>7 DEF CallsSound, Alike, Waits
  <2>11. PointsSigned'
    BY <1>0, <1>1, <1>3, <2>1, <2>3, <2>5 DEF PointsSigned, Alive, AllSignaled
  <2>12. ReferencesSound'
    <3>1. \A x \in Fence : x # h => (Published(x)' <=> Published(x))
      BY <1>3, <2>5 DEF Published, Alive
    <3>2. Alive(h)'
      BY <2>5 DEF Alive
    <3>3. \A x \in Fence : fds'[x] > 0 => Published(x)'
      BY <1>0, <1>3, <2>1, <3>1 DEF ReferencesSound
    <3>4. \A u \in Thread : call'[u].at \in Waits =>
            /\ call'[u].fence # h /\ Published(call[u].fence)'
      BY <1>0, <2>1, <2>4, <2>7, <3>1 DEF ReferencesSound, CallsSound, Alike, Waits
    <3>5. \A u \in Thread : call'[u].at \in {"attach", "detach"} => u = t /\ call'[u].fence = h
      BY <2>4, <2>7, <2>8 DEF Alike
    <3> QED BY <1>3, <2>1, <3>2, <3>3, <3>4, <3>5 DEF ReferencesSound
  <2>13. LoopSound'
    <3>1. ASSUME NEW u \in Thread
          PROVE  /\ \A x \in call'[u].todo :
                      /\ call'[u].tl \in attached[x] /\ call'[u].tl \notin signaled'[x]
                      /\ points'[x][call'[u].tl] <= counter[call'[u].tl]
                 /\ call'[u].at = "signal" => call'[u].tl \in attached[call'[u].fence]
      <4>1. CASE u = t
        BY <2>4, <2>7, <4>1 DEF Alike
      <4>2. CASE u # t
        BY <1>0, <2>1, <2>5, <2>7, <4>2, Types DEF Alike, LoopSound, Call
      <4> QED BY <4>1, <4>2
    <3> QED BY <1>1, <1>3, <3>1 DEF LoopSound
  <2>14. DueMarked'
    <3> SUFFICES ASSUME NEW x \in Fence, NEW tl \in Timeline, tl \in attached[x],
                        points'[x][tl] <= counter[tl], tl \notin signaled'[x]
                 PROVE  \E u \in Thread : call'[u].tl = tl /\ x \in call'[u].todo
      BY <1>1, <1>3 DEF DueMarked
    <3>1. x # h
      BY <2>1
    <3>2. PICK u \in Thread : call[u].tl = tl /\ x \in call[u].todo
      BY <1>0, <2>5, <3>1 DEF DueMarked
    <3>3. u # t
      BY <1>0, <1>1, <3>2 DEF CallsSound
    <3> QED BY <2>7, <3>2, <3>3 DEF Alike
  <2>15. MarkedSignaled'
    <3>1. Looking(h)'
      BY <2>4, <2>7 DEF Looking, Alike
    <3>2. \A x \in Fence : Looking(x) => Looking(x)'
      BY <1>1, <2>7 DEF Looking, Alike
    <3> QED BY <1>0, <2>5, <3>1, <3>2 DEF MarkedSignaled, Alive, AllSignaled
  <2>16. ParentsBefore'
    <3> SUFFICES ASSUME NEW x \in Fence, NEW p \in parents'[x]
                 PROVE  /\ status'[x] # "NONE" /\ status'[p] # "NONE"
                        /\ \A tl \in DOMAIN points'[p] :
                             tl \in DOMAIN points'[x] /\ points'[p][tl] <= points'[x][tl]
      BY DEF ParentsBefore
    <3>1. CASE x = h
      BY <2>2, <2>3, <2>5, <3>1 DEF Alive
    <3>2. CASE x # h
      <4>1. p \in parents[x] /\ p \in Fence /\ p # h
        BY <1>0, <2>1, <2>5, <3>2 DEF TypeOK
      <4> QED BY <1>0, <2>5, <3>2, <4>1 DEF ParentsBefore
    <3> QED BY <3>1, <3>2
  <2>17. NoLostWakeup' /\ NoAssertFails'
    BY <1>0, <1>1, <2>1, <2>4, <2>5, <2>7 DEF NoLostWakeup, NoAssertFails, CallsSound, Alike, Waits
  <2> QED BY <2>6, <2>9, <2>10, <2>11, <2>12, <2>13, <2>14, <2>15, <2>16, <2>17 DEF Inv
<1> QED BY <1>2, <1>3 DEF MergeBegin

\* The points are attached one by one, marked if they have become due.
LEMMA MergeAttachInv ==
  ASSUME Inv, NEW t \in Thread, MergeAttach(t)
  PROVE  Inv'
<1>0. /\ TypeOK /\ LocksHeld /\ CallsSound /\ PointsSigned /\ ReferencesSound /\ LoopSound
      /\ DueMarked /\ MarkedSignaled /\ ParentsBefore /\ NoLostWakeup /\ NoAssertFails
  BY DEF Inv
<1> DEFINE h == call[t].fence
<1>1. /\ call[t].at = "attach" /\ h \in Fence /\ Alive(h) /\ fds[h] = 0
      /\ \A u \in Thread : call[u].at \in Waits => call[u].fence # h
      /\ UNCHANGED <<counter, points, status, fds, vfs, lock, call, parents, full, aborted>>
  BY <1>0 DEF MergeAttach, At, CallsSound, ReferencesSound
<1>2. PICK tl \in DOMAIN points[h] \ attached[h] :
        /\ lock[tl] = Null
        /\ attached' = [attached EXCEPT ![h] = @ \cup {tl}]
        /\ signaled' = [signaled EXCEPT ![h] = IF points[h][tl] <= counter[tl] THEN @ \cup {tl} ELSE @]
  BY DEF MergeAttach, Attach
<1> HIDE DEF h
<1>3. tl \in Timeline /\ \A u \in Thread : u # t => call[u].at \notin {"attach", "detach"}
  BY <1>0, <1>1, <1>2, Types DEF LocksHeld
<1>4. /\ attached'[h] = attached[h] \cup {tl}
      /\ signaled'[h] = IF points[h][tl] <= counter[tl] THEN signaled[h] \cup {tl} ELSE signaled[h]
      /\ \A g \in Fence : g # h => attached'[g] = attached[g] /\ signaled'[g] = signaled[g]
  BY <1>0, <1>1, <1>2 DEF TypeOK
<1>5. TypeOK'
  <2>1. attached' \in [Fence -> SUBSET Timeline] /\ signaled' \in [Fence -> SUBSET Timeline]
    BY <1>0, <1>1, <1>2, <1>3 DEF TypeOK
  <2> QED BY <1>0, <1>1, <2>1 DEF TypeOK
<1>6. LocksHeld' /\ CallsSound' /\ ParentsBefore' /\ NoAssertFails' /\ NoLostWakeup'
  BY <1>0, <1>1 DEF LocksHeld, CallsSound, ParentsBefore, NoAssertFails, NoLostWakeup
<1>7. PointsSigned'
  BY <1>0, <1>1, <1>2, <1>4 DEF PointsSigned, Alive, AllSignaled
<1>8. ReferencesSound'
  <2>1. \A g \in Fence : g # h => (Published(g)' <=> Published(g))
    BY <1>1, <1>4 DEF Published, Alive
  <2>2. \A g \in Fence : fds[g] > 0 => Published(g)'
    BY <1>0, <1>1, <2>1 DEF ReferencesSound
  <2>3. \A u \in Thread : call[u].at \in Waits => Published(call[u].fence)'
    BY <1>0, <1>1, <2>1 DEF ReferencesSound, CallsSound
  <2> QED BY <1>0, <1>1, <2>2, <2>3 DEF ReferencesSound, Alive
<1>9. LoopSound'
  <2>1. \A u \in Thread : call[u].at \in {"mark", "signal"} => call[u].tl # tl
    BY <1>0, <1>2, ConstantsAssumption DEF LocksHeld
  <2>2. \A u \in Thread : call[u].todo # {} => call[u].tl # tl
    BY <1>0, <2>1 DEF CallsSound
  <2> QED BY <1>0, <1>1, <1>4, <2>2, Types DEF LoopSound, CallsSound, Call
<1>10. DueMarked'
  BY <1>0, <1>1, <1>4 DEF DueMarked
<1>11. MarkedSignaled'
  <2>1. Looking(h)
    BY <1>1 DEF Looking, h
  <2> QED BY <1>0, <1>1, <1>4, <2>1 DEF MarkedSignaled, Looking, Alive, AllSignaled
<1> QED BY <1>5, <1>6, <1>7, <1>8, <1>9, <1>10, <1>11 DEF Inv

\* With the last point attached, MaybeSignal looks at all of them; the fence gets
\* its descriptor or is destroyed.
LEMMA MergeEndInv ==
  ASSUME Inv, NEW t \in Thread, MergeEnd(t)
  PROVE  Inv'
<1>0. /\ TypeOK /\ LocksHeld /\ CallsSound /\ PointsSigned /\ ReferencesSound /\ LoopSound
      /\ DueMarked /\ MarkedSignaled /\ ParentsBefore /\ NoLostWakeup /\ NoAssertFails
  BY DEF Inv
<1> DEFINE h == call[t].fence
           c == IF HasFd THEN Idle ELSE Doing("detach", h, Null, {})
<1>1. /\ call[t].at = "attach" /\ h \in Fence /\ Alive(h) /\ fds[h] = 0
      /\ \A u \in Thread : call[u].at \in Waits => call[u].fence # h
      /\ attached[h] = DOMAIN points[h]
      /\ UNCHANGED <<counter, points, signaled, attached, lock, parents, aborted>>
  BY <1>0 DEF MergeEnd, At, CallsSound, ReferencesSound
<1>2. /\ MaybeSignal(h, signaled[h], [call EXCEPT ![t] = c])
      /\ fds' = [fds EXCEPT ![h] = IF HasFd THEN 1 ELSE 0]
      /\ vfs' = IF HasFd THEN Null ELSE vfs
      /\ full' = (full \/ ~HasFd)
  BY DEF MergeEnd
<1>3. /\ c \in Call /\ c.todo = {} /\ ~c.asleep
      /\ c.at = IF HasFd THEN "idle" ELSE "detach"
      /\ c.at = "detach" => c.fence = h
  BY <1>1 DEF Idle, Doing, Call
<1> HIDE DEF h, c
<1>4. /\ call' \in [Thread -> Call] /\ Alike(call'[t], c)
      /\ \A u \in Thread : u # t => Alike(call'[u], call[u])
      /\ status' = [status EXCEPT ![h] = IF AllSignaled(h, signaled[h]) THEN "SIGNALED" ELSE @]
      /\ AllSignaled(h, signaled[h]) =>
           \A u \in Thread : call'[u].fence = h => ~call'[u].asleep
  BY <1>0, <1>1, <1>2, <1>3, MaybeSignalFacts DEF Moves
<1>5. /\ \A g \in Fence : g # h => status'[g] = status[g]
      /\ status'[h] = IF AllSignaled(h, signaled[h]) THEN "SIGNALED" ELSE status[h]
      /\ \A g \in Fence : (Alive(g)' <=> Alive(g)) /\ (status'[g] = "NONE" <=> status[g] = "NONE")
  BY <1>0, <1>1, <1>4 DEF TypeOK, Alive
<1>6. /\ fds' \in [Fence -> 0 .. MaxFds]
      /\ \A g \in Fence : g # h => fds'[g] = fds[g]
      /\ fds'[h] = IF HasFd THEN 1 ELSE 0
  <2>1. (IF HasFd THEN 1 ELSE 0) \in 0 .. MaxFds
    <3>1. CASE HasFd
      BY <1>0, <1>1, <3>1, FdRoom
    <3>2. CASE ~HasFd
      BY <3>2, ConstantsAssumption
    <3> QED BY <3>1, <3>2
  <2> QED BY <1>0, <1>1, <1>2, <2>1 DEF TypeOK
<1>7. vfs = t /\ \A u \in Thread : u # t => call[u].at \notin {"create", "attach", "detach"}
  BY <1>0, <1>1 DEF LocksHeld
<1>8. TypeOK'
  <2>1. status' \in [Fence -> {"NONE", "ACTIVE", "SIGNALED", "FREED"}]
    BY <1>0, <1>1, <1>4 DEF TypeOK
  <2>2. vfs' \in Thread \cup {Null} /\ full' \in BOOLEAN
    BY <1>0, <1>2 DEF TypeOK
  <2> QED BY <1>0, <1>1, <1>4, <1>6, <2>1, <2>2 DEF TypeOK, Call
<1>9. LocksHeld'
  <2>1. \A u \in Thread : call'[u].at \in {"mark", "signal"} =>
          call'[u].tl \in Timeline /\ lock'[call'[u].tl] = u
    BY <1>0, <1>1, <1>3, <1>4 DEF LocksHeld, Alike
  <2>2. \A u \in Thread : call'[u].at \in {"create", "attach", "detach"} <=> vfs' = u
    BY <1>2, <1>3, <1>4, <1>7, ConstantsAssumption DEF Alike
  <2>3. ASSUME ~full', NEW x \in Timeline, lock[x] # Null
        PROVE  call'[lock[x]].at \in {"mark", "signal"} /\ call'[lock[x]].tl = x
    <3>1. lock[x] \in Thread /\ call[lock[x]].at \in {"mark", "signal"} /\ call[lock[x]].tl = x
      BY <1>0, <1>2, <2>3 DEF TypeOK, LocksHeld
    <3> QED BY <1>1, <1>4, <3>1 DEF Alike
  <2> QED BY <1>1, <2>1, <2>2, <2>3 DEF LocksHeld
<1>10. CallsSound'
  BY <1>0, <1>1, <1>3, <1>4 DEF CallsSound, Alike, Waits
<1>11. PointsSigned'
  BY <1>0, <1>1, <1>5 DEF PointsSigned, AllSignaled
<1>12. ReferencesSound'
  <2>1. \A g \in Fence : Published(g)' <=> Published(g)
    BY <1>1, <1>5 DEF Published
  <2>2. \A g \in Fence : fds'[g] > 0 => Published(g)'
    BY <1>0, <1>1, <1>6, <2>1 DEF ReferencesSound, Published
  <2>3. \A u \in Thread : call'[u].at \in Waits =>
          /\ Published(call[u].fence)' /\ call'[u].fence # h
    BY <1>0, <1>1, <1>3, <1>4, <2>1 DEF ReferencesSound, CallsSound, Alike, Waits
  <2>4. \A u \in Thread : call'[u].at \in {"attach", "detach"} =>
          u = t /\ ~HasFd /\ call'[u].fence = h
    BY <1>3, <1>4, <1>7 DEF Alike
  <2>5. status'[h] \in {"ACTIVE", "SIGNALED"} /\ (~HasFd => fds'[h] = 0)
    BY <1>1, <1>5, <1>6 DEF Alive
  <2>6. \A u \in Thread : call'[u].at \in {"attach", "detach"} =>
          Alive(call[u].fence)' /\ fds'[call'[u].fence] = 0
    BY <2>4, <2>5 DEF Alive
  <2> QED BY <2>2, <2>3, <2>4, <2>6 DEF ReferencesSound
<1>13. LoopSound'
  BY <1>0, <1>1, <1>3, <1>4 DEF LoopSound, Alike
<1>14. DueMarked'
  <2>1. call[t].todo = {}
    BY <1>0, <1>1 DEF CallsSound
  <2> QED BY <1>0, <1>1, <1>4, <2>1 DEF DueMarked, Alike
<1>15. MarkedSignaled'
  <2> SUFFICES ASSUME NEW g \in Fence, Alive(g), AllSignaled(g, signaled[g]),
                      status'[g] # "SIGNALED"
               PROVE  Looking(g)'
    BY <1>1, <1>5 DEF MarkedSignaled, AllSignaled
  <2>1. g # h /\ status[g] # "SIGNALED"
    BY <1>5
  <2>2. PICK u \in Thread : call[u].at \in {"signal", "attach"} /\ call[u].fence = g
    BY <1>0, <2>1 DEF MarkedSignaled, Looking
  <2>3. u # t
    BY <2>1, <2>2 DEF h
  <2> QED BY <1>4, <2>2, <2>3 DEF Looking, Alike
<1>16. ParentsBefore' /\ NoAssertFails'
  BY <1>0, <1>1, <1>5 DEF ParentsBefore, NoAssertFails, TypeOK
<1>17. NoLostWakeup'
  <2> SUFFICES ASSUME NEW u \in Thread, call'[u].asleep
               PROVE  status'[call'[u].fence] = "ACTIVE"
    BY DEF NoLostWakeup
  <2>1. u # t /\ call[u].asleep /\ call'[u].fence = call[u].fence
    BY <1>3, <1>4 DEF Alike
  <2>2. status[call[u].fence] = "ACTIVE" /\ call[u].fence \in Fence
    BY <1>0, <2>1 DEF NoLostWakeup, CallsSound, Waits
  <2> QED BY <1>4, <1>5, <2>1, <2>2
<1> QED BY <1>8, <1>9, <1>10, <1>11, <1>12, <1>13, <1>14, <1>15, <1>16, <1>17 DEF Inv

\* The destructor detaches the points: no loop is at one of them, because it would
\* hold the lock of their timeline.
LEMMA DetachPointInv ==
  ASSUME Inv, NEW t \in Thread, At(t, "detach"), NEW tl \in attached[call[t].fence],
         CanDetach(tl), attached' = [attached EXCEPT ![call[t].fence] = @ \ {tl}],
         UNCHANGED <<counter, points, signaled, status, fds, vfs, lock, call, parents, full,
                     aborted>>
  PROVE  Inv'
<1>0. /\ TypeOK /\ LocksHeld /\ CallsSound /\ PointsSigned /\ ReferencesSound /\ LoopSound
      /\ DueMarked /\ MarkedSignaled /\ ParentsBefore /\ NoLostWakeup /\ NoAssertFails
  BY DEF Inv
<1> DEFINE f == call[t].fence
<1>1. /\ f \in Fence /\ Alive(f) /\ fds[f] = 0
      /\ \A u \in Thread : call[u].at \in Waits => call[u].fence # f
      /\ lock[tl] = Null
  BY <1>0 DEF At, CallsSound, ReferencesSound, CanDetach
<1>2. /\ attached'[f] = attached[f] \ {tl}
      /\ \A g \in Fence : g # f => attached'[g] = attached[g]
  BY <1>0, <1>1 DEF TypeOK
<1>3. TypeOK'
  <2>1. attached' \in [Fence -> SUBSET Timeline]
    BY <1>0, <1>1 DEF TypeOK
  <2> QED BY <1>0, <2>1 DEF TypeOK
<1> HIDE DEF f
<1>4. LocksHeld' /\ CallsSound' /\ ParentsBefore' /\ NoAssertFails' /\ NoLostWakeup'
      /\ MarkedSignaled'
  BY <1>0 DEF LocksHeld, CallsSound, ParentsBefore, NoAssertFails, NoLostWakeup,
     MarkedSignaled, Looking, Alive, AllSignaled
<1>5. PointsSigned'
  BY <1>0, <1>1, <1>2 DEF PointsSigned, Alive, AllSignaled
<1>6. ReferencesSound'
  <2>1. \A g \in Fence : g # f => (Published(g)' <=> Published(g))
    BY <1>2 DEF Published, Alive
  <2>2. \A g \in Fence : fds[g] > 0 => Published(g)'
    BY <1>0, <1>1, <2>1 DEF ReferencesSound
  <2>3. \A u \in Thread : call[u].at \in Waits => Published(call[u].fence)'
    BY <1>0, <1>1, <2>1 DEF ReferencesSound, CallsSound
  <2> QED BY <1>0, <1>1, <2>2, <2>3 DEF ReferencesSound, Alive
<1>7. LoopSound'
  <2>1. \A u \in Thread : call[u].at \in {"mark", "signal"} => call[u].tl # tl
    BY <1>0, <1>1, ConstantsAssumption DEF LocksHeld
  <2>2. \A u \in Thread : call[u].todo # {} => call[u].tl # tl
    BY <1>0, <2>1 DEF CallsSound
  <2> QED BY <1>0, <1>1, <1>2, <2>1, <2>2, Types DEF LoopSound, CallsSound, Call
<1>8. DueMarked'
  BY <1>0, <1>1, <1>2 DEF DueMarked
<1> QED BY <1>3, <1>4, <1>5, <1>6, <1>7, <1>8 DEF Inv

\* With no point attached the object is freed: nothing refers to it.
LEMMA DetachEndInv ==
  ASSUME Inv, NEW t \in Thread, At(t, "detach"), attached[call[t].fence] = {},
         status' = [status EXCEPT ![call[t].fence] = "FREED"],
         vfs' = Null, call' = [call EXCEPT ![t] = Idle],
         UNCHANGED <<attached, counter, points, signaled, fds, lock, parents, full, aborted>>
  PROVE  Inv'
<1>0. /\ TypeOK /\ LocksHeld /\ CallsSound /\ PointsSigned /\ ReferencesSound /\ LoopSound
      /\ DueMarked /\ MarkedSignaled /\ ParentsBefore /\ NoLostWakeup /\ NoAssertFails
  BY DEF Inv
<1> DEFINE f == call[t].fence
<1>1. /\ f \in Fence /\ Alive(f) /\ fds[f] = 0 /\ call[t].at = "detach" /\ attached[f] = {}
      /\ \A u \in Thread : call[u].at \in Waits => call[u].fence # f
      /\ vfs = t
  BY <1>0 DEF At, CallsSound, ReferencesSound, LocksHeld
<1>2. status'[f] = "FREED" /\ \A g \in Fence : g # f => status'[g] = status[g]
  BY <1>0, <1>1 DEF TypeOK
<1>3. Idle \in Call /\ Idle.at = "idle" /\ Idle.todo = {} /\ ~Idle.asleep
  BY DEF Idle, Call
<1>4. /\ call' \in [Thread -> Call] /\ Alike(call'[t], Idle)
      /\ \A u \in Thread : u # t => Alike(call'[u], call[u])
  BY <1>0, <1>3, GoesMoves DEF Moves
<1>5. TypeOK'
  <2>1. status' \in [Fence -> {"NONE", "ACTIVE", "SIGNALED", "FREED"}]
    BY <1>0, <1>1 DEF TypeOK
  <2> QED BY <1>0, <1>4, <2>1 DEF TypeOK, Call
<1> HIDE DEF f
<1>6. \A u \in Thread : u # t => call[u].at \notin {"create", "attach", "detach"}
  BY <1>0, <1>1 DEF LocksHeld
<1>7. LocksHeld'
  <2>1. \A u \in Thread : call'[u].at \in {"mark", "signal"} =>
          call'[u].tl \in Timeline /\ lock'[call'[u].tl] = u
    BY <1>0, <1>3, <1>4 DEF LocksHeld, Alike
  <2>2. \A u \in Thread : call'[u].at \in {"create", "attach", "detach"} <=> vfs' = u
    BY <1>3, <1>4, <1>6, ConstantsAssumption DEF Alike
  <2>3. ASSUME ~full, NEW x \in Timeline, lock[x] # Null
        PROVE  call'[lock[x]].at \in {"mark", "signal"} /\ call'[lock[x]].tl = x
    <3>1. lock[x] \in Thread /\ call[lock[x]].at \in {"mark", "signal"} /\ call[lock[x]].tl = x
      BY <1>0, <2>3 DEF TypeOK, LocksHeld
    <3> QED BY <1>1, <1>4, <3>1 DEF Alike
  <2> QED BY <2>1, <2>2, <2>3 DEF LocksHeld
<1>8. CallsSound'
  BY <1>0, <1>3, <1>4 DEF CallsSound, Alike, Waits
<1>9. PointsSigned'
  BY <1>0, <1>1, <1>2 DEF PointsSigned, Alive, AllSignaled
<1>10. ReferencesSound'
  <2>1. \A g \in Fence : g # f => (Published(g)' <=> Published(g))
    BY <1>2 DEF Published, Alive
  <2>2. \A g \in Fence : fds[g] > 0 => Published(g)'
    BY <1>0, <1>1, <2>1 DEF ReferencesSound
  <2>3. \A u \in Thread : call'[u].at \in Waits => Published(call[u].fence)'
    BY <1>0, <1>1, <1>3, <1>4, <2>1 DEF ReferencesSound, CallsSound, Alike, Waits
  <2>4. \A u \in Thread : call'[u].at \notin {"attach", "detach"}
    BY <1>3, <1>4, <1>6 DEF Alike
  <2> QED BY <2>2, <2>3, <2>4 DEF ReferencesSound
<1>11. LoopSound'
  BY <1>0, <1>3, <1>4 DEF LoopSound, Alike
<1>12. DueMarked'
  <2>1. call[t].todo = {}
    BY <1>0, <1>1 DEF CallsSound
  <2> QED BY <1>0, <1>4, <2>1 DEF DueMarked, Alike
<1>13. MarkedSignaled'
  <2>1. \A g \in Fence : Looking(g) => Looking(g)'
    BY <1>1, <1>4 DEF Looking, Alike
  <2> QED BY <1>0, <1>2, <2>1 DEF MarkedSignaled, Alive, AllSignaled
<1>14. ParentsBefore' /\ NoAssertFails'
  BY <1>0, <1>2 DEF ParentsBefore, NoAssertFails, TypeOK
<1>15. NoLostWakeup'
  BY <1>0, <1>1, <1>2, <1>3, <1>4 DEF NoLostWakeup, CallsSound, Alike, Waits
<1> QED BY <1>5, <1>7, <1>8, <1>9, <1>10, <1>11, <1>12, <1>13, <1>14, <1>15 DEF Inv

LEMMA NextInv == Inv /\ [Next]_vars => Inv'
<1> SUFFICES ASSUME Inv, [Next]_vars PROVE Inv'
  OBVIOUS
<1>1. CASE UNCHANGED vars
  <2>1. UNCHANGED <<counter, points, signaled, attached, status, fds, vfs, lock, call, parents,
                    full, aborted>>
    BY <1>1 DEF vars, fence
  <2> QED BY <2>1 DEF Inv, TypeOK, LocksHeld, CallsSound, PointsSigned, ReferencesSound,
          LoopSound, DueMarked, MarkedSignaled, ParentsBefore, NoLostWakeup, NoAssertFails,
          Published, Looking, Alive, AllSignaled
<1>2. ASSUME NEW t \in Thread, Step(t)
      PROVE  Inv'
  <2>1. Detach(t) => Inv'
    BY DetachPointInv, DetachEndInv DEF Detach
  <2> QED BY <1>2, <2>1, CreateBeginInv, CreateEndInv, IncrementBeginInv, IncrementMarkInv,
          IncrementSignalInv, MergeBeginInv, MergeAttachInv, MergeEndInv, WaitBeginInv,
          WaitRoundInv, WaitTimeoutInv, WaitReturnInv, CloseInv DEF Step
<1> QED BY <1>1, <1>2 DEF Next

-----------------------------------------------------------------------------
(* Theorems *)

\* The invariant holds throughout.
LEMMA InvHolds == Spec => []Inv
BY InitInv, NextInv, PTL DEF Spec

\* IncrementCounter's raw pointers to fences and sync points are valid as long as
\* it uses them, whoever closes the fences meanwhile.
THEOREM PointersStaySound == Spec => []PointersSound
<1>1. Inv => PointersSound
  <2> SUFFICES ASSUME Inv PROVE NoDanglingFence
    BY DEF Inv, PointersSound
  <2>1. \A t \in Thread : \A f \in call[t].todo : f \in Fence
    BY Types DEF Inv, Call
  <2> QED BY <2>1 DEF Inv, NoDanglingFence, LoopSound, PointsSigned, CallsSound
<1> QED BY <1>1, InvHolds, PTL

\* A fence is signalled only after all its timelines, and those of the fences it
\* was merged from, have reached its points.
THEOREM NotSignalledEarly == Spec => []NeverEarly
<1>1. Inv => NeverEarly
  <2> SUFFICES ASSUME Inv, NEW f \in Fence, status[f] = "SIGNALED"
               PROVE  Reached(f) /\ \A p \in parents[f] : Reached(p)
    BY DEF NeverEarly
  <2>0. TypeOK /\ PointsSigned /\ ParentsBefore
    BY DEF Inv
  <2>1. \A tl \in DOMAIN points[f] : points[f][tl] <= counter[tl]
    BY <2>0 DEF PointsSigned, AllSignaled
  <2>2. Reached(f)
    BY <2>0, <2>1, Types DEF Reached
  <2>3. ASSUME NEW p \in parents[f], NEW tl \in DOMAIN points[p]
        PROVE  counter[tl] >= points[p][tl]
    <3>1. p \in Fence
      BY <2>0 DEF TypeOK
    <3>2. tl \in DOMAIN points[f] /\ points[p][tl] <= points[f][tl]
      BY <2>0 DEF ParentsBefore
    <3>3. points[p][tl] \in Nat /\ points[f][tl] \in Nat /\ counter[tl] \in Nat
      BY <2>0, <3>1, <3>2, Types
    <3> QED BY <2>1, <3>2, <3>3
  <2> QED BY <2>2, <2>3 DEF Reached
<1> QED BY <1>1, InvHolds, PTL

\* A fence that somebody can still wait for and whose timelines have reached its
\* points is signalled, or a thread is about to look at it.
THEOREM SignalNotForgotten == Spec => []NeverForgotten
<1>1. Inv => NeverForgotten
  <2> SUFFICES ASSUME Inv, NEW f \in Fence, fds[f] > 0 \/ Holders(f) # {}, Reached(f), ~Busy(f)
               PROVE  status[f] = "SIGNALED"
    BY DEF NeverForgotten
  <2>0. TypeOK /\ ReferencesSound /\ DueMarked /\ MarkedSignaled
    BY DEF Inv
  <2>1. Published(f)
    BY <2>0 DEF ReferencesSound, Holders, Waits
  <2>2. ASSUME NEW tl \in DOMAIN points[f]
        PROVE  tl \in signaled[f]
    <3>1. tl \in Timeline /\ tl \in attached[f] /\ points[f][tl] <= counter[tl]
      BY <2>0, <2>1, Types DEF Published, Reached
    <3> QED BY <2>0, <3>1 DEF DueMarked, Busy
  <2>3. ~Looking(f)
    BY DEF Looking, Busy
  <2> QED BY <2>0, <2>1, <2>2, <2>3 DEF MarkedSignaled, Published, AllSignaled
<1> QED BY <1>1, InvHolds, PTL

\* Who sleeps in SYNC_IOC_WAIT waits for a fence that exists and is not signalled.
THEOREM NoWakeupLost == Spec => []NoLostWakeup
<1>1. Inv => NoLostWakeup
  BY DEF Inv
<1> QED BY <1>1, InvHolds, PTL

\* MarkAsSignaled finds every sync point without a timestamp.
THEOREM AssertionsHold == Spec => []NoAssertFails
<1>1. Inv => NoAssertFails
  BY DEF Inv
<1> QED BY <1>1, InvHolds, PTL

\* Locks are taken in the order of the comment in fence_stream.cc, unless
\* descriptors have run out.
THEOREM LocksOrdered == Spec => []LockHierarchy
<1>1. Inv => LockHierarchy
  <2> SUFFICES ASSUME Inv PROVE LockHierarchy
    OBVIOUS
  <2>1. vfs # Null => call[vfs].at \in {"create", "attach", "detach"}
    BY DEF Inv, TypeOK, LocksHeld
  <2> QED BY <2>1 DEF Inv, LocksHeld, LockHierarchy
<1> QED BY <1>1, InvHolds, PTL
=============================================================================

------------------------------- MODULE Fence -------------------------------
(***************************************************************************)
(* Timelines, sync points and fences                                       *)
(* (src/posix_translation/fence_stream.cc).                                *)
(*                                                                         *)
(* A fence is a file with at most one sync point per timeline; it is       *)
(* signalled when the counters of these timelines have reached its points. *)
(* The code has four levels of locks.  The locks of fences and of sync     *)
(* points are leaves, taken and released without taking another, so what   *)
(* is done under them is one step; vfs (the file system lock) and the      *)
(* locks of the timelines are held over several steps and are variables.   *)
(* IsSignaled() is read without a lock: a point never becomes unsignalled, *)
(* so reading all points of a fence is as good as one step.                *)
(***************************************************************************)
EXTENDS Integers, FiniteSets

CONSTANTS
    Thread,
    Timeline,
    MaxFence,     \* bound on the FenceStream objects made
    MaxCounter,   \* bound on counters and signaling times
    MaxFds,       \* the descriptors there are for fences
    Null

ASSUME ConstantsAssumption ==
    /\ IsFiniteSet(Thread) /\ IsFiniteSet(Timeline)
    /\ MaxFence \in Nat /\ MaxCounter \in Nat /\ MaxFds \in Nat
    /\ Null \notin Thread \cup Timeline \cup Nat

VARIABLES
    counter,      \* counter_ of a timeline
    points,       \* signaling times of the sync points of a fence
    signaled,     \* the timelines whose point in a fence has a timestamp
    attached,     \* the timelines that have the point in sync_points_
    status,       \* status_, "NONE" before and "FREED" after the object's life
    fds,          \* number of descriptors of a fence
    vfs,          \* the thread that holds the file system lock
    lock,         \* the thread that holds mutex_ of a timeline
    call,         \* what a thread is doing
    parents,      \* history: the two fences a fence was merged from
    full,         \* history: a fence was refused a descriptor
    aborted       \* an ALOG_ASSERT failed

fence == <<points, signaled, attached, status, fds>>
vars == <<counter, fence, vfs, lock, call, parents, full, aborted>>

\* The FenceStream objects, numbered in the order they are made.
Fence == 1 .. MaxFence
Times == 0 .. MaxCounter
Idle == [at |-> "idle", fence |-> Null, tl |-> Null, todo |-> {}, asleep |-> FALSE]
Doing(where, f, tl, todo) ==
    [at |-> where, fence |-> f, tl |-> tl, todo |-> todo, asleep |-> FALSE]
Waiting(f) == [at |-> "waiting", fence |-> f, tl |-> Null, todo |-> {}, asleep |-> TRUE]
Awake(c) == Doing(c.at, c.fence, c.tl, c.todo)

TypeOK ==
    /\ counter \in [Timeline -> Times]
    /\ points \in [Fence -> UNION {[tls -> Times] : tls \in SUBSET Timeline}]
    /\ signaled \in [Fence -> SUBSET Timeline]
    /\ attached \in [Fence -> SUBSET Timeline]
    /\ status \in [Fence -> {"NONE", "ACTIVE", "SIGNALED", "FREED"}]
    /\ fds \in [Fence -> 0 .. MaxFds]
    /\ vfs \in Thread \cup {Null}
    /\ lock \in [Timeline -> Thread \cup {Null}]
    /\ call \in [Thread ->
         [at : {"idle", "create", "mark", "signal", "attach", "detach", "wait",
                "waiting", "return"},
          fence : Fence \cup {Null}, tl : Timeline \cup {Null},
          todo : SUBSET Fence, asleep : BOOLEAN]]
    /\ parents \in [Fence -> SUBSET Fence]
    /\ full \in BOOLEAN /\ aborted \in BOOLEAN

Init ==
    /\ counter = [tl \in Timeline |-> 0]
    /\ points = [f \in Fence |-> << >>]
    /\ signaled = [f \in Fence |-> {}]
    /\ attached = [f \in Fence |-> {}]
    /\ status = [f \in Fence |-> "NONE"]
    /\ fds = [f \in Fence |-> 0]
    /\ vfs = Null
    /\ lock = [tl \in Timeline |-> Null]
    /\ call = [t \in Thread |-> Idle]
    /\ parents = [f \in Fence |-> {}]
    /\ full = FALSE /\ aborted = FALSE

-----------------------------------------------------------------------------
(* Descriptors and references *)

At(t, where) == call[t].at = where

\* VirtualFileSystem::ioctl keeps a reference to its stream over the call.
Holders(f) == {t \in Thread : call[t].fence = f /\ call[t].at \in {"wait", "waiting", "return"}}

InUse == {d \in Fence \X (1 .. MaxFds) : d[2] <= fds[d[1]]}

\* Mutant of HasFd: one descriptor too many.
HasFdMutant == Cardinality(InUse) <= MaxFds

\* AddFileStreamLocked finds an unused descriptor.
HasFd == Cardinality(InUse) < MaxFds

\* The object that new FenceStream() returns.
New == {f \in Fence : \A g \in Fence : status[g] = "NONE" <=> g >= f}

-----------------------------------------------------------------------------
(* Sync points *)

\* Mutant of Attach: a point that is already due is not marked.
AttachMutant(f, tl) == attached' = [attached EXCEPT ![f] = @ \cup {tl}] /\ UNCHANGED signaled

\* AttachSyncPointLocked: the point is marked at once when it is due.
Attach(f, tl) ==
    /\ attached' = [attached EXCEPT ![f] = @ \cup {tl}]
    /\ signaled' = [signaled EXCEPT
                      ![f] = IF points[f][tl] <= counter[tl] THEN @ \cup {tl} ELSE @]

\* GetSignaledSyncPointCountLocked() = sync_points_.size(), where marked are the
\* points of f with a timestamp.
AllSignaled(f, marked) == DOMAIN points[f] \subseteq marked

\* Mutant of MaybeSignal: Signal() in place of Broadcast().
MaybeSignalMutant(f, marked, calls) ==
    /\ status' = [status EXCEPT ![f] = IF AllSignaled(f, marked) THEN "SIGNALED" ELSE @]
    /\ \E v \in Thread :
         call' = [u \in Thread |-> IF AllSignaled(f, marked) /\ u = v /\ calls[u].fence = f
                                     THEN Awake(calls[u]) ELSE calls[u]]

\* MaybeSignal: once all points are signalled the threads that wait are woken.
\* calls is what the threads do after the step otherwise.
MaybeSignal(f, marked, calls) ==
    /\ status' = [status EXCEPT ![f] = IF AllSignaled(f, marked) THEN "SIGNALED" ELSE @]
    /\ call' = [u \in Thread |-> IF AllSignaled(f, marked) /\ calls[u].fence = f
                                   THEN Awake(calls[u]) ELSE calls[u]]

-----------------------------------------------------------------------------
(* Timeline::CreateFence *)

\* Takes the file system lock.
CreateBegin(t) ==
    /\ At(t, "idle") /\ vfs = Null /\ New # {}
    /\ vfs' = t
    /\ \E tl \in Timeline : call' = [call EXCEPT ![t] = Doing("create", Null, tl, {})]
    /\ UNCHANGED <<counter, fence, lock, parents, full, aborted>>

\* Takes the lock of the timeline: the fence is made, attached, maybe signalled
\* and given a descriptor.  Without one the fence is destroyed while the lock of
\* the timeline is held.
CreateEnd(t) ==
    /\ At(t, "create") /\ lock[call[t].tl] = Null
    /\ \E f \in New, time \in Times :
         LET tl == call[t].tl
             due == time <= counter[tl] IN
         /\ points' = [points EXCEPT ![f] = [x \in {tl} |-> time]]
         /\ attached' = [attached EXCEPT ![f] = {tl}]
         /\ signaled' = [signaled EXCEPT ![f] = IF due THEN {tl} ELSE {}]
         /\ status' = [status EXCEPT ![f] = IF due THEN "SIGNALED" ELSE "ACTIVE"]
         /\ IF HasFd
              THEN /\ fds' = [fds EXCEPT ![f] = 1]
                   /\ vfs' = Null
                   /\ call' = [call EXCEPT ![t] = Idle]
                   /\ UNCHANGED <<lock, full>>
              ELSE /\ call' = [call EXCEPT ![t] = Doing("detach", f, Null, {})]
                   /\ lock' = [lock EXCEPT ![tl] = t]
                   /\ full' = TRUE
                   /\ UNCHANGED <<fds, vfs>>
    /\ UNCHANGED <<counter, parents, aborted>>

-----------------------------------------------------------------------------
(* Timeline::IncrementCounter *)

\* Mutant of Due: upper_bound and lower_bound are off by one.
DueMutant(tl, old, new) ==
    {f \in Fence : tl \in attached[f] /\ points[f][tl] \in old .. new - 1}

\* The fences whose sync points are in (old, new].
Due(tl, old, new) ==
    {f \in Fence : tl \in attached[f] /\ points[f][tl] \in old + 1 .. new}

Unlocked(tl) == [lock EXCEPT ![tl] = Null]

\* The rest of the loop over the points found.
Loop(t, tl, todo) ==
    IF todo = {} THEN Idle ELSE Doing("mark", Null, tl, todo)

IncrementBegin(t) ==
    /\ At(t, "idle")
    /\ \E tl \in Timeline : \E new \in counter[tl] + 1 .. MaxCounter :
         LET due == Due(tl, counter[tl], new) IN
         /\ lock[tl] = Null
         /\ counter' = [counter EXCEPT ![tl] = new]
         /\ lock' = [lock EXCEPT ![tl] = IF due = {} THEN Null ELSE t]
         /\ call' = [call EXCEPT ![t] = Loop(t, tl, due)]
    /\ UNCHANGED <<fence, vfs, parents, full, aborted>>

\* The next point, the earliest first: MarkAsSignaled asserts that it is not
\* signalled yet.
IncrementMark(t) ==
    /\ At(t, "mark")
    /\ LET tl == call[t].tl IN
       \E f \in call[t].todo :
         /\ \A g \in call[t].todo : points[f][tl] <= points[g][tl]
         /\ signaled' = [signaled EXCEPT ![f] = @ \cup {tl}]
         /\ aborted' = (tl \in signaled[f])
         /\ call' = [call EXCEPT ![t] = Doing("signal", f, tl, call[t].todo \ {f})]
    /\ UNCHANGED <<counter, points, attached, status, fds, vfs, lock, parents, full>>

IncrementSignal(t) ==
    /\ At(t, "signal")
    /\ LET tl == call[t].tl
           todo == call[t].todo IN
         /\ MaybeSignal(call[t].fence, signaled[call[t].fence],
                        [call EXCEPT ![t] = Loop(t, tl, todo)])
         /\ lock' = IF todo = {} THEN Unlocked(tl) ELSE lock
    /\ UNCHANGED <<counter, points, signaled, attached, fds, vfs, parents, full, aborted>>

-----------------------------------------------------------------------------
(* SYNC_IOC_MERGE *)

\* Mutant of Merged: the point of the first fence always wins.
MergedMutant(p, q) ==
    [tl \in DOMAIN p \cup DOMAIN q |-> IF tl \in DOMAIN p THEN p[tl] ELSE q[tl]]

\* Of two points on the same timeline the later one is used.
Merged(p, q) ==
    [tl \in DOMAIN p \cup DOMAIN q |->
       IF tl \notin DOMAIN q \/ (tl \in DOMAIN p /\ p[tl] >= q[tl]) THEN p[tl] ELSE q[tl]]

\* Mutant of CopiedStamps: a timestamp of either point.
CopiedStampsMutant(f, g) == signaled[f] \cup signaled[g]

\* Timelines whose point in the merged fence is copied with a timestamp.
CopiedStamps(f, g) ==
    {tl \in DOMAIN points[f] \cup DOMAIN points[g] :
       IF tl \notin DOMAIN points[g]
            \/ (tl \in DOMAIN points[f] /\ points[f][tl] >= points[g][tl])
         THEN tl \in signaled[f] ELSE tl \in signaled[g]}

\* The file system lock is held to the end.  Merging a fence with itself
\* duplicates the descriptor.
MergeBegin(t) ==
    /\ At(t, "idle") /\ vfs = Null
    /\ \E f, g \in {x \in Fence : fds[x] > 0} :
         \/ /\ f = g /\ HasFd
            /\ fds' = [fds EXCEPT ![f] = @ + 1]
            /\ UNCHANGED <<points, signaled, attached, status, vfs, call, parents>>
         \/ /\ f # g
            /\ \E h \in New :
                 /\ points' = [points EXCEPT ![h] = Merged(points[f], points[g])]
                 /\ signaled' = [signaled EXCEPT ![h] = CopiedStamps(f, g)]
                 /\ status' = [status EXCEPT ![h] = "ACTIVE"]
                 /\ call' = [call EXCEPT ![t] = Doing("attach", h, Null, {})]
                 /\ parents' = [parents EXCEPT ![h] = {f, g}]
            /\ vfs' = t
            /\ UNCHANGED <<attached, fds>>
    /\ UNCHANGED <<counter, lock, full, aborted>>

\* CreateFence attaches one point after the other, each under the lock of its
\* timeline.
MergeAttach(t) ==
    /\ At(t, "attach")
    /\ LET h == call[t].fence IN
       \E tl \in DOMAIN points[h] \ attached[h] : lock[tl] = Null /\ Attach(h, tl)
    /\ UNCHANGED <<counter, points, status, fds, vfs, lock, call, parents, full, aborted>>

\* MaybeSignal after the last one, then the descriptor; EMFILE destroys the fence.
MergeEnd(t) ==
    /\ At(t, "attach")
    /\ LET h == call[t].fence IN
         /\ attached[h] = DOMAIN points[h]
         /\ MaybeSignal(h, signaled[h],
              [call EXCEPT ![t] = IF HasFd THEN Idle ELSE Doing("detach", h, Null, {})])
         /\ fds' = [fds EXCEPT ![h] = IF HasFd THEN 1 ELSE 0]
         /\ vfs' = IF HasFd THEN Null ELSE vfs
         /\ full' = (full \/ ~HasFd)
    /\ UNCHANGED <<counter, points, signaled, attached, lock, parents, aborted>>

-----------------------------------------------------------------------------
(* SYNC_IOC_WAIT *)

\* Mutant of WaitBegin: the file system lock is kept over the wait.
WaitBeginMutant(t) ==
    /\ At(t, "idle") /\ vfs = Null
    /\ \E f \in Fence : /\ fds[f] > 0
                        /\ call' = [call EXCEPT ![t] = Doing("wait", f, Null, {})]
    /\ vfs' = t
    /\ UNCHANGED <<counter, fence, lock, parents, full, aborted>>

\* Finds the stream, then gives the file system lock up.
WaitBegin(t) ==
    /\ At(t, "idle") /\ vfs = Null
    /\ \E f \in Fence : /\ fds[f] > 0
                        /\ call' = [call EXCEPT ![t] = Doing("wait", f, Null, {})]
    /\ UNCHANGED <<counter, fence, vfs, lock, parents, full, aborted>>

\* Under the fence's lock: returns when it is signalled, else sleeps.
WaitRound(t) ==
    /\ call[t].at \in {"wait", "waiting"} /\ ~call[t].asleep
    /\ call' = [call EXCEPT ![t] =
                  IF status[@.fence] = "SIGNALED"
                    THEN Doing("return", @.fence, Null, {})
                    ELSE Waiting(@.fence)]
    /\ UNCHANGED <<counter, fence, vfs, lock, parents, full, aborted>>

\* The timeout, at any time: ETIME, or success if it was signalled meanwhile.
WaitTimeout(t) ==
    /\ At(t, "waiting")
    /\ call' = [call EXCEPT ![t] = Doing("return", @.fence, Null, {})]
    /\ UNCHANGED <<counter, fence, vfs, lock, parents, full, aborted>>

\* Nothing refers to f: count descriptors, and the calls of other threads.
LastReference(f, count, others) == count = 0 /\ Holders(f) \subseteq {others}

\* Takes the file system lock again and drops the reference to the stream.
WaitReturn(t) ==
    /\ At(t, "return") /\ vfs = Null
    /\ LET f == call[t].fence IN
       IF LastReference(f, fds[f], t)
         THEN /\ call' = [call EXCEPT ![t] = Doing("detach", f, Null, {})]
              /\ vfs' = t
         ELSE /\ call' = [call EXCEPT ![t] = Idle]
              /\ UNCHANGED vfs
    /\ UNCHANGED <<counter, fence, lock, parents, full, aborted>>

-----------------------------------------------------------------------------
(* close and ~FenceStream *)

Close(t) ==
    /\ At(t, "idle") /\ vfs = Null
    /\ \E f \in Fence :
         /\ fds[f] > 0
         /\ fds' = [fds EXCEPT ![f] = @ - 1]
         /\ IF LastReference(f, fds[f] - 1, t)
              THEN /\ call' = [call EXCEPT ![t] = Doing("detach", f, Null, {})]
                   /\ vfs' = t
              ELSE UNCHANGED <<call, vfs>>
    /\ UNCHANGED <<counter, points, signaled, attached, status, lock, parents, full, aborted>>

\* Mutant of CanDetach: the timeline's lock is not taken.
CanDetachMutant(tl) == TRUE

\* DetachSyncPoint takes the lock of the timeline.
CanDetach(tl) == lock[tl] = Null

\* The destructor detaches point by point, then the object is freed.
Detach(t) ==
    /\ At(t, "detach")
    /\ LET f == call[t].fence IN
       \/ /\ \E tl \in attached[f] : /\ CanDetach(tl)
                                     /\ attached' = [attached EXCEPT ![f] = @ \ {tl}]
          /\ UNCHANGED <<status, vfs, call>>
       \/ /\ attached[f] = {}
          /\ status' = [status EXCEPT ![f] = "FREED"]
          /\ vfs' = Null
          /\ call' = [call EXCEPT ![t] = Idle]
          /\ UNCHANGED attached
    /\ UNCHANGED <<counter, points, signaled, fds, lock, parents, full, aborted>>

-----------------------------------------------------------------------------
Step(t) ==
    \/ CreateBegin(t) \/ CreateEnd(t)
    \/ IncrementBegin(t) \/ IncrementMark(t) \/ IncrementSignal(t)
    \/ MergeBegin(t) \/ MergeAttach(t) \/ MergeEnd(t)
    \/ WaitBegin(t) \/ WaitRound(t) \/ WaitTimeout(t) \/ WaitReturn(t)
    \/ Close(t) \/ Detach(t)

Next == ~aborted /\ \E t \in Thread : Step(t)

Spec == Init /\ [][Next]_vars

-----------------------------------------------------------------------------
(* Properties *)

Alive(f) == status[f] \in {"ACTIVE", "SIGNALED"}
Reached(f) == \A tl \in DOMAIN points[f] : counter[tl] >= points[f][tl]

\* Threads that are about to look at the points of f.
Busy(f) == \E t \in Thread :
    \/ call[t].at = "signal" /\ call[t].fence = f
    \/ f \in call[t].todo
    \/ call[t].at = "attach" /\ call[t].fence = f

\* A fence is never signalled early: not even one that is signalled by a
\* timeline while SYNC_IOC_MERGE is still attaching its other points.  "Waiting
\* the merged fence is equal to waiting both passed two fences" (fence_stream.h):
\* a merged fence is signalled after both of its parents' points are reached.
NeverEarly == \A f \in Fence :
    status[f] = "SIGNALED" => Reached(f) /\ \A p \in parents[f] : Reached(p)

\* ... and never forgotten: when the timelines have reached all its points and
\* nobody is about to look, it is signalled, whichever of the increments, the
\* copy of the points and their attachment came first.
NeverForgotten == \A f \in Fence :
    (fds[f] > 0 \/ Holders(f) # {}) /\ Reached(f) /\ ~Busy(f) => status[f] = "SIGNALED"

\* A thread asleep in SYNC_IOC_WAIT waits for a fence that is not signalled, and
\* that still exists.
NoLostWakeup == \A t \in Thread :
    call[t].asleep => status[call[t].fence] = "ACTIVE"

\* IncrementCounter follows raw pointers to fences and sync points: none of them
\* has been freed, because the destructor needs the lock of the timeline.
NoDanglingFence == \A t \in Thread :
    /\ \A f \in call[t].todo : Alive(f) /\ call[t].tl \in attached[f]
    /\ call[t].at = "signal" => Alive(call[t].fence)

\* No pointer to a fence or a sync point outlives it, and fences and descriptors
\* are what their calls take them for.
PointersSound == TypeOK /\ NoDanglingFence

\* MarkAsSignaled is called once for each sync point, though points are copied
\* with or without their timestamp and timelines go on while they are copied.
NoAssertFails == ~aborted

\* The lock hierarchy of the comment in fence_stream.cc: who holds a timeline's
\* lock waits for no other lock of these, who holds the file system lock waits
\* for timelines only, and nobody sleeps with either.  The exception is
\* Timeline::CreateFence without a descriptor, which destroys the fence, and so
\* waits for the timeline's lock, while it holds it.
LockHierarchy ==
    /\ \A tl \in Timeline : lock[tl] # Null /\ ~full =>
         call[lock[tl]].at \in {"mark", "signal"}
    /\ vfs # Null => call[vfs].at \in {"create", "attach", "detach"}
=============================================================================

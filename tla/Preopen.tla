------------------------------- MODULE Preopen -------------------------------
(***************************************************************************)
(* The preopen cache of VirtualFileSystem (virtual_file_system.cc): files  *)
(* scheduled at start-up are opened by a thread of their own, open() for   *)
(* reading takes the cached descriptor or waits for it, and the calls that *)
(* may change what a path names invalidate the entries of that very path:  *)
(* open for writing, remove, unlink and rename do, mkdir and rmdir do not. *)
(*                                                                         *)
(* Locked sections are steps.  The mutex is released while Pepper opens,   *)
(* removes or renames a file (PepperFileHandler), and in Wait().  The tree *)
(* has two levels.                                                         *)
(***************************************************************************)
EXTENDS Integers, Sequences, FiniteSets, PathTree

CONSTANTS
    Caller,        \* threads that call open, remove, unlink, rename, mkdir, rmdir
    Listed,        \* the paths that the list of preopens may name
    MaxScheduled,  \* bound on scheduled_preopens_
    MaxFile,       \* bound on the files created
    MaxChanges     \* bound on the calls that change files

ASSUME PreopenAssumption ==
    Listed \subseteq Path /\ MaxScheduled \in Nat /\ MaxFile \in Nat \ {0} /\ MaxChanges \in Nat

\* Values of an entry of preopened_fds_ and of a path of the file system: a
\* descriptor is the number of the file it was opened on.
Pending == -2     \* kPreopenPendingFd
NoFile == -1      \* the error that open() returned; the path does not exist
Folder == -3      \* a directory: its stream keeps nothing but the path
Gone == 0         \* the entry has been erased

VARIABLES
    scheduled,  \* scheduled_preopens_
    entry,      \* preopened_fds_: the entry made with each scheduled path
    started,    \* preopen_started_
    pos,        \* PerformPreopens: index of the path being handled
    it,         \* PerformPreopens: the entry it points at, 0 for none
    result,     \* what Pepper's open has found, Pending before it has
    fs,         \* the file or directory each path names
    files,      \* number of files ever created
    changes,    \* calls so far that change files
    activity,   \* what a thread does while the mutex is released
    dangling,   \* an erased entry was written through its iterator
    disturbed,  \* history: a pending entry has been erased
    overlooked  \* history: paths that changed, or whose preopen failed, without
                \* the cache being told

preopens == <<scheduled, entry, started, pos, it, result>>
preopenVars == <<preopens, fs, files, changes, activity, dangling, disturbed, overlooked>>

Resting == [at |-> "idle", paths |-> << >>, asleep |-> FALSE]
Doing(what, paths) == [at |-> what, paths |-> paths, asleep |-> FALSE]
Waiting(p) == [at |-> "waiting", paths |-> <<p>>, asleep |-> TRUE]

PreopenTypeOK ==
    /\ scheduled \in Seq(Path)
    /\ entry \in Seq({Pending, NoFile, Folder, Gone} \cup 1 .. MaxFile)
    /\ Len(entry) = Len(scheduled)
    /\ started \in BOOLEAN /\ dangling \in BOOLEAN /\ disturbed \in BOOLEAN
    /\ pos \in 0 .. Len(scheduled) + 1 /\ it \in 0 .. Len(scheduled)
    /\ result \in {Pending, NoFile, Folder} \cup 1 .. MaxFile
    /\ fs \in [Path -> {NoFile, Folder} \cup 1 .. MaxFile]
    /\ files \in 0 .. MaxFile /\ changes \in 0 .. MaxChanges /\ overlooked \subseteq Path
    /\ activity \in [Caller ->
         [at : {"idle", "waiting", "created", "removing", "renaming"},
          paths : Seq(Path), asleep : BOOLEAN]]

InFolder(p) == Len(p) = 1 \/ fs[<<p[1]>>] = Folder

\* Some files and directories exist when the process starts.
PreopenInit ==
    /\ scheduled = << >> /\ entry = << >> /\ started = FALSE
    /\ pos = 0 /\ it = 0 /\ result = Pending
    /\ files = 1 /\ changes = 0 /\ fs \in [Path -> {NoFile, Folder, 1}]
    /\ \A p \in Path : fs[p] # NoFile => InFolder(p)
    /\ \A p \in Path : Below(p) = {} => fs[p] # Folder
    /\ activity = [t \in Caller |-> Resting]
    /\ dangling = FALSE /\ disturbed = FALSE /\ overlooked = {}

-----------------------------------------------------------------------------
(* preopened_fds_ is a multimap: entries of one path keep their order *)

EntriesOf(p) == {i \in 1 .. Len(entry) : scheduled[i] = p /\ entry[i] # Gone}
First(S) == CHOOSE i \in S : \A j \in S : i <= j

\* Mutant of Erased: only the first entry of the path goes.
ErasedMutant(e, p) ==
    [i \in DOMAIN e |-> IF EntriesOf(p) # {} /\ i = First(EntriesOf(p)) THEN Gone ELSE e[i]]

\* ClosePreopenedFilesWithResolvedPathLocked.  It does not broadcast.
Erased(e, p) == [i \in DOMAIN e |-> IF scheduled[i] = p THEN Gone ELSE e[i]]

\* Invalidation hits entries that wait to be opened.
NoteDisturbance ==
    disturbed' = (disturbed \/ \E i \in DOMAIN entry : entry[i] = Pending /\ entry'[i] = Gone)

CanStart(t) == activity[t].at = "idle"
CanChange(t) == CanStart(t) /\ started /\ changes < MaxChanges
Goes(t, c) == activity' = [activity EXCEPT ![t] = c]

\* Mutant of WokenAll: one thread is signalled.
WokenAllMutant ==
    LET sleepers == {t \in Caller : activity[t].asleep}
    IN  IF sleepers = {} THEN activity
        ELSE [activity EXCEPT ![CHOOSE t \in sleepers : TRUE].asleep = FALSE]

\* cond_.Broadcast()
WokenAll == [t \in Caller |-> Doing(activity[t].at, activity[t].paths)]

-----------------------------------------------------------------------------
(* The preopen thread *)

\* Mutant of SchedulePreopen: no pending entry is inserted.
SchedulePreopenMutant ==
    /\ ~started /\ Len(scheduled) < MaxScheduled
    /\ \E p \in Listed : scheduled' = Append(scheduled, p)
    /\ UNCHANGED <<entry, started, pos, it, result, fs, files, changes, activity, dangling,
                   disturbed, overlooked>>

SchedulePreopen ==
    /\ ~started /\ Len(scheduled) < MaxScheduled
    /\ \E p \in Listed : scheduled' = Append(scheduled, p)
    /\ entry' = Append(entry, Pending)
    /\ UNCHANGED <<started, pos, it, result, fs, files, changes, activity, dangling, disturbed,
                   overlooked>>

\* The loop of PerformPreopens runs with the mutex held from index k to the
\* next path that still has a pending entry, where OpenLocked releases it.
Advance(e, k) ==
    LET pend(i) == {j \in DOMAIN e : scheduled[j] = scheduled[i] /\ e[j] = Pending}
        todo == {i \in k .. Len(scheduled) : pend(i) # {}}
    IN  /\ pos' = IF todo = {} THEN Len(scheduled) + 1 ELSE First(todo)
        /\ it' = IF todo = {} THEN 0 ELSE First(pend(First(todo)))
        /\ result' = Pending

\* SetBrowserReady and StartPreopenLocked.
SetBrowserReady ==
    /\ ~started
    /\ started' = TRUE
    /\ activity' = WokenAll
    /\ UNCHANGED <<scheduled, entry, pos, it, result, fs, files, changes, dangling, disturbed,
                   overlooked>>

PerformPreopens ==
    /\ started /\ pos = 0
    /\ Advance(entry, 1)
    /\ UNCHANGED <<scheduled, entry, started, fs, files, changes, activity, dangling, disturbed,
                   overlooked>>

\* Pepper opens the file at some time while the mutex is released.  The open may
\* fail although the file is there (no descriptor is left, Pepper refuses): the
\* error becomes the entry all the same.
PreopenIO ==
    /\ it # 0 /\ result = Pending
    /\ LET p == scheduled[pos] IN
         /\ result' \in {fs[p], NoFile}
         /\ overlooked' = overlooked \cup {r \in {p} : result' # fs[p]}
    /\ UNCHANGED <<scheduled, entry, started, pos, it, fs, files, changes, activity, dangling,
                   disturbed>>

\* The result is stored through the iterator that was taken before the open.
PreopenEnd ==
    /\ it # 0 /\ result # Pending
    /\ IF entry[it] = Gone
         THEN /\ dangling' = TRUE
              /\ UNCHANGED <<entry, pos, it, result, activity>>
         ELSE /\ entry' = [entry EXCEPT ![it] = result]
              /\ Advance(entry', pos + 1)
              /\ activity' = WokenAll
              /\ UNCHANGED dangling
    /\ UNCHANGED <<scheduled, started, fs, files, changes, disturbed, overlooked>>

-----------------------------------------------------------------------------
(* Calls.  An open that does not meet the cache leaves it alone.  The calls
   that change a file look up its handler before they touch the cache, and
   PepperFileHandler::Initialize waits there until the browser is ready. *)

\* These paths may change under their entries.
Overlooks(paths) ==
    overlooked' = overlooked \cup {r \in paths : fs'[r] # fs[r] /\ EntriesOf(r) # {}}

\* Pepper makes a file at p.
Creates(p) ==
    /\ fs[p] = NoFile /\ InFolder(p) /\ files < MaxFile
    /\ fs' = [fs EXCEPT ![p] = files + 1] /\ files' = files + 1

\* Pepper deletes a file or an empty directory, or fails.
Deletes(p) ==
    \/ /\ \A q \in Below(p) : fs[q] = NoFile
       /\ fs' = [fs EXCEPT ![p] = NoFile]
    \/ fs' = fs

\* Pepper renames o to n, with all that is below it, or fails.
Renames(o, n) ==
    \/ /\ fs[o] # NoFile /\ InFolder(n) /\ n \notin AtOrBelow(o)
       /\ fs[n] # NoFile => (fs[n] = Folder <=> fs[o] = Folder)
       /\ \A q \in Below(n) : fs[q] = NoFile
       /\ Len(n) > Len(o) => \A q \in Below(o) : fs[q] = NoFile
       /\ fs' = TreeRenamed(fs, NoFile, o, n)
    \/ fs' = fs

\* Mutant of OpenRound: the pending descriptor is taken like any other.
OpenRoundMutant(t, p) ==
    LET mine == EntriesOf(p)
    IN  /\ entry' = IF mine = {} THEN entry ELSE [entry EXCEPT ![First(mine)] = Gone]
        /\ Goes(t, Resting)

\* The loop of OpenLocked for eligible flags: take the first entry of the path
\* if it is there, wait while it is pending, otherwise open the file itself.
OpenRound(t, p) ==
    LET mine == EntriesOf(p) IN
    IF mine # {} /\ entry[First(mine)] = Pending
      THEN Goes(t, Waiting(p)) /\ UNCHANGED entry
      ELSE /\ entry' = IF mine = {} THEN entry ELSE [entry EXCEPT ![First(mine)] = Gone]
           /\ Goes(t, Resting)

OpenForRead(t) ==
    /\ \/ CanStart(t) /\ \E p \in Path : OpenRound(t, p)
       \/ activity[t].at = "waiting" /\ ~activity[t].asleep /\ OpenRound(t, activity[t].paths[1])
    /\ UNCHANGED <<scheduled, started, pos, it, result, fs, files, changes, dangling, disturbed,
                   overlooked>>

\* open with O_CREAT or for writing: Pepper opens or makes the file, then the
\* cache is invalidated.  A failed open does not get there, although it may have
\* made the file: the handle is refused, or too large, or O_DIRECTORY was given.
OpenForWrite(t) ==
    /\ \/ /\ CanChange(t) /\ changes' = changes + 1
          /\ \E p \in Path : /\ \/ Creates(p)
                                \/ fs[p] # NoFile /\ UNCHANGED <<fs, files>>
                             /\ Goes(t, Doing("created", <<p>>))
          /\ UNCHANGED <<entry, overlooked>>
       \/ /\ CanChange(t) /\ changes' = changes + 1
          /\ \E p \in Path : Creates(p) /\ Overlooks({p})
          /\ UNCHANGED <<entry, activity>>
       \/ /\ activity[t].at = "created"
          /\ entry' = Erased(entry, activity[t].paths[1])
          /\ Goes(t, Resting)
          /\ UNCHANGED <<fs, files, changes, overlooked>>
    /\ NoteDisturbance
    /\ UNCHANGED <<scheduled, started, pos, it, result, dangling>>

\* remove and unlink: the cache is invalidated first.
Remove(t) ==
    /\ \/ /\ CanChange(t) /\ changes' = changes + 1
          /\ \E p \in Path : /\ entry' = Erased(entry, p)
                             /\ Goes(t, Doing("removing", <<p>>))
          /\ UNCHANGED fs
       \/ /\ activity[t].at = "removing"
          /\ Deletes(activity[t].paths[1])
          /\ Goes(t, Resting)
          /\ UNCHANGED <<changes, entry>>
    /\ NoteDisturbance
    /\ UNCHANGED <<scheduled, started, pos, it, result, files, dangling, overlooked>>

\* rename of a file or a directory: the entries of both paths are invalidated
\* first, those of the paths below them stay.
RenameFile(t) ==
    /\ \/ /\ CanChange(t) /\ changes' = changes + 1
          /\ \E p, q \in Path : /\ p # q
                                /\ entry' = Erased(Erased(entry, p), q)
                                /\ Goes(t, Doing("renaming", <<p, q>>))
          /\ UNCHANGED <<fs, overlooked>>
       \/ /\ activity[t].at = "renaming"
          /\ LET p == activity[t].paths[1] IN
             LET q == activity[t].paths[2] IN
               Renames(p, q) /\ Overlooks(Below(p) \cup Below(q))
          /\ Goes(t, Resting)
          /\ UNCHANGED <<changes, entry>>
    /\ NoteDisturbance
    /\ UNCHANGED <<scheduled, started, pos, it, result, files, dangling>>

\* mkdir and rmdir do not look at the cache: one step stands for the call.
MakeDirectory(t) ==
    /\ CanChange(t) /\ changes' = changes + 1
    /\ \E p \in Path : /\ fs[p] = NoFile /\ InFolder(p)
                       /\ fs' = [fs EXCEPT ![p] = Folder]
                       /\ Overlooks({p})
    /\ UNCHANGED <<preopens, files, activity, dangling, disturbed>>

\* rmdir removes a file as well.
RemoveDirectory(t) ==
    /\ CanChange(t) /\ changes' = changes + 1
    /\ \E p \in Path : /\ fs[p] # NoFile
                       /\ Deletes(p) /\ Overlooks({p})
    /\ UNCHANGED <<preopens, files, activity, dangling, disturbed>>

-----------------------------------------------------------------------------
PreopenThread == PerformPreopens \/ PreopenIO \/ PreopenEnd

PreopenNext ==
    /\ ~dangling
    /\ \/ SchedulePreopen \/ SetBrowserReady \/ PreopenThread
       \/ \E t \in Caller :
            \/ OpenForRead(t) \/ OpenForWrite(t) \/ Remove(t) \/ RenameFile(t)
            \/ MakeDirectory(t) \/ RemoveDirectory(t)

PreopenSpec == PreopenInit /\ [][PreopenNext]_preopenVars

\* The preopen thread starts and makes progress, and so does every thread that
\* is inside a call.
PreopenFairSpec ==
    /\ PreopenSpec
    /\ WF_preopenVars(~dangling /\ (SetBrowserReady \/ PreopenThread))
    /\ \A t \in Caller : WF_preopenVars(~dangling /\ activity[t].at = "waiting" /\ OpenForRead(t))

-----------------------------------------------------------------------------
(* Properties *)

\* Threads in the middle of a call that changes p.
Modifying(p) == \E t \in Caller :
    activity[t].at \in {"created", "removing", "renaming"}
      /\ \E i \in DOMAIN activity[t].paths : activity[t].paths[i] = p

\* What the cache holds is what an open would find now, an error that was cached
\* included (the scenario in the comment of OpenLocked): no interleaving of
\* preopens with opens that create, removals and renames leaves a stale entry of
\* the paths they are given.  Entries of other paths are stale where the code
\* tells the cache nothing: after mkdir and rmdir of the path, after the rename of
\* a directory above it, after an open that creates the file and then fails, and
\* after a preopen that failed with the file there.
EntriesFresh ==
    \A i \in DOMAIN entry :
      /\ entry[i] \notin {Pending, Gone}
      /\ ~Modifying(scheduled[i]) /\ scheduled[i] \notin overlooked
      => entry[i] = fs[scheduled[i]]

\* PerformPreopens stores a descriptor in an erased entry only after pending
\* entries have been invalidated: no open() takes an entry away under it.
NoDanglingWrite == dangling => disturbed

\* The entries stay what PerformPreopens takes them for, and its iterator is
\* valid up to the first such invalidation.
EntriesSound == PreopenTypeOK /\ NoDanglingWrite

\* An open that waits for a preopen returns, unless pending entries have been
\* invalidated.
OpenReturns ==
    \A t \in Caller : activity[t].at = "waiting" ~> (activity[t].at # "waiting" \/ disturbed)
=============================================================================

----------------------------- MODULE CacheLease -----------------------------
(***************************************************************************)
(* The cache directories of all projects and the lock files that keep the  *)
(* collector of stale caches away from those in use.  A command resolves   *)
(* its directory and leases it before it lets go of the layout lock; the   *)
(* collector, which runs at the end of another project's command, moves    *)
(* stale directories to the trash and then unlinks lock files that belong  *)
(* to no directory any more.                                               *)
(*                                                                         *)
(* flock(2) locks an inode, not a name.  A process that opened a lock file *)
(* before it was unlinked would lock an inode that no later process finds, *)
(* so the two could hold the same lock at once.                            *)
(*                                                                         *)
(* A directory in the trash is logically deleted; its physical removal is  *)
(* left out.  Locks that one process takes several times are one lock, as  *)
(* they are in the registry of the process.                                *)
(*                                                                         *)
(* An operator introduced as a slip is no part of the model: it is a       *)
(* mistake that the operator below it could contain and that some property *)
(* excludes.                                                               *)
(***************************************************************************)
EXTENDS Integers, FiniteSets

CONSTANTS Keys,         \* cache keys, one per project
          Processes,    \* running processes; one that ended may run again
          Inodes,       \* inodes for lock files: a bound on open lock files
          None,         \* no inode, process, key or directory
          MaxCommands,  \* bound on commands
          MaxCrashes,   \* bound on killed processes
          MaxVanished   \* bound on directories removed by somebody else

ASSUME NoneAssumption ==
  None \notin Inodes /\ None \notin Processes /\ None \notin Keys
ASSUME BoundsAssumption ==
  MaxCommands \in Nat /\ MaxCrashes \in Nat /\ MaxVanished \in Nat

VARIABLES
  cache,              \* the directory of a key, or None
  leaseFile, pubFile, \* the inode that {key}.lock and {key}.publish.lock name
  layout,             \* who holds the layout lock
  pc, role, key,      \* process: position, command, key it is busy with
  lease, pub,         \* process: its open lock file and the lock it has on it
  lost,               \* process: was its directory removed by somebody else?
  keep, todo,         \* collector: its own key, and the keys left to look at
  commands, crashes, vanished

files     == <<cache, leaseFile, pubFile>>
locks     == <<layout, lease, pub>>
command   == <<role, key, lost>>
sweep     == <<keep, todo>>
budgets   == <<commands, crashes, vanished>>
vars      == <<files, locks, pc, command, sweep, budgets>>

Roles == {"none", "read", "publish", "collect"}
Modes == {"none", "shared", "exclusive"}
ResolvePCs == {"layout", "resolve", "openLease", "lockLease"}
LeasedPCs  == {"openPub", "lockPub", "inspect", "using", "recover", "publish",
               "commit", "release"}
CollectPCs == {"sweep", "tryCandidate", "inspectCandidate", "quarantine",
               "orphans", "tryOrphan", "openOrphanPub", "tryOrphanPub",
               "unlinkPub", "unlinkLease"}

\* index: a database is there; marked: markers or a swap of an unfinished
\* publication are; stale: nothing in it was touched for the maximal age.
Directories == [index : BOOLEAN, marked : BOOLEAN, stale : BOOLEAN]
EmptyDirectory == [index |-> FALSE, marked |-> FALSE, stale |-> FALSE]
ASSUME DirectoryAssumption == None \notin Directories

Closed == [inode |-> None, mode |-> "none"]
Opened(i) == [inode |-> i, mode |-> "none"]
OpenFiles == [inode : Inodes \cup {None}, mode : Modes]

OldIndex == [index |-> TRUE, marked |-> FALSE, stale |-> TRUE]

\* Some projects have an index from before there were lock files.
Init ==
  /\ cache \in [Keys -> {None, OldIndex}]
  /\ leaseFile = [k \in Keys |-> None] /\ pubFile = [k \in Keys |-> None]
  /\ layout = None
  /\ pc = [p \in Processes |-> "idle"]
  /\ role = [p \in Processes |-> "none"] /\ key = [p \in Processes |-> None]
  /\ lease = [p \in Processes |-> Closed] /\ pub = [p \in Processes |-> Closed]
  /\ lost = [p \in Processes |-> FALSE]
  /\ keep = [p \in Processes |-> None] /\ todo = [p \in Processes |-> {}]
  /\ commands = 0 /\ crashes = 0 /\ vanished = 0

(***************************************************************************)
(* Lock files.                                                             *)
(***************************************************************************)
Unused(i) ==
  /\ \A k \in Keys : i \notin {leaseFile[k], pubFile[k]}
  /\ \A p \in Processes : i \notin {lease[p].inode, pub[p].inode}

\* open(2) with O_CREAT: the file that is there, or a new one.  Inodes are
\* only compared, so one choice of an unused one stands for all.
OpenOrCreate(file, i) ==
  IF file # None THEN i = file
  ELSE Unused(i) /\ i = CHOOSE j \in Inodes : Unused(j)

CanShare(open, p) ==
  \A q \in Processes \ {p} :
    open[q].inode = open[p].inode => open[q].mode # "exclusive"

CanExclude(open, p) ==
  \A q \in Processes \ {p} :
    open[q].inode = open[p].inode => open[q].mode = "none"

Goto(p, from, to) == pc[p] = from /\ pc' = [pc EXCEPT ![p] = to]

\* The process ends.
Leave(p) ==
  /\ pc' = [pc EXCEPT ![p] = "idle"]
  /\ role' = [role EXCEPT ![p] = "none"] /\ key' = [key EXCEPT ![p] = None]
  /\ lost' = [lost EXCEPT ![p] = FALSE]
  /\ keep' = [keep EXCEPT ![p] = None] /\ todo' = [todo EXCEPT ![p] = {}]

(***************************************************************************)
(* A command: a reader, or a publisher (rebuild, restore, clear).          *)
(***************************************************************************)
Begin(p) ==
  /\ commands < MaxCommands
  /\ Goto(p, "idle", "layout")
  /\ \E r \in {"read", "publish"}, k \in Keys :
       role' = [role EXCEPT ![p] = r] /\ key' = [key EXCEPT ![p] = k]
  /\ commands' = commands + 1
  /\ UNCHANGED <<files, locks, lost, sweep, crashes, vanished>>

LockLayout(p) ==
  /\ Goto(p, "layout", "resolve")
  /\ layout = None /\ layout' = p
  /\ UNCHANGED <<files, lease, pub, command, sweep, budgets>>

\* Slip: the path is resolved under the layout lock and leased after it.
ResolveAndUnlock(p) ==
  /\ Goto(p, "resolve", "openLease")
  /\ cache' = [cache EXCEPT ![key[p]] =
                 IF cache[key[p]] = None THEN EmptyDirectory ELSE @]
  /\ layout' = None
  /\ UNCHANGED <<leaseFile, pubFile, lease, pub, command, sweep, budgets>>

\* The directory is created if it is not there.
ResolveDirectory(p) ==
  /\ Goto(p, "resolve", "openLease")
  /\ cache' = [cache EXCEPT ![key[p]] =
                 IF cache[key[p]] = None THEN EmptyDirectory ELSE @]
  /\ lost' = [lost EXCEPT ![p] = FALSE]
  /\ UNCHANGED <<leaseFile, pubFile, locks, role, key, sweep, budgets>>

\* A lease that the process still holds serves again.
OpenLease(p) ==
  /\ Goto(p, "openLease", "lockLease")
  /\ \/ lease[p].mode = "shared" /\ UNCHANGED <<leaseFile, lease>>
     \/ /\ lease[p] = Closed
        /\ \E i \in Inodes :
             /\ OpenOrCreate(leaseFile[key[p]], i)
             /\ leaseFile' = [leaseFile EXCEPT ![key[p]] = i]
             /\ lease' = [lease EXCEPT ![p] = Opened(i)]
  /\ UNCHANGED <<cache, pubFile, layout, pub, command, sweep, budgets>>

\* The lease is waited for; only then is the layout lock released.
LockLease(p) ==
  /\ Goto(p, "lockLease", "openPub")
  /\ CanShare(lease, p)
  /\ lease' = [lease EXCEPT ![p].mode = "shared"]
  /\ layout' = IF layout = p THEN None ELSE layout
  /\ UNCHANGED <<files, pub, command, sweep, budgets>>

OpenPublication(p) ==
  /\ Goto(p, "openPub", "lockPub")
  /\ \E i \in Inodes :
       /\ OpenOrCreate(pubFile[key[p]], i)
       /\ pubFile' = [pubFile EXCEPT ![key[p]] = i]
       /\ pub' = [pub EXCEPT ![p] = Opened(i)]
  /\ UNCHANGED <<cache, leaseFile, layout, lease, command, sweep, budgets>>

\* Tried once: a busy publication ends the command.
LockPublication(p) ==
  /\ LET free == IF role[p] = "read" THEN CanShare(pub, p) ELSE CanExclude(pub, p)
     IN  \/ /\ free
            /\ Goto(p, "lockPub", IF role[p] = "read" THEN "inspect" ELSE "recover")
            /\ pub' = [pub EXCEPT ![p].mode =
                         IF role[p] = "read" THEN "shared" ELSE "exclusive"]
         \/ /\ ~free
            /\ Goto(p, "lockPub", "release")
            /\ pub' = [pub EXCEPT ![p] = Closed]
  /\ UNCHANGED <<files, layout, lease, command, sweep, budgets>>

Present(k) == cache[k] # None
Readable(k) == Present(k) /\ ~cache[k].marked /\ cache[k].index

\* A reader turns back from an interrupted publication or a missing index,
\* and touches the activity marker of an index that it has opened.
Inspect(p) ==
  /\ Goto(p, "inspect", IF Readable(key[p]) THEN "using" ELSE "release")
  /\ cache' = IF Readable(key[p]) THEN [cache EXCEPT ![key[p]].stale = FALSE]
              ELSE cache
  /\ UNCHANGED <<leaseFile, pubFile, locks, command, sweep, budgets>>

\* Most readers answer and leave.  `watch` closes its connection, keeps the
\* lease, and resolves the path once more at the next event.
StopReading(p) ==
  /\ \/ Goto(p, "using", "release") /\ UNCHANGED pub
     \/ Goto(p, "using", "layout") /\ pub' = [pub EXCEPT ![p] = Closed]
  /\ UNCHANGED <<files, layout, lease, command, sweep, budgets>>

\* A publisher first completes or undoes what a killed one has left.
Recover(p) ==
  /\ Goto(p, "recover", IF Present(key[p]) THEN "publish" ELSE "release")
  /\ cache' = IF Present(key[p]) THEN [cache EXCEPT ![key[p]].marked = FALSE]
              ELSE cache
  /\ UNCHANGED <<leaseFile, pubFile, locks, command, sweep, budgets>>

Publish(p) ==
  /\ Goto(p, "publish", IF Present(key[p]) THEN "commit" ELSE "release")
  /\ cache' = IF Present(key[p]) THEN [cache EXCEPT ![key[p]].marked = TRUE]
              ELSE cache
  /\ UNCHANGED <<leaseFile, pubFile, locks, command, sweep, budgets>>

\* The markers are gone and the new index is live, or `clear` removed it.
Commit(p) ==
  /\ Goto(p, "commit", "release")
  /\ \E index \in BOOLEAN :
       cache' = IF Present(key[p])
                THEN [cache EXCEPT ![key[p]] =
                        [index |-> index, marked |-> FALSE, stale |-> FALSE]]
                ELSE cache
  /\ UNCHANGED <<leaseFile, pubFile, locks, command, sweep, budgets>>

\* A connection drops its lease before its publication lock; a reader that
\* turned back and the guard of a publisher do it the other way round.
Release(p) ==
  /\ pc[p] = "release"
  /\ \/ pub[p] # Closed /\ pub' = [pub EXCEPT ![p] = Closed] /\ UNCHANGED lease
     \/ /\ lease[p] # Closed /\ (role[p] = "read" \/ pub[p] = Closed)
        /\ lease' = [lease EXCEPT ![p] = Closed] /\ UNCHANGED pub
  /\ IF lease'[p] = Closed /\ pub'[p] = Closed
     THEN Leave(p)
     ELSE UNCHANGED <<pc, command, sweep>>
  /\ UNCHANGED <<files, layout, budgets>>

(***************************************************************************)
(* The collector.  It keeps the project it was started for, which must     *)
(* have an index, and does nothing while anybody resolves a path.          *)
(***************************************************************************)
BeginSweep(p) ==
  /\ commands < MaxCommands
  /\ Goto(p, "idle", "sweep")
  /\ layout = None /\ layout' = p
  /\ \E k \in Keys :
       /\ Present(k) /\ cache[k].index
       /\ keep' = [keep EXCEPT ![p] = k]
       /\ todo' = [todo EXCEPT ![p] = {j \in Keys \ {k} : Present(j)}]
  /\ role' = [role EXCEPT ![p] = "collect"]
  /\ commands' = commands + 1
  /\ UNCHANGED <<files, lease, pub, key, lost, crashes, vanished>>

\* The next directory of the listing: its lease file is opened, and created
\* if need be.
OpenCandidate(p) ==
  /\ Goto(p, "sweep", "tryCandidate")
  /\ \E k \in todo[p], i \in Inodes :
       /\ key' = [key EXCEPT ![p] = k]
       /\ todo' = [todo EXCEPT ![p] = @ \ {k}]
       /\ OpenOrCreate(leaseFile[k], i)
       /\ leaseFile' = [leaseFile EXCEPT ![k] = i]
       /\ lease' = [lease EXCEPT ![p] = Opened(i)]
  /\ UNCHANGED <<cache, pubFile, layout, pub, role, lost, keep, budgets>>

\* Slip: the collector waits for the lease to be dropped.
WaitForCandidate(p) ==
  /\ Goto(p, "tryCandidate", "inspectCandidate")
  /\ CanExclude(lease, p)
  /\ lease' = [lease EXCEPT ![p].mode = "exclusive"]
  /\ UNCHANGED <<files, layout, pub, command, sweep, budgets>>

\* One exclusive attempt; any lease makes the candidate ineligible.
TryCandidate(p) ==
  /\ \/ /\ CanExclude(lease, p)
        /\ Goto(p, "tryCandidate", "inspectCandidate")
        /\ lease' = [lease EXCEPT ![p].mode = "exclusive"]
     \/ /\ ~CanExclude(lease, p)
        /\ Goto(p, "tryCandidate", "sweep")
        /\ lease' = [lease EXCEPT ![p] = Closed]
  /\ UNCHANGED <<files, layout, pub, command, sweep, budgets>>

\* Slip: the markers of an unfinished publication are taken for activity.
CollectMarked(k) == Present(k) /\ cache[k].index /\ cache[k].stale

\* Unresolved publications are preserved whatever their age, and so is a
\* directory without a database or with one used within the maximal age.
Collectable(k) ==
  Present(k) /\ ~cache[k].marked /\ cache[k].index /\ cache[k].stale

InspectCandidate(p) ==
  /\ Goto(p, "inspectCandidate",
          IF Collectable(key[p]) THEN "quarantine" ELSE "sweep")
  /\ lease' = IF Collectable(key[p]) THEN lease
              ELSE [lease EXCEPT ![p] = Closed]
  /\ UNCHANGED <<files, layout, pub, command, sweep, budgets>>

\* The rename into the trash; one that fails leaves the directory.
Quarantine(p) ==
  /\ Goto(p, "quarantine", "sweep")
  /\ cache' \in {cache, [cache EXCEPT ![key[p]] = None]}
  /\ lease' = [lease EXCEPT ![p] = Closed]
  /\ UNCHANGED <<leaseFile, pubFile, layout, pub, command, sweep, budgets>>

\* After the last directory: list the lock files of all other keys.
ListOrphans(p) ==
  /\ todo[p] = {}
  /\ Goto(p, "sweep", "orphans")
  /\ todo' = [todo EXCEPT ![p] =
                {k \in Keys \ {keep[p]} : leaseFile[k] # None \/ pubFile[k] # None}]
  /\ UNCHANGED <<files, locks, command, keep, budgets>>

\* A key with a directory is left alone; for another one the lease file is
\* opened, and created if only the publication lock is left.
OpenOrphan(p) ==
  /\ \E k \in todo[p] :
       /\ todo' = [todo EXCEPT ![p] = @ \ {k}]
       /\ key' = [key EXCEPT ![p] = k]
       /\ \/ /\ Present(k)
             /\ Goto(p, "orphans", "orphans")
             /\ UNCHANGED <<leaseFile, lease>>
          \/ /\ ~Present(k)
             /\ Goto(p, "orphans", "tryOrphan")
             /\ \E i \in Inodes :
                  /\ OpenOrCreate(leaseFile[k], i)
                  /\ leaseFile' = [leaseFile EXCEPT ![k] = i]
                  /\ lease' = [lease EXCEPT ![p] = Opened(i)]
  /\ UNCHANGED <<cache, pubFile, layout, pub, role, lost, keep, budgets>>

\* Slip: the files of a key stay open through the rest of the sweep.
KeepOrphan(p) ==
  pc' = [pc EXCEPT ![p] = "orphans"] /\ UNCHANGED <<lease, pub>>

\* All files of the key are closed, which drops their locks.
GiveUpOrphan(p) ==
  /\ pc' = [pc EXCEPT ![p] = "orphans"]
  /\ lease' = [lease EXCEPT ![p] = Closed]
  /\ pub' = [pub EXCEPT ![p] = Closed]

\* Slip: the lease file of a missing directory is unlinked without its lock.
TrustAbsence(p) ==
  /\ Goto(p, "tryOrphan", IF Present(key[p]) THEN "orphans" ELSE "openOrphanPub")
  /\ UNCHANGED <<files, locks, command, sweep, budgets>>

TryOrphan(p) ==
  /\ pc[p] = "tryOrphan"
  /\ IF CanExclude(lease, p) /\ ~Present(key[p])
     THEN /\ Goto(p, "tryOrphan", "openOrphanPub")
          /\ lease' = [lease EXCEPT ![p].mode = "exclusive"]
          /\ UNCHANGED pub
     ELSE GiveUpOrphan(p)
  /\ UNCHANGED <<files, layout, command, sweep, budgets>>

\* The publication lock file is opened, but not created.
OpenOrphanPub(p) ==
  /\ Goto(p, "openOrphanPub",
          IF pubFile[key[p]] = None THEN "unlinkLease" ELSE "tryOrphanPub")
  /\ pub' = [pub EXCEPT ![p] = Opened(pubFile[key[p]])]
  /\ UNCHANGED <<files, layout, lease, command, sweep, budgets>>

\* Slip: a publication lock that somebody still holds is not noticed.
TryNoPub(p) ==
  /\ Goto(p, "tryOrphanPub", "unlinkPub")
  /\ UNCHANGED <<files, locks, command, sweep, budgets>>

TryOrphanPub(p) ==
  /\ pc[p] = "tryOrphanPub"
  /\ IF CanExclude(pub, p)
     THEN /\ Goto(p, "tryOrphanPub", "unlinkPub")
          /\ pub' = [pub EXCEPT ![p].mode = "exclusive"]
          /\ UNCHANGED lease
     ELSE GiveUpOrphan(p)
  /\ UNCHANGED <<files, layout, command, sweep, budgets>>

\* A name is unlinked only while it still is that of the locked inode.  The
\* lease file outlives the publication lock file.
UnlinkPub(p) ==
  /\ pc[p] = "unlinkPub"
  /\ IF pubFile[key[p]] = pub[p].inode
     THEN /\ Goto(p, "unlinkPub", "unlinkLease")
          /\ pubFile' = [pubFile EXCEPT ![key[p]] = None]
          /\ UNCHANGED <<lease, pub>>
     ELSE GiveUpOrphan(p) /\ UNCHANGED pubFile
  /\ UNCHANGED <<cache, leaseFile, layout, command, sweep, budgets>>

UnlinkLease(p) ==
  /\ pc[p] = "unlinkLease"
  /\ leaseFile' = [leaseFile EXCEPT ![key[p]] =
                     IF @ = lease[p].inode THEN None ELSE @]
  /\ GiveUpOrphan(p)
  /\ UNCHANGED <<cache, pubFile, layout, command, sweep, budgets>>

EndSweep(p) ==
  /\ todo[p] = {}
  /\ pc[p] = "orphans" /\ Leave(p)
  /\ layout' = None
  /\ UNCHANGED <<files, lease, pub, budgets>>

(***************************************************************************)
(* The environment.                                                        *)
(***************************************************************************)
\* A cache is left untouched for the maximal age, in use or not: `watch`
\* may wait that long for an event.
Age(k) ==
  /\ Present(k) /\ ~cache[k].stale
  /\ cache' = [cache EXCEPT ![k].stale = TRUE]
  /\ UNCHANGED <<leaseFile, pubFile, locks, pc, command, sweep, budgets>>

InUse(p, k) ==
  key[p] = k /\ (lease[p].mode = "shared" \/ pc[p] \in {"openLease", "lockLease"})

\* Somebody removes a cache directory by hand.
Vanish(k) ==
  /\ vanished < MaxVanished /\ Present(k)
  /\ cache' = [cache EXCEPT ![k] = None]
  /\ lost' = [p \in Processes |-> lost[p] \/ InUse(p, k)]
  /\ vanished' = vanished + 1
  /\ UNCHANGED <<leaseFile, pubFile, locks, pc, role, key, sweep, commands,
                 crashes>>

\* The kernel closes the files of a dead process and drops its locks.
Crash(p) ==
  /\ crashes < MaxCrashes /\ pc[p] # "idle"
  /\ Leave(p)
  /\ layout' = IF layout = p THEN None ELSE layout
  /\ lease' = [lease EXCEPT ![p] = Closed]
  /\ pub' = [pub EXCEPT ![p] = Closed]
  /\ crashes' = crashes + 1
  /\ UNCHANGED <<files, commands, vanished>>

AllIdle == (\A p \in Processes : pc[p] = "idle") /\ UNCHANGED vars

CommandStep(p) ==
  \/ LockLayout(p) \/ ResolveDirectory(p) \/ OpenLease(p) \/ LockLease(p)
  \/ OpenPublication(p) \/ LockPublication(p) \/ Inspect(p)
  \/ Recover(p) \/ Publish(p) \/ Commit(p) \/ Release(p)

CollectorStep(p) ==
  \/ OpenCandidate(p) \/ TryCandidate(p) \/ InspectCandidate(p)
  \/ Quarantine(p) \/ ListOrphans(p) \/ OpenOrphan(p) \/ TryOrphan(p)
  \/ OpenOrphanPub(p) \/ TryOrphanPub(p) \/ UnlinkPub(p) \/ UnlinkLease(p)
  \/ EndSweep(p)

Next ==
  \/ \E p \in Processes :
       \/ Begin(p) \/ CommandStep(p) \/ StopReading(p)
       \/ BeginSweep(p) \/ CollectorStep(p) \/ Crash(p)
  \/ \E k \in Keys : Age(k) \/ Vanish(k)
  \/ AllIdle

Spec == Init /\ [][Next]_vars

(***************************************************************************)
(* Properties.                                                             *)
(***************************************************************************)
\* Types; and between two keys a collector has no file open but the layout
\* lock, an idle process none at all.
TypeOK ==
  /\ cache \in [Keys -> Directories \cup {None}]
  /\ leaseFile \in [Keys -> Inodes \cup {None}]
  /\ pubFile \in [Keys -> Inodes \cup {None}]
  /\ layout \in Processes \cup {None}
  /\ pc \in [Processes -> {"idle"} \cup ResolvePCs \cup LeasedPCs \cup CollectPCs]
  /\ role \in [Processes -> Roles] /\ key \in [Processes -> Keys \cup {None}]
  /\ lease \in [Processes -> OpenFiles] /\ pub \in [Processes -> OpenFiles]
  /\ lost \in [Processes -> BOOLEAN]
  /\ keep \in [Processes -> Keys \cup {None}] /\ todo \in [Processes -> SUBSET Keys]
  /\ commands \in Nat /\ crashes \in Nat /\ vanished \in Nat
  /\ \A p \in Processes :
       /\ pc[p] \in {"idle", "sweep", "orphans"} => {lease[p], pub[p]} = {Closed}
       /\ layout = p => pc[p] \in (ResolvePCs \ {"layout"}) \cup CollectPCs

\* The collector takes no directory away from a command that has resolved
\* it, however long the command has left it untouched: what is resolved is
\* there until the lease is dropped.
InUseIsKept ==
  \A p \in Processes :
    (pc[p] \in {"openLease", "lockLease"} \/ lease[p].mode = "shared") /\ ~lost[p] =>
      Present(key[p])

\* Whoever publishes is alone with the index: lock files come and go, and
\* yet all processes of a project lock the same one.
PublisherIsAlone ==
  \A p, q \in Processes :
    p # q /\ key[p] = key[q] /\ pc[p] \in {"recover", "publish", "commit"} =>
      pc[q] \notin {"inspect", "using", "recover", "publish", "commit"}

\* "unlinking them cannot leave two processes locking different inodes for
\* one key": a lock file that a command has open is the one its name finds.
OneLockPerKey ==
  \A p \in Processes : pc[p] \in ResolvePCs \cup LeasedPCs =>
    /\ lease[p].inode \in {None, leaseFile[key[p]]}
    /\ pub[p].inode \in {None, pubFile[key[p]]}

\* What an interrupted publication left behind is preserved for recovery,
\* unless somebody removes it by hand.
InterruptedIsKept ==
  [][ \A k \in Keys :
        Present(k) /\ cache[k].marked /\ vanished' = vanished => cache'[k] # None
    ]_vars

\* All commands of all projects wait for the layout lock, some reader may keep
\* its lease for ever, and the collector wants leases under the layout lock:
\* whoever holds the layout lock must never wait for anybody.
LayoutHolderNeverWaits ==
  \A p \in Processes :
    layout = p => ENABLED CommandStep(p) \/ ENABLED CollectorStep(p)
=============================================================================

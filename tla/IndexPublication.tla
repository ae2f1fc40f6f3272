-------------------------- MODULE IndexPublication --------------------------
(***************************************************************************)
(* How one complete index generation replaces another: rebuild and restore *)
(* install a staged database, clear removes the live one, and whoever      *)
(* takes the publication lock first repairs what a killed predecessor left *)
(* behind.                                                                 *)
(*                                                                         *)
(* The cache directory is a function from names to what they refer to.     *)
(* Processes see dir; images is the set of directories that a power loss   *)
(* may leave.  Changes since the last sync of the directory may be lost:   *)
(* all from some point on where the file system keeps their order, any of  *)
(* them where it does not.  A file is its generation and an inode number;  *)
(* a power loss tears a file whose data was never flushed.  On Windows     *)
(* rename(2) replaces nothing and a directory cannot be synced, so only    *)
(* killed processes are considered there.                                  *)
(*                                                                         *)
(* The publication lock is exclusive, so there is one publisher and pc is  *)
(* its position; "unlocked" means that nobody holds the lock exclusively.  *)
(*                                                                         *)
(* An operator introduced as a slip is no part of the model: it is a       *)
(* mistake that the operator below it could contain and that some property *)
(* excludes.                                                               *)
(***************************************************************************)
EXTENDS Integers, FiniteSets

CONSTANTS None,              \* no file, no marker, no index
          Closed,            \* a reader that has no file open
          Readers,           \* connections that hold the lock shared
          MaxPublications,   \* bound on publications
          FileSystems,       \* of "ordered", "reordering" and "windows"
          MaxCrashes,        \* per file system: bound on kills and power losses
          MaxFailures        \* per file system: bound on failed operations

ASSUME PublicationAssumption ==
  /\ MaxPublications \in Nat
  /\ FileSystems \subseteq {"ordered", "reordering", "windows"}
  /\ MaxCrashes \in [FileSystems -> Nat] /\ MaxFailures \in [FileSystems -> Nat]

Torn   == -1
Generations == 0..MaxPublications
Operations  == {"install", "clear"}

\* A marker records the operation and its token; the state marker also
\* records whether there was an index and which staged generation it installs.
Files == [gen : Generations \cup {Torn}, inode : {0, 1}]
StateMarkers == [op : Operations, token : Generations, had : BOOLEAN,
                 staging : Generations \cup {None}]
CommitMarkers == [op : Operations, token : Generations]

ASSUME NoneAssumption ==
  /\ None \notin Generations \cup {Torn}
  /\ None \notin Files \cup StateMarkers \cup CommitMarkers
  /\ Closed \notin Files \cup {None}

\* index.db, index.db.swap, index.db.swap-pending, the staged database, and
\* the markers publish-state-v1 and publish-commit-v1.
DatabaseNames == {"live", "swap", "pending", "staged"}
Names == DatabaseNames \cup {"state", "commit"}

VARIABLES
  fileSystem,            \* rigid: what the cache directory lives on
  dir, images, flushed,  \* the directory, its durable images, durable files
  pc, op, after, failed, \* publisher: position, operation, what follows its
                         \* recovery, whether it is going to report an error
  seen,                  \* reader: the file it has open
  publications, old, target, reported,  \* history: what is being replaced by
                         \* what, and whether the replacement was reported done
  crashes, failures

diskVars      == <<fileSystem, dir, images, flushed>>
publisherVars == <<op, after, failed>>
historyVars   == <<publications, old, target, reported>>
budgets       == <<crashes, failures>>
vars == <<diskVars, pc, publisherVars, seen, historyVars, budgets>>

UnlockedPCs == {"idle", "acquire"}
PublishPCs  == {"begin", "writeState", "syncState", "link", "copy", "flushCopy",
                "renameCopy", "syncSwap", "replace", "flushLive", "remove",
                "syncLive", "writeCommit", "syncCommit"}
RecoveryPCs == {"recover", "dropLive", "restoreSwap", "dropSwap", "dropPending",
                "syncRecovered", "dropStaged", "dropState", "syncNoState",
                "dropCommit", "syncNoCommit"}

(***************************************************************************)
(* Reading a directory.                                                    *)
(***************************************************************************)
Marked(d) == d["state"] # None \/ d["commit"] # None

\* publication_has_interrupted_state: readers turn back.
Interrupted(d) == Marked(d) \/ d["swap"] # None \/ d["pending"] # None

\* The old index is kept in the swap as long as nothing is committed.
RollsBack(d) == d["commit"] = None /\ d["state"] # None

\* What recovery makes of a directory: the file it leaves as the live index.
Resolve(d) ==
  CASE RollsBack(d) /\ ~d["state"].had -> None
    [] RollsBack(d) /\ d["state"].had  ->
         IF d["swap"] # None THEN d["swap"] ELSE d["live"]
    [] d["commit"] # None /\ d["commit"].op = "clear" -> None
    [] OTHER -> d["live"]

GenerationOf(file) == IF file = None THEN None ELSE file.gen

\* The conditions without which recovery refuses to touch anything.
MarkersAgree(d) ==
  d["state"] # None /\ d["commit"] # None =>
    d["state"].token = d["commit"].token /\ d["state"].op = d["commit"].op

SwapIsRecorded(d) ==
  IF Marked(d) THEN d["swap"] # None => d["state"] # None /\ d["state"].had
               ELSE d["swap"] = None

PendingIsRecorded(d) == d["pending"] # None => RollsBack(d)

\* An index that was committed, or that was there before, still is.
NothingIsLost(d) ==
  /\ d["commit"] # None /\ d["commit"].op = "install" => d["live"] # None
  /\ RollsBack(d) /\ d["state"].had => d["swap"] # None \/ d["live"] # None

Recoverable(d) ==
  MarkersAgree(d) /\ SwapIsRecorded(d) /\ PendingIsRecorded(d) /\ NothingIsLost(d)

(***************************************************************************)
(* Changing it.                                                            *)
(***************************************************************************)
With(d, changes) ==
  [name \in Names |-> IF name \in DOMAIN changes THEN changes[name] ELSE d[name]]

Change(changes) ==
  /\ dir' = With(dir, changes)
  /\ images' = images \cup IF fileSystem = "reordering"
                           THEN {With(d, changes) : d \in images}
                           ELSE {With(dir, changes)}
  /\ UNCHANGED fileSystem

Set(name, content) == Change([n \in {name} |-> content]) /\ UNCHANGED flushed
Remove(name) == Set(name, None)

\* Renaming one link of a file to another link of it does nothing.
Rename(from, to) ==
  IF dir[from] = dir[to] THEN UNCHANGED diskVars
  ELSE /\ Change([n \in {from, to} |-> IF n = to THEN dir[from] ELSE None])
       /\ UNCHANGED flushed

SyncDirectory == images' = {dir} /\ UNCHANGED <<fileSystem, dir, flushed>>

Flush(names) ==
  /\ flushed' = flushed \cup ({dir[n] : n \in names} \ {None})
  /\ UNCHANGED <<fileSystem, dir, images>>

Init ==
  /\ fileSystem \in FileSystems
  /\ \E live \in {None, [gen |-> 0, inode |-> 0]} :
       dir = [n \in Names |-> IF n = "live" THEN live ELSE None]
  /\ images = {dir} /\ flushed = {[gen |-> 0, inode |-> 0]}
  /\ pc = "idle" /\ op = "recover" /\ after = "release" /\ failed = FALSE
  /\ seen = [r \in Readers |-> Closed]
  /\ publications = 0 /\ reported = FALSE
  /\ old = GenerationOf(dir["live"]) /\ target = old
  /\ crashes = 0 /\ failures = 0

(***************************************************************************)
(* The publisher.  It holds the mutation lock from Start on and the        *)
(* publication lock from Acquire on.                                       *)
(***************************************************************************)
Goto(from, to) == pc = from /\ pc' = to

\* The private directory of a dead writer is removed; rebuild and restore
\* then fill one of their own.
Start(operation) ==
  /\ Goto("idle", "acquire")
  /\ operation # "recover" => publications < MaxPublications
  /\ LET file == [gen |-> publications + 1, inode |-> 0]
     IN  /\ Change([n \in {"staged"} |-> IF operation = "install" THEN file ELSE None])
         /\ flushed' = flushed \ {file}
  /\ op' = operation /\ failed' = FALSE
  /\ after' = IF operation = "recover" THEN "release" ELSE "begin"
  /\ UNCHANGED <<seen, historyVars, budgets>>

\* The lock is tried once; whoever gets it starts with a recovery.
Acquire ==
  /\ \/ Goto("acquire", "recover") /\ \A r \in Readers : seen[r] = Closed
     \/ Goto("acquire", "release") /\ \E r \in Readers : seen[r] # Closed
  /\ UNCHANGED <<diskVars, publisherVars, seen, historyVars, budgets>>

\* A staged generation that was not published is discarded.
Release ==
  /\ Goto("release", "idle")
  /\ Remove("staged")
  /\ UNCHANGED <<publisherVars, seen, historyVars, budgets>>

\* Both databases are consolidated into their main files and flushed.
Begin ==
  /\ Goto("begin", "writeState")
  /\ Flush({"live", "staged"})
  /\ UNCHANGED <<publisherVars, seen, historyVars, budgets>>

WriteState ==
  /\ Goto("writeState", "syncState")
  /\ Set("state", [op |-> op, token |-> publications + 1,
                   had |-> dir["live"] # None, staging |-> GenerationOf(dir["staged"])])
  /\ publications' = publications + 1
  /\ old' = GenerationOf(dir["live"]) /\ target' = GenerationOf(dir["staged"])
  /\ reported' = FALSE
  /\ UNCHANGED <<publisherVars, seen, budgets>>

SyncState ==
  /\ Goto("syncState", CASE dir["state"].had -> "link"
                         [] op = "install" /\ ~dir["state"].had -> "replace"
                         [] op = "clear" /\ ~dir["state"].had -> "syncLive")
  /\ SyncDirectory
  /\ UNCHANGED <<publisherVars, seen, historyVars, budgets>>

\* The old index is kept under a second name, by a hard link where the file
\* system has them and else by a flushed copy.
Link ==
  /\ Goto("link", "syncSwap")
  /\ Set("swap", dir["live"])
  /\ UNCHANGED <<publisherVars, seen, historyVars, budgets>>

StartCopy ==
  /\ Goto("link", "copy")
  /\ Set("pending", [gen |-> Torn, inode |-> 1 - dir["live"].inode])
  /\ UNCHANGED <<publisherVars, seen, historyVars, budgets>>

Copy ==
  /\ Goto("copy", "flushCopy")
  /\ LET copy == [gen |-> dir["live"].gen, inode |-> dir["pending"].inode]
     IN  /\ Change([n \in {"pending"} |-> copy])
         /\ flushed' = flushed \ {copy}
  /\ UNCHANGED <<publisherVars, seen, historyVars, budgets>>

FlushCopy ==
  /\ Goto("flushCopy", "renameCopy")
  /\ Flush({"pending"})
  /\ UNCHANGED <<publisherVars, seen, historyVars, budgets>>

RenameCopy ==
  /\ Goto("renameCopy", "syncSwap")
  /\ Rename("pending", "swap")
  /\ UNCHANGED <<publisherVars, seen, historyVars, budgets>>

SyncSwap ==
  /\ Goto("syncSwap", IF op = "install" THEN "replace" ELSE "remove")
  /\ SyncDirectory
  /\ UNCHANGED <<publisherVars, seen, historyVars, budgets>>

Replace ==
  /\ \/ /\ Goto("replace", "flushLive")
        /\ fileSystem # "windows" \/ dir["live"] = None
        /\ Rename("staged", "live")
     \/ /\ Goto("replace", "replace")
        /\ fileSystem = "windows" /\ dir["live"] # None
        /\ Remove("live")
  /\ UNCHANGED <<publisherVars, seen, historyVars, budgets>>

FlushLive ==
  /\ Goto("flushLive", "syncLive")
  /\ Flush({"live"})
  /\ UNCHANGED <<publisherVars, seen, historyVars, budgets>>

RemoveLive ==
  /\ Goto("remove", "syncLive")
  /\ Remove("live")
  /\ UNCHANGED <<publisherVars, seen, historyVars, budgets>>

SyncLive ==
  /\ Goto("syncLive", "writeCommit")
  /\ SyncDirectory
  /\ UNCHANGED <<publisherVars, seen, historyVars, budgets>>

\* Slip: the commit marker is a second copy of the state marker.
CommitWithState ==
  /\ Goto("writeCommit", "syncCommit")
  /\ Set("commit", dir["state"])
  /\ UNCHANGED <<publisherVars, seen, historyVars, budgets>>

WriteCommit ==
  /\ Goto("writeCommit", "syncCommit")
  /\ Set("commit", [op |-> op, token |-> dir["state"].token])
  /\ UNCHANGED <<publisherVars, seen, historyVars, budgets>>

\* Cleaning up after a commit is the same recovery that follows a crash.
SyncCommit ==
  /\ Goto("syncCommit", "recover")
  /\ SyncDirectory
  /\ after' = "release"
  /\ UNCHANGED <<op, failed, seen, historyVars, budgets>>

\* Slip: a failure that was recovered from is not reported.
FailQuietly ==
  /\ pc \in PublishPCs /\ failures < MaxFailures[fileSystem]
  /\ failures' = failures + 1
  /\ pc' = IF pc \in {"begin", "writeState", "syncState"} THEN "release" ELSE "recover"
  /\ after' = "release"
  /\ UNCHANGED <<diskVars, op, failed, seen, historyVars, crashes>>

\* Any file operation may fail.  Up to the state marker's sync the error is
\* returned at once; past it the same process recovers first.
Fail ==
  /\ pc \in PublishPCs /\ failures < MaxFailures[fileSystem]
  /\ failures' = failures + 1
  /\ pc' = IF pc \in {"begin", "writeState", "syncState"} THEN "release" ELSE "recover"
  /\ \/ UNCHANGED diskVars
     \/ pc \in {"copy", "flushCopy", "renameCopy"} /\ Remove("pending")
  /\ after' = "release" /\ failed' = TRUE
  /\ UNCHANGED <<op, seen, historyVars, crashes>>

(***************************************************************************)
(* Recovery: forward if the commit marker is there, back if only the state *)
(* marker is, and an error if the directory makes no sense.                *)
(***************************************************************************)
\* Slip: the swap is renamed over the live index without removing it first,
\* which does nothing while both are links to the old index.
RecoverOverLive ==
  /\ pc = "recover"
  /\ pc' = CASE ~Recoverable(dir) -> "release"
             [] Recoverable(dir) /\ ~Marked(dir) -> after
             [] Recoverable(dir) /\ RollsBack(dir) ->
                  IF ~dir["state"].had THEN "dropLive"
                  ELSE IF dir["swap"] = None THEN "dropPending" ELSE "restoreSwap"
             [] Recoverable(dir) /\ dir["commit"] # None ->
                  IF dir["commit"].op = "clear" THEN "dropLive" ELSE "dropSwap"
  /\ failed' = (failed \/ ~Recoverable(dir))
  /\ UNCHANGED <<diskVars, op, after, seen, historyVars, budgets>>

Recover ==
  /\ pc = "recover"
  /\ pc' = CASE ~Recoverable(dir) -> "release"
             [] Recoverable(dir) /\ ~Marked(dir) -> after
             [] Recoverable(dir) /\ RollsBack(dir) ->
                  IF dir["state"].had /\ dir["swap"] = None
                  THEN "dropPending" ELSE "dropLive"
             [] Recoverable(dir) /\ dir["commit"] # None ->
                  IF dir["commit"].op = "clear" THEN "dropLive" ELSE "dropSwap"
  /\ failed' = (failed \/ ~Recoverable(dir))
  /\ UNCHANGED <<diskVars, op, after, seen, historyVars, budgets>>

DropLive ==
  /\ Goto("dropLive", CASE ~RollsBack(dir) -> "dropSwap"
                        [] RollsBack(dir) /\ dir["state"].had  -> "restoreSwap"
                        [] RollsBack(dir) /\ ~dir["state"].had -> "dropPending")
  /\ Remove("live")
  /\ UNCHANGED <<publisherVars, seen, historyVars, budgets>>

RestoreSwap ==
  /\ Goto("restoreSwap", "dropPending")
  /\ Rename("swap", "live")
  /\ UNCHANGED <<publisherVars, seen, historyVars, budgets>>

DropSwap ==
  /\ Goto("dropSwap", "dropPending")
  /\ Remove("swap")
  /\ UNCHANGED <<publisherVars, seen, historyVars, budgets>>

DropPending ==
  /\ Goto("dropPending", "syncRecovered")
  /\ Remove("pending")
  /\ UNCHANGED <<publisherVars, seen, historyVars, budgets>>

SyncRecovered ==
  /\ Goto("syncRecovered", "dropStaged")
  /\ SyncDirectory
  /\ UNCHANGED <<publisherVars, seen, historyVars, budgets>>

\* Only the staged generation that the state marker names.
DropStaged ==
  /\ Goto("dropStaged", "dropState")
  /\ IF /\ dir["state"] # None /\ dir["staged"] # None
        /\ dir["state"].staging = dir["staged"].gen
     THEN Remove("staged") ELSE UNCHANGED diskVars
  /\ UNCHANGED <<publisherVars, seen, historyVars, budgets>>

\* Slip: the commit marker is removed in the state marker's place.
DropCommitFirst ==
  /\ Goto("dropState", "syncNoState")
  /\ Remove(IF dir["commit"] # None THEN "commit" ELSE "state")
  /\ UNCHANGED <<publisherVars, seen, historyVars, budgets>>

\* The state marker goes first: a commit marker alone keeps the new index.
DropState ==
  /\ Goto("dropState", "syncNoState")
  /\ Remove("state")
  /\ UNCHANGED <<publisherVars, seen, historyVars, budgets>>

SyncNoState ==
  /\ Goto("syncNoState", "dropCommit")
  /\ SyncDirectory
  /\ UNCHANGED <<publisherVars, seen, historyVars, budgets>>

DropCommit ==
  /\ Goto("dropCommit", "syncNoCommit")
  /\ Remove("commit")
  /\ UNCHANGED <<publisherVars, seen, historyVars, budgets>>

SyncNoCommit ==
  /\ Goto("syncNoCommit", after)
  /\ SyncDirectory
  /\ reported' = IF after = "release" THEN op # "recover" /\ ~failed ELSE reported
  /\ UNCHANGED <<publisherVars, seen, publications, old, target, budgets>>

\* A recovery that fails halfway leaves its markers to the next one.
RecoveryFails ==
  /\ pc \in RecoveryPCs /\ failures < MaxFailures[fileSystem]
  /\ pc' = "release" /\ failed' = TRUE
  /\ failures' = failures + 1
  /\ UNCHANGED <<diskVars, op, after, seen, historyVars, crashes>>

(***************************************************************************)
(* Readers, crashes and power losses.                                      *)
(***************************************************************************)
\* Slip: readers do not look for traces of an interrupted publication.
OpenAnything(r) ==
  /\ seen[r] = Closed
  /\ pc \in UnlockedPCs \cup {"release"}
  /\ seen' = [seen EXCEPT ![r] = dir["live"]]
  /\ UNCHANGED <<diskVars, pc, publisherVars, historyVars, budgets>>

Open(r) ==
  /\ seen[r] = Closed
  /\ pc \in UnlockedPCs \cup {"release"} /\ ~Interrupted(dir)
  /\ seen' = [seen EXCEPT ![r] = dir["live"]]
  /\ UNCHANGED <<diskVars, pc, publisherVars, historyVars, budgets>>

Close(r) ==
  /\ seen[r] # Closed
  /\ seen' = [seen EXCEPT ![r] = Closed]
  /\ UNCHANGED <<diskVars, pc, publisherVars, historyVars, budgets>>

KillPublisher ==
  /\ pc # "idle" /\ crashes < MaxCrashes[fileSystem]
  /\ pc' = "idle"
  /\ crashes' = crashes + 1
  /\ UNCHANGED <<diskVars, publisherVars, seen, historyVars, failures>>

\* What a directory looks like after a power loss: files whose data was not
\* flushed are torn.
Remains(d) ==
  [n \in Names |-> IF n \in DatabaseNames /\ d[n] # None /\ d[n] \notin flushed
                   THEN [d[n] EXCEPT !.gen = Torn] ELSE d[n]]

PowerLoss ==
  /\ fileSystem # "windows" /\ crashes < MaxCrashes[fileSystem]
  /\ \E d \in images : dir' = Remains(d) /\ images' = {Remains(d)}
  /\ pc' = "idle"
  /\ seen' = [r \in Readers |-> Closed]
  /\ crashes' = crashes + 1
  /\ UNCHANGED <<fileSystem, flushed, publisherVars, historyVars, failures>>

PublisherStep ==
  \/ Acquire \/ Release \/ Begin \/ WriteState \/ SyncState
  \/ Link \/ StartCopy \/ Copy \/ FlushCopy \/ RenameCopy \/ SyncSwap
  \/ Replace \/ FlushLive \/ RemoveLive \/ SyncLive \/ WriteCommit \/ SyncCommit \/ Fail
  \/ Recover \/ DropLive \/ RestoreSwap \/ DropSwap \/ DropPending
  \/ SyncRecovered \/ DropStaged \/ DropState \/ SyncNoState
  \/ DropCommit \/ SyncNoCommit \/ RecoveryFails

Next ==
  \/ \E o \in Operations \cup {"recover"} : Start(o)
  \/ PublisherStep
  \/ \E r \in Readers : Open(r) \/ Close(r)
  \/ KillPublisher \/ PowerLoss

Spec == Init /\ [][Next]_vars

(***************************************************************************)
(* Properties.                                                             *)
(***************************************************************************)
\* The directories that may be found after a crash of any kind now, and the
\* generations that they resolve to.
Survivors ==
  IF fileSystem = "windows" THEN {dir} ELSE {Remains(d) : d \in images} \cup {dir}
Outcomes == {GenerationOf(Resolve(d)) : d \in Survivors}

TypeOK ==
  /\ fileSystem \in FileSystems
  /\ dir \in [Names -> Files \cup StateMarkers \cup CommitMarkers \cup {None}]
  /\ dir \in images
  /\ \A d \in images :
       /\ \A n \in DatabaseNames : d[n] \in Files \cup {None}
       /\ d["state"] \in StateMarkers \cup {None}
       /\ d["commit"] \in CommitMarkers \cup {None}
  /\ flushed \subseteq Files
  /\ pc \in UnlockedPCs \cup PublishPCs \cup RecoveryPCs \cup {"release"}
  /\ op \in Operations \cup {"recover"} /\ after \in {"begin", "release"}
  /\ failed \in BOOLEAN
  /\ seen \in [Readers -> Files \cup {None, Closed}]
  /\ publications \in 0..MaxPublications /\ reported \in BOOLEAN
  /\ old \in Generations \cup {None} /\ target \in Generations \cup {None}
  /\ crashes \in 0..MaxCrashes[fileSystem] /\ failures \in 0..MaxFailures[fileSystem]

\* Whatever went down before, recovery can do its work: no sequence of
\* crashes leaves a directory that recovery refuses.
AlwaysRecoverable == Recoverable(dir)

\* A publication that was reported done stays done, even if power is lost.
ReportedIsDurable == reported => Outcomes = {target}

\* What a reader has open is the index, and will be the index after a crash:
\* nobody reads a generation that may yet be taken back.
ReadersSeeTheIndex ==
  \A r \in Readers : seen[r] # Closed => Outcomes = {GenerationOf(seen[r])}

\* The files implement the abstract register wherever the order of metadata
\* changes is kept.
Register == INSTANCE IndexRegister WITH current  <- GenerationOf(Resolve(dir)),
                                        outcomes <- Outcomes,
                                        offered  <- target
ImplementsRegister ==
  Register!Init /\ [][fileSystem = "reordering" \/ Register!Next]_(Register!vars)
=============================================================================

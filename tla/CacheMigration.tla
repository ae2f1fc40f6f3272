--------------------------- MODULE CacheMigration ---------------------------
(***************************************************************************)
(* Which cache directory belongs to a project, and how a directory follows *)
(* its project when the canonical path of an alias changes (a remount).    *)
(*                                                                         *)
(* A directory is named by the hash of one root and records, in an owner   *)
(* manifest, every root the project was ever reached by.  A command that   *)
(* finds no index under the key of its root looks for a directory whose    *)
(* owner shares a root with it, renames that directory to the new key and  *)
(* rewrites the manifest.  The rename and the rewriting are two steps:     *)
(* owner intents, which name a target key and the generation of a          *)
(* directory, bridge a kill between them.                                  *)
(*                                                                         *)
(* All of a resolution happens under the layout lock, so that there is one *)
(* at a time (job); it may be killed between any two file operations.      *)
(* Commands that have their directory work on it without that lock.        *)
(*                                                                         *)
(* Hashes of different roots are taken to differ.  Unreadable records, an  *)
(* index that SQLite cannot open, interrupted publications (module         *)
(* IndexPublication) and the lock files behind the leases (module          *)
(* CacheLease) are left out.                                               *)
(*                                                                         *)
(* An operator introduced as a slip is no part of the model: it is a       *)
(* mistake that the operator below it could contain and that some property *)
(* excludes.                                                               *)
(***************************************************************************)
EXTENDS Integers, FiniteSets

CONSTANTS Roots,          \* paths by which directories of sources are reached
          Project,        \* [Roots -> projects]: what is found at a root
          Targets,        \* [Roots -> SUBSET Roots]: what its canonical path may be
          Requested,      \* roots that commands are started with
          FirstCanonical, \* the canonical paths at the start
          Leftovers,      \* sets of places where older versions left an index
          FirstGenerations, \* [roots with an index from the start -> Tokens]
          Processes,
          None,
          MaxIdentities,  \* MAX_CACHE_OWNER_IDENTITIES
          CutShortInUse,  \* is an installation ever cut short in a directory
                          \* that a command has leased?  A bound
          Tokens,         \* generations of directories
          Budgets         \* bounds: what a behaviour may spend, see budget

ASSUME RootsAssumption ==
  /\ Requested \subseteq Roots
  /\ Project \in [Roots -> STRING]
  /\ Targets \in [Roots -> SUBSET Roots]
  /\ FirstCanonical \in [Roots -> Roots]
  /\ \A root \in Roots : /\ FirstCanonical[root] \in Targets[root]
                         /\ \A target \in Targets[root] :
                              Project[target] = Project[root]
ASSUME NoneAssumption == None \notin Roots /\ None \notin Processes
\* A fresh owner, of one root and its canonical path, is within the limit.
ASSUME BoundsAssumption ==
  /\ CutShortInUse \in BOOLEAN
  /\ MaxIdentities \in Nat /\ MaxIdentities >= 2 /\ Tokens \subseteq Nat
  /\ Budgets \subseteq [faults : Nat, remounts : Nat, overlaps : Nat]
\* A generation is made from random bits: no two directories have the same.
ASSUME GenerationsAssumption ==
  /\ FirstGenerations \in [DOMAIN FirstGenerations -> Tokens]
  /\ \A root, other \in DOMAIN FirstGenerations :
       FirstGenerations[root] = FirstGenerations[other] => root = other

VARIABLES
  canonical,   \* [Roots -> Roots]: the canonical path now
  dirs,        \* the cache directories of both cache bases
  intents,     \* owner intents under .leases
  job,         \* the resolution that holds the layout lock, or None
  at,          \* process: what its last resolution returned, or None
  building,    \* processes that hold the rebuild lock of their directory
  budget       \* how many faults, remounts and overlapping commands are left

vars == <<canonical, dirs, intents, job, at, building, budget>>

-----------------------------------------------------------------------------
(* Owners                                                                  *)

Manifest == [norm : Roots, raw : Roots, known : SUBSET Roots]

NewOwner(normalized, rawIdentity) ==
  [norm |-> normalized, raw |-> rawIdentity, known |-> {}]

Identities(owner) == {owner.norm, owner.raw} \cup owner.known

\* Slip: the roots of an owner are looked up in its own list.
OverlapsItself(owner, other) == Identities(owner) \cap Identities(owner) # {}

\* Slip: only the canonical paths are compared.
SameNormalizedRoot(owner, other) == owner.norm = other.norm

Overlaps(owner, other) == Identities(owner) \cap Identities(other) # {}

IsBounded(owner) == 2 + Cardinality(owner.known) <= MaxIdentities

\* The key of a root is the root itself.
IsSelfConsistent(owner, key) == IsBounded(owner) /\ key \in Identities(owner)

\* Slip: the owner of the target replaces the one that was there.
DesiredOnly(owner, desired) == desired

MergedForTarget(owner, desired) ==
  [desired EXCEPT !.known = (Identities(owner) \cup Identities(desired))
                              \ {desired.norm, desired.raw}]

MergedWhilePinned(owner, desired) ==
  [owner EXCEPT !.known = @ \cup (Identities(desired) \ Identities(owner))]

-----------------------------------------------------------------------------
(* Directories and intents                                                 *)

\* "new" is the cache base of this program, "old" that of its predecessor.
Places == {"old", "new"} \X Roots
Here(key) == <<"new", key>>

\* files: does it hold more than a manifest and a generation marker?
Directory == [db    : [root : Roots, of : STRING] \cup {None},
              owner : Manifest \cup {None},
              gen   : Tokens \cup {None},
              files : BOOLEAN]
EmptyDirectory == [db |-> None, owner |-> None, gen |-> None, files |-> FALSE]

Exists(place) == dirs[place] # None
HasIndex(place) == Exists(place) /\ dirs[place].db # None

Intents == [key : Roots, gen : Tokens, owner : Manifest]

\* The intents recorded against the generation of a directory, and those of
\* them that name its own key.  Intents are kept in the new base only, where
\* directories of the old base are just asked for their manifests.
GenerationIntents(place) == {i \in intents : i.gen = dirs[place].gen}
OwnIntents(place) ==
  {i \in GenerationIntents(place) : place = Here(i.key)}

MergedIntents(some, owner) ==
  [owner EXCEPT !.known =
     (@ \cup UNION {Identities(intent.owner) : intent \in some})
        \ {owner.norm, owner.raw}]

Owned(owner) == IF IsBounded(owner) THEN [error |-> "none", owner |-> owner]
                                    ELSE [error |-> "limit", owner |-> None]
Refused(cause) == [error |-> cause, owner |-> None]

\* Slip: the manifest alone says who owns a directory.
ManifestOwner(place) ==
  IF dirs[place].owner = None THEN [error |-> "none", owner |-> None]
  ELSE IF IsSelfConsistent(dirs[place].owner, place[2])
  THEN Owned(dirs[place].owner) ELSE Refused("conflict")

\* effective_cache_owner: the manifest with what its intents add.  Which
\* intent comes first only decides which root is called the raw one.
EffectiveOwner(place) ==
  LET owner == dirs[place].owner
      own   == OwnIntents(place)
      first == (CHOOSE intent \in own : TRUE).owner
  IN  CASE owner = None /\ own = {} ->
             [error |-> "none", owner |-> None]
        [] owner = None /\ own # {} ->
             Owned(MergedIntents(own, first))
        [] owner # None /\ IsSelfConsistent(owner, place[2]) ->
             Owned(MergedIntents(own, owner))
        [] OTHER ->
             IF own = {} \/ \E intent \in own : ~Overlaps(owner, intent.owner)
             THEN Refused("conflict")
             ELSE Owned(MergedIntents(own, MergedForTarget(owner, first)))

-----------------------------------------------------------------------------
(* The state of a resolution                                               *)

\* kind:   "resolve", or "legacy" for the commands that write.
\* want:   the identities that were asked for; norm and path are its roots.
\* carried: those with the intents of the target.
\* owner:  the manifest that is being installed.
\* inUse:  keys that were leased when it began (for IndexIsFound only).
\* source: where the index was found; trash: what the target of a move held.
\* next:   where an installation of a manifest returns to.
Jobs == [process : Processes, kind : {"resolve", "legacy"},
         pc : {"target", "choose", "plan", "quarantine", "rename",
               "install", "intent", "manifest", "cleanup", "sweep", "own",
               "lease", "failed"},
         next : {"lease", "sweep"},
         want : Manifest, carried : Manifest, owner : Manifest,
         norm : Roots, key : Roots,
         source : Places \cup {None}, trash : Directory \cup {None},
         cause : {"none", "busy", "limit", "conflict", "occupied", "io"},
         inUse : SUBSET Roots]

\* What a resolution returned: the root it was asked for, the key of the
\* directory and the canonical root of its owner.
Resolved == [path : Roots, key : Roots, norm : Roots]

ASSUME RecordsAssumption ==
  /\ None \notin Tokens /\ None \notin Places /\ None \notin Manifest
  /\ None \notin Directory /\ None \notin Jobs /\ None \notin Resolved
  /\ None \notin [root : Roots, of : STRING]

Leases(p) == IF at[p] = None THEN {} ELSE {at[p].key}
IsLeased(key) == \E p \in Processes : key \in Leases(p)

Goes(pc) == job' = [job EXCEPT !.pc = pc]
Fails(cause) == job' = [job EXCEPT !.pc = "failed", !.cause = cause]

At(pc) == job # None /\ job.pc = pc

\* A directory gets a token that nothing else carries.
TokensInUse == {dirs[place].gen : place \in {p \in Places : Exists(p)}}
           \cup {intent.gen : intent \in intents}
Issue(place) ==
  IF dirs[place].gen # None THEN UNCHANGED dirs
  ELSE \E token \in Tokens \ TokensInUse :
         /\ \A other \in Tokens \ TokensInUse : token <= other
         /\ dirs' = [dirs EXCEPT ![place].gen = token]

Spend(what) == /\ budget[what] > 0
               /\ budget' = [budget EXCEPT ![what] = @ - 1]

environment == <<canonical, at, building, budget>>

-----------------------------------------------------------------------------
(* Resolution: the target and the pinned directory                         *)

\* A command keeps one root.  Under the layout lock it first looks at the
\* directory it has leased already: if that one is owned by the same project,
\* it stays with it whatever the canonical path is now.
Begin(p, root, kind) ==
  LET want    == NewOwner(canonical[root], root)
      carried == MergedIntents(IF Exists(Here(want.norm))
                               THEN OwnIntents(Here(want.norm)) ELSE {}, want)
      start   == [process |-> p, kind |-> kind, pc |-> "target",
                  next |-> "lease", want |-> want, carried |-> carried,
                  owner |-> carried, norm |-> want.norm, key |-> want.norm,
                  source |-> None, trash |-> None, cause |-> "none",
                  inUse |-> {k \in Roots : IsLeased(k)}]
      pinned  == at[p].key
      active  == EffectiveOwner(Here(pinned))
      merged  == MergedWhilePinned(active.owner, carried)
      refused(cause) == [start EXCEPT !.pc = "failed", !.cause = cause]
      overlaps == at[p] = None /\ \E q \in Processes : at[q] # None
  IN  /\ job = None
      /\ IF overlaps THEN Spend("overlaps") ELSE UNCHANGED budget
      /\ at[p] # None => root = at[p].path /\ kind = "resolve"
      /\ job' = CASE ~IsBounded(carried) -> refused("limit")
                  [] IsBounded(carried) /\ at[p] = None -> start
                  [] IsBounded(carried) /\ at[p] # None ->
                       IF ~Exists(Here(pinned)) THEN start
                       ELSE IF active.error # "none" THEN refused(active.error)
                       ELSE IF active.owner = None THEN start
                       ELSE IF ~Overlaps(active.owner, want) THEN start
                       ELSE IF ~Overlaps(active.owner, carried)
                       THEN refused("conflict")
                       ELSE IF ~IsBounded(merged) THEN refused("limit")
                       ELSE IF ~IsSelfConsistent(merged, pinned)
                       THEN refused("conflict")
                       ELSE [start EXCEPT
                              !.key = pinned, !.norm = active.owner.norm,
                              !.owner = merged,
                              !.pc = IF merged = active.owner
                                     THEN "cleanup" ELSE "intent"]
      /\ UNCHANGED <<canonical, dirs, intents, at, building>>

MakeTarget ==
  /\ At("target")
  /\ dirs' = IF Exists(Here(job.key)) THEN dirs
             ELSE [dirs EXCEPT ![Here(job.key)] = EmptyDirectory]
  /\ Goes("choose")
  /\ UNCHANGED <<intents, environment>>

-----------------------------------------------------------------------------
(* Resolution: where the index is                                          *)

\* Directories of other keys with an index, in the order of the listing.
Candidates ==
  {place \in Places : place[1] = "new" /\ place[2] # job.key /\ HasIndex(place)}

\* A candidate that the scan passes over.
IsForeign(place) ==
  LET effective == EffectiveOwner(place)
      root == dirs[place].db.root
  IN  IF effective.error # "none" \/ effective.owner = None
      THEN root \notin {job.want.norm, job.want.raw}
      ELSE ~Overlaps(effective.owner, job.want)

Refusal(place) ==
  LET effective == EffectiveOwner(place)
  IN  IF effective.error # "none" THEN effective.error
      ELSE IF /\ effective.owner # None
              /\ dirs[place].db.root \notin Identities(effective.owner)
           THEN "conflict"
      ELSE IF IsLeased(place[2]) \/ IsLeased(job.key) THEN "busy"
      ELSE "none"

MoveFrom(place) == job' = [job EXCEPT !.pc = "plan", !.source = place]

\* A directory named by the raw path comes first and is not inspected.
FromRawKey ==
  /\ job.kind = "resolve" /\ job.want.raw # job.key
  /\ HasIndex(Here(job.want.raw))

ChooseSource ==
  /\ At("choose")
  /\ \/ /\ HasIndex(Here(job.key))
        /\ job' = [job EXCEPT !.pc = "own", !.source = Here(job.key)]
     \/ /\ ~HasIndex(Here(job.key)) /\ FromRawKey
        /\ IF IsLeased(job.want.raw) \/ IsLeased(job.key)
           THEN Fails("busy") ELSE MoveFrom(Here(job.want.raw))
     \/ /\ ~HasIndex(Here(job.key)) /\ job.kind = "resolve" /\ ~FromRawKey
        /\ IF \A place \in Candidates : IsForeign(place) THEN Goes("own")
           ELSE \E place \in Candidates :
                  /\ ~IsForeign(place)
                  /\ IF Refusal(place) # "none" THEN Fails(Refusal(place))
                     ELSE MoveFrom(place)
     \/ /\ ~HasIndex(Here(job.key)) /\ job.kind = "legacy"
        /\ LET legacy == <<"old", job.want.raw>>
           IN  IF ~HasIndex(legacy) THEN Goes("own") ELSE MoveFrom(legacy)
  /\ UNCHANGED <<dirs, intents, environment>>

-----------------------------------------------------------------------------
(* Resolution: the move                                                    *)

\* The owner after the move, recorded as an intent of the generation that
\* moves before anything else is touched.
PlanMove ==
  LET effective  == EffectiveOwner(job.source)
      authorized == IF effective.owner = None THEN job.want ELSE effective.owner
      recorded   == GenerationIntents(job.source)
      target     == dirs[Here(job.key)]
      planned    == MergedIntents(recorded, MergedForTarget(authorized, job.carried))
      owner      == IF target.owner = None THEN planned
                    ELSE MergedForTarget(target.owner, planned)
      intent     == [key |-> job.key, gen |-> dirs'[job.source].gen, owner |-> owner]
  IN  /\ At("plan")
      /\ Issue(job.source)
      /\ IF effective.error # "none"
         THEN Fails(effective.error) /\ UNCHANGED intents
         ELSE IF \/ ~Overlaps(authorized, job.want)
                 \/ \E other \in recorded : ~Overlaps(authorized, other.owner)
         THEN Fails("conflict") /\ UNCHANGED intents
         ELSE IF ~IsBounded(planned) THEN Fails("limit") /\ UNCHANGED intents
         ELSE IF job.kind = "legacy" /\ IsLeased(job.key)
         THEN Fails("busy") /\ UNCHANGED intents
         ELSE IF target.files THEN Fails("occupied") /\ UNCHANGED intents
         ELSE IF /\ target.owner # None
                 /\ ~(/\ IsSelfConsistent(target.owner, job.key)
                      /\ Overlaps(target.owner, planned))
         THEN Fails("conflict") /\ UNCHANGED intents
         ELSE IF ~IsBounded(owner) THEN Fails("limit") /\ UNCHANGED intents
         ELSE /\ intents' = intents \cup {intent}
              /\ job' = [job EXCEPT !.pc = "quarantine", !.owner = owner]
      /\ UNCHANGED environment

\* The target, which holds no index, moves to the trash.  Nobody could change
\* it since the plan, so that its owner adds nothing to the intent.
QuarantineTarget ==
  /\ At("quarantine")
  /\ dirs' = [dirs EXCEPT ![Here(job.key)] = None]
  /\ job' = [job EXCEPT !.pc = "rename", !.trash = dirs[Here(job.key)]]
  /\ UNCHANGED <<intents, environment>>

RenameSource ==
  /\ At("rename")
  /\ dirs' = [dirs EXCEPT ![Here(job.key)] = dirs[job.source],
                          ![job.source] = None]
  /\ job' = [job EXCEPT !.pc = "install", !.next = "sweep", !.trash = None]
  /\ UNCHANGED <<intents, environment>>

-----------------------------------------------------------------------------
(* Resolution: the owner manifest                                          *)

\* What installing desired makes of the manifest that is there: cleanup if it
\* says everything already, otherwise an intent and then the manifest.
Install(desired, allowReplacement, next) ==
  LET existing == dirs[Here(job.key)].owner
      merged   == MergedForTarget(existing, desired)
      write(owner) == job' = [job EXCEPT !.pc = "intent", !.next = next,
                                         !.owner = owner]
  IN  IF existing = None THEN write(desired)
      ELSE IF \/ ~Overlaps(existing, desired)
              \/ ~IsSelfConsistent(existing, job.key) /\ ~allowReplacement
      THEN Fails("conflict")
      ELSE IF ~IsBounded(merged) THEN Fails("limit")
      ELSE IF merged = existing
      THEN job' = [job EXCEPT !.pc = "cleanup", !.next = next, !.owner = existing]
      ELSE write(merged)

InstallAfterMove ==
  /\ At("install")
  /\ Install(job.owner, TRUE, "sweep")
  /\ UNCHANGED <<dirs, intents, environment>>

WriteIntent ==
  /\ At("intent")
  /\ Issue(Here(job.key))
  /\ intents' = intents \cup {[key |-> job.key, owner |-> job.owner,
                               gen |-> dirs'[Here(job.key)].gen]}
  /\ Goes("manifest")
  /\ UNCHANGED environment

WriteManifest ==
  /\ At("manifest")
  /\ dirs' = [dirs EXCEPT ![Here(job.key)].owner = job.owner]
  /\ Goes("cleanup")
  /\ UNCHANGED <<intents, environment>>

\* Intents that the owner covers are of no use any more.
Covered(some) ==
  {intent \in some : Identities(intent.owner) \subseteq Identities(job.owner)}

CleanUpIntents ==
  /\ At("cleanup")
  /\ intents' = intents \ Covered(OwnIntents(Here(job.key)))
  /\ Goes(job.next)
  /\ UNCHANGED <<dirs, environment>>

\* After a move, those for other keys as well.
SweepIntents ==
  /\ At("sweep")
  /\ intents' = intents \ Covered(GenerationIntents(Here(job.key)))
  /\ Goes("own")
  /\ UNCHANGED <<dirs, environment>>

\* Every resolution ends by installing its owner.  A manifest that does not
\* match the key was left by a killed move.
OwnTarget ==
  LET target   == dirs[Here(job.key)]
      existing == target.owner
  IN  /\ At("own")
      /\ IF existing = None \/ IsSelfConsistent(existing, job.key)
         THEN Install(job.carried, FALSE, "lease")
         ELSE IF ~Overlaps(existing, job.carried) THEN Fails("conflict")
         ELSE IF IsLeased(job.key) THEN Fails("busy")
         ELSE IF target.db = None \/ target.db.root \notin Identities(existing)
         THEN Fails("conflict")
         ELSE Install(job.carried, TRUE, "lease")
      /\ UNCHANGED <<dirs, intents, environment>>

\* The shared lease is taken before the layout lock is released.
Leased ==
  /\ At("lease")
  /\ at' = [at EXCEPT ![job.process] =
              [path |-> job.want.raw, key |-> job.key, norm |-> job.norm]]
  /\ job' = None
  /\ UNCHANGED <<canonical, intents, budget>>

TakeLease == Leased /\ UNCHANGED <<dirs, building>>

\* Commands that write take the rebuild lock next.  It is a file of the
\* directory, and stays there.
TakeLeaseAndRebuildLock ==
  /\ Leased
  /\ job.kind = "resolve"
  /\ \A p \in building : at[p].key # job.key
  /\ building' = building \cup {job.process}
  /\ dirs' = [dirs EXCEPT ![Here(job.key)].files = TRUE]

Fail ==
  /\ At("failed")
  /\ job' = None
  /\ UNCHANGED <<dirs, intents, environment>>

Resolve == \/ MakeTarget \/ ChooseSource \/ PlanMove \/ QuarantineTarget
           \/ RenameSource \/ InstallAfterMove \/ WriteIntent
           \/ WriteManifest \/ CleanUpIntents \/ SweepIntents \/ OwnTarget
           \/ TakeLease \/ TakeLeaseAndRebuildLock \/ Fail

-----------------------------------------------------------------------------
(* What a command does with its directory                                  *)

Holds(p, key) == at[p] # None /\ at[p].key = key

\* Opening an index writes the root that the resolution returned into it.
OpenIndex(p) ==
  /\ at[p] # None /\ HasIndex(Here(at[p].key))
  /\ dirs' = [dirs EXCEPT ![Here(at[p].key)].db.root = at[p].norm]
  /\ UNCHANGED <<intents, job, environment>>

\* The new index gets the canonical path of the time when it is staged.
PublishIndex(p) ==
  /\ p \in building
  /\ dirs' = [dirs EXCEPT ![Here(at[p].key)].db =
                [root |-> canonical[at[p].path],
                 of   |-> Project[canonical[at[p].path]]]]
  /\ building' = building \ {p}
  /\ UNCHANGED <<canonical, intents, job, at, budget>>

ClearIndex(p) ==
  /\ p \in building
  /\ dirs' = [dirs EXCEPT ![Here(at[p].key)].db = None]
  /\ building' = building \ {p}
  /\ UNCHANGED <<canonical, intents, job, at, budget>>

Busy(p) == job # None /\ job.process = p

\* Slip: the rebuild lock is kept when the command returns.
EndCommandLocked(p) ==
  /\ at[p] # None /\ ~Busy(p)
  /\ at' = [at EXCEPT ![p] = None]
  /\ UNCHANGED <<canonical, dirs, intents, job, building, budget>>

EndCommand(p) ==
  /\ at[p] # None /\ ~Busy(p)
  /\ at' = [at EXCEPT ![p] = None]
  /\ building' = building \ {p}
  /\ UNCHANGED <<canonical, dirs, intents, job, budget>>

-----------------------------------------------------------------------------
(* Faults and the rest of the world                                        *)

MayStop == job.pc = "manifest" /\ IsLeased(job.key) => CutShortInUse

\* A killed process leaves the files as they are and loses its locks.
Kill ==
  /\ job # None /\ job.pc # "failed" /\ MayStop
  /\ Spend("faults")
  /\ at' = [at EXCEPT ![job.process] = None]
  /\ building' = building \ {job.process}
  /\ job' = None
  /\ UNCHANGED <<canonical, dirs, intents>>

\* A file operation fails.  A target that was quarantined is put back.  So
\* does the writing of a marker for which the model has no token left.
FileOperationFails ==
  /\ job # None /\ MayStop
  /\ job.pc \in {"target", "plan", "quarantine", "rename", "intent",
                 "manifest"}
  /\ IF job.pc \in {"plan", "intent"} /\ Tokens \subseteq TokensInUse
     THEN UNCHANGED budget ELSE Spend("faults")
  /\ Fails("io")
  /\ dirs' = IF job.pc = "rename"
             THEN [dirs EXCEPT ![Here(job.key)] = job.trash] ELSE dirs
  /\ UNCHANGED <<canonical, intents, at, building>>

\* An alias gets another canonical path: it is mounted elsewhere, or a mount
\* does not answer in time and the path itself is taken.  A resolution reads
\* the canonical path once, so that nothing is lost by letting it finish; but
\* a remount between the rebuild lock and the staging of the index, which
\* reads it again, is left out.
Remount(root) ==
  /\ job = None /\ building = {}
  /\ Spend("remounts")
  /\ \E target \in Targets[root] \ {canonical[root]} :
       canonical' = [canonical EXCEPT ![root] = target]
  /\ UNCHANGED <<dirs, intents, job, at, building>>

\* The collector of another project removes a directory that is stale.
Collect(key) ==
  /\ job = None /\ ~IsLeased(key) /\ HasIndex(Here(key))
  /\ Spend("faults")
  /\ dirs' = [dirs EXCEPT ![Here(key)] = None]
  /\ UNCHANGED <<canonical, intents, job, at, building>>

-----------------------------------------------------------------------------
\* What older versions left: directories named by the raw path, without a
\* record of owners.
LeftBehind(root) ==
  [EmptyDirectory EXCEPT !.db = [root |-> root, of |-> Project[root]],
                         !.files = TRUE]

\* What a project that is not asked for has: an index with its manifest.
Settled(root) ==
  [db |-> [root |-> root, of |-> Project[root]], owner |-> NewOwner(root, root),
   gen |-> FirstGenerations[root], files |-> TRUE]

Init ==
  /\ canonical = FirstCanonical
  /\ \E left \in Leftovers :
       dirs = [place \in Places |->
                 IF place \in left THEN LeftBehind(place[2])
                 ELSE IF place[1] = "new" /\ place[2] \in DOMAIN FirstGenerations
                 THEN Settled(place[2]) ELSE None]
  /\ intents = {}
  /\ job = None
  /\ at = [p \in Processes |-> None]
  /\ building = {}
  /\ budget \in Budgets

Next ==
  \/ \E p \in Processes, root \in Requested, kind \in {"resolve", "legacy"} :
       Begin(p, root, kind)
  \/ Resolve
  \/ \E p \in Processes : \/ OpenIndex(p) \/ PublishIndex(p)
                          \/ ClearIndex(p) \/ EndCommand(p)
  \/ Kill \/ FileOperationFails
  \/ \E root \in Roots : Remount(root)
  \/ \E key \in Roots : Collect(key)

Spec == Init /\ [][Next]_vars

-----------------------------------------------------------------------------
(* Properties                                                              *)

\* Every variable keeps its type, and who holds a rebuild lock has a
\* directory.
TypeOK ==
  /\ canonical \in [Roots -> Roots]
  /\ dirs \in [Places -> Directory \cup {None}]
  /\ intents \subseteq Intents
  /\ job \in Jobs \cup {None}
  /\ at \in [Processes -> Resolved \cup {None}]
  /\ budget \in [faults : Nat, remounts : Nat, overlaps : Nat]
  /\ building \subseteq {p \in Processes : at[p] # None}

\* A directory only ever holds an index of the project whose root names it,
\* and its manifest names roots of that project only: however renames, intents
\* and remounts are cut and combined, no project is given another one's index
\* (validate_cache_owner_for_migration).
IndexesStayApart ==
  \A place \in Places : HasIndex(place) =>
    /\ dirs[place].db.of = Project[place[2]]
    /\ dirs[place].owner # None =>
         \A root \in Identities(dirs[place].owner) :
           Project[root] = dirs[place].db.of

\* The roots that a directory may be recognised by under its own key.
Claimed(place) ==
  (IF dirs[place].owner # None THEN Identities(dirs[place].owner)
   ELSE IF OwnIntents(place) = {} THEN {dirs[place].db.root} ELSE {})
     \cup UNION {Identities(intent.owner) : intent \in OwnIntents(place)}

\* A resolution that ends in a directory without an index leaves no index
\* behind, in a directory free when it began, that is recorded for one of its
\* roots: an index survives the remount of its project, also one during which
\* the program was killed (db.rs:64).
IndexIsFound ==
  /\ At("lease") /\ job.kind = "resolve" /\ job.source = None
  /\ job.key \notin job.inUse
  => \A place \in Candidates :
       Claimed(place) \cap Identities(job.want) = {} \/ place[2] \in job.inUse

\* While a command lives, every resolution of its root ends in the directory
\* that it has leased, whatever the canonical path of the root is by then
\* (active_overlapping_cache_lease).
OneDirectoryPerCommand ==
  At("lease") /\ at[job.process] # None => at[job.process].key = job.key

\* A resolution is refused for a lease in its way, a full history, a target
\* with other files or an input/output error, but never because records that
\* the program wrote itself contradict each other: what a kill leaves can be
\* resumed by any later command.
FailuresAreExcused ==
  At("failed") => job.cause # "conflict"

\* The roots that a directory is known to have been reached by.
Recorded(place) ==
  (IF dirs[place].owner = None THEN {} ELSE Identities(dirs[place].owner))
     \cup UNION {Identities(i.owner) : i \in GenerationIntents(place)}

\* No step but a collection loses a root of a directory's history: moved or
\* quarantined, written or swept, some directory still records all of it
\* (the test cache_owner_manifest_preserves_alias_identity_chain).
HistoryIsKept ==
  [][\/ \A place \in {p \in Places : Exists(p)} :
          LET history == Recorded(place)
          IN  \E later \in {p \in Places : Exists(p)'} : history \subseteq Recorded(later)'
     \/ \E key \in Roots : Collect(key)]_<<dirs, intents>>

=============================================================================

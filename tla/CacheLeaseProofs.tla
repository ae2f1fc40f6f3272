--------------------------- MODULE CacheLeaseProofs ---------------------------
(***************************************************************************)
(* Proofs about CacheLease, for any projects, processes and lock files, and*)
(* for any number of commands, killed processes and removed directories.   *)
(***************************************************************************)
EXTENDS CacheLease, TLAPS

(***************************************************************************)
(* The inductive invariant.                                                *)
(***************************************************************************)
PCs == {"idle"} \cup ResolvePCs \cup LeasedPCs \cup CollectPCs

\* Where a process has the layout lock, and where a key.
LayoutPCs == (ResolvePCs \ {"layout"}) \cup CollectPCs
CandidatePCs == {"tryCandidate", "inspectCandidate", "quarantine"}
OrphanPCs == {"tryOrphan", "openOrphanPub", "tryOrphanPub", "unlinkPub", "unlinkLease"}
KeyPCs == ResolvePCs \cup LeasedPCs \cup CandidatePCs \cup OrphanPCs

Types ==
  /\ cache \in [Keys -> Directories \cup {None}]
  /\ leaseFile \in [Keys -> Inodes \cup {None}]
  /\ pubFile \in [Keys -> Inodes \cup {None}]
  /\ layout \in Processes \cup {None}
  /\ pc \in [Processes -> PCs]
  /\ role \in [Processes -> Roles] /\ key \in [Processes -> Keys \cup {None}]
  /\ lease \in [Processes -> OpenFiles] /\ pub \in [Processes -> OpenFiles]
  /\ lost \in [Processes -> BOOLEAN]
  /\ keep \in [Processes -> Keys \cup {None}] /\ todo \in [Processes -> SUBSET Keys]
  /\ commands \in Nat /\ crashes \in Nat /\ vanished \in Nat

Has(open, modes) == open.inode \in Inodes /\ open.mode \in modes

\* The lock that a process has on a lease file at each position.
LeaseInv(p) ==
  /\ pc[p] \in {"idle", "sweep", "orphans"} => lease[p] = Closed
  /\ pc[p] \in {"layout", "resolve", "openLease", "release"} =>
       lease[p] = Closed \/ Has(lease[p], {"shared"})
  /\ pc[p] = "lockLease" => Has(lease[p], {"none", "shared"})
  /\ pc[p] \in LeasedPCs \ {"release"} => Has(lease[p], {"shared"})
  /\ pc[p] \in {"tryCandidate", "tryOrphan"} => Has(lease[p], {"none"})
  /\ pc[p] \in (CandidatePCs \cup OrphanPCs) \ {"tryCandidate", "tryOrphan"} =>
       Has(lease[p], {"exclusive"})

\* The lock that it has on a publication lock file.
PubInv(p) ==
  /\ pc[p] \in {"idle", "openPub", "sweep", "orphans", "tryOrphan", "openOrphanPub"}
               \cup ResolvePCs \cup CandidatePCs => pub[p] = Closed
  /\ pc[p] \in {"lockPub", "tryOrphanPub"} => Has(pub[p], {"none"})
  /\ pc[p] \in {"inspect", "using"} => Has(pub[p], {"shared"})
  /\ pc[p] \in {"recover", "publish", "commit", "unlinkPub"} => Has(pub[p], {"exclusive"})
  /\ pc[p] = "release" => pub[p] = Closed \/ Has(pub[p], {"shared", "exclusive"})
  /\ pc[p] = "unlinkLease" => pub[p] = Closed \/ Has(pub[p], {"exclusive"})

Position(p) ==
  /\ layout = p <=> pc[p] \in LayoutPCs
  /\ pc[p] \in KeyPCs => key[p] \in Keys
  /\ LeaseInv(p) /\ PubInv(p)

PositionInv == \A p \in Processes : Position(p)

\* Whoever has a lock exclusively is alone with the inode.
Alone(open, p) ==
  open[p].mode = "exclusive" =>
    \A q \in Processes \ {p} : open[q].inode = open[p].inode => open[q].mode = "none"

LocksExclude == \A p \in Processes : Alone(lease, p) /\ Alone(pub, p)

\* A lock file that somebody has open is the one that its name finds.
NameInv(p) ==
  /\ pc[p] \in ResolvePCs \cup LeasedPCs =>
       /\ lease[p].inode \in {None, leaseFile[key[p]]}
       /\ pub[p].inode \in {None, pubFile[key[p]]}
  /\ pc[p] \in CandidatePCs \cup OrphanPCs => lease[p].inode = leaseFile[key[p]]
  /\ pc[p] \in {"tryOrphanPub", "unlinkPub"} => pub[p].inode = pubFile[key[p]]
  /\ pc[p] = "unlinkLease" => pubFile[key[p]] = None

NamesFindLocks == \A p \in Processes : NameInv(p)

\* What is in use is there, and what is about to be collected is not marked.
KeptInv ==
  /\ InUseIsKept
  /\ \A p \in Processes :
       pc[p] = "quarantine" /\ Present(key[p]) => ~cache[key[p]].marked

Inv == Types /\ PositionInv /\ LocksExclude /\ NamesFindLocks /\ KeptInv

(***************************************************************************)
(* Types.                                                                  *)
(***************************************************************************)
\* What a process does; the environment does the rest.
Step(p) ==
  \/ Begin(p) \/ CommandStep(p) \/ StopReading(p)
  \/ BeginSweep(p) \/ CollectorStep(p) \/ Crash(p)

LEMMA DirectoryUpdates ==
  /\ EmptyDirectory \in Directories
  /\ \A d \in Directories :
       /\ [d EXCEPT !.stale = FALSE] \in Directories /\ [d EXCEPT !.stale = TRUE] \in Directories
       /\ [d EXCEPT !.marked = FALSE] \in Directories /\ [d EXCEPT !.marked = TRUE] \in Directories
  /\ \A index \in BOOLEAN : [index |-> index, marked |-> FALSE, stale |-> FALSE] \in Directories
BY DEF EmptyDirectory, Directories

LEMMA StepKeepsTypes ==
  ASSUME Types, PositionInv, NEW p \in Processes, Step(p)
  PROVE  Types'
<1>a. pc[p] \in KeyPCs => key[p] \in Keys
  BY DEF PositionInv, Position
<1>b. ASSUME NEW k \in Keys, NEW d \in Directories
      PROVE  [cache EXCEPT ![k] = d] \in [Keys -> Directories \cup {None}]
  BY DEF Types
<1>c. \A k \in Keys : Present(k) => cache[k] \in Directories
  BY DEF Types, Present
<1>d. ASSUME NEW k \in Keys, NEW i \in Inodes \cup {None}
      PROVE  /\ [leaseFile EXCEPT ![k] = i] \in [Keys -> Inodes \cup {None}]
             /\ [pubFile EXCEPT ![k] = i] \in [Keys -> Inodes \cup {None}]
  BY DEF Types
<1>e. ASSUME NEW open \in [Processes -> OpenFiles]
      PROVE  /\ [open EXCEPT ![p].mode = "shared"] \in [Processes -> OpenFiles]
             /\ [open EXCEPT ![p].mode = "exclusive"] \in [Processes -> OpenFiles]
             /\ [open EXCEPT ![p] = Closed] \in [Processes -> OpenFiles]
             /\ \A i \in Inodes \cup {None} : [open EXCEPT ![p] = Opened(i)] \in [Processes -> OpenFiles]
  BY DEF OpenFiles, Closed, Opened, Modes
<1>f. /\ [lease EXCEPT ![p].mode = "shared"] \in [Processes -> OpenFiles]
      /\ [lease EXCEPT ![p].mode = "exclusive"] \in [Processes -> OpenFiles]
      /\ [lease EXCEPT ![p] = Closed] \in [Processes -> OpenFiles]
      /\ \A i \in Inodes : [lease EXCEPT ![p] = Opened(i)] \in [Processes -> OpenFiles]
  BY <1>e DEF Types
<1>g. /\ [pub EXCEPT ![p].mode = "shared"] \in [Processes -> OpenFiles]
      /\ [pub EXCEPT ![p].mode = "exclusive"] \in [Processes -> OpenFiles]
      /\ [pub EXCEPT ![p] = Closed] \in [Processes -> OpenFiles]
      /\ \A i \in Inodes \cup {None} : [pub EXCEPT ![p] = Opened(i)] \in [Processes -> OpenFiles]
  BY <1>e DEF Types
<1> USE DEF Types, files, locks, command, sweep, budgets, Goto,
        PCs, ResolvePCs, LeasedPCs, CollectPCs, Roles, Leave, GiveUpOrphan
<1>1. CASE Begin(p)
  BY <1>1 DEF Begin
<1>2. CASE LockLayout(p)
  BY <1>2 DEF LockLayout
<1>3. CASE ResolveDirectory(p)
  BY <1>3, <1>a, <1>b, <1>c, DirectoryUpdates DEF ResolveDirectory, KeyPCs, Present
<1>4. CASE OpenLease(p)
  <2>1. pc' \in [Processes -> PCs]
    BY <1>4 DEF OpenLease, KeyPCs
  <2>2. lease' \in [Processes -> OpenFiles] /\ pub' \in [Processes -> OpenFiles]
    BY <1>4, <1>f, <1>g DEF OpenLease, KeyPCs
  <2>3. leaseFile' \in [Keys -> Inodes \cup {None}] /\ pubFile' \in [Keys -> Inodes \cup {None}]
    BY <1>4, <1>a, <1>d DEF OpenLease, KeyPCs
  <2>4. QED BY <1>4, <2>1, <2>2, <2>3 DEF OpenLease, KeyPCs
<1>5. CASE LockLease(p)
  BY <1>5, <1>f, <1>g DEF LockLease
<1>6. CASE OpenPublication(p)
  <2>1. pc' \in [Processes -> PCs]
    BY <1>6 DEF OpenPublication, KeyPCs
  <2>2. lease' \in [Processes -> OpenFiles] /\ pub' \in [Processes -> OpenFiles]
    BY <1>6, <1>f, <1>g DEF OpenPublication, KeyPCs
  <2>3. leaseFile' \in [Keys -> Inodes \cup {None}] /\ pubFile' \in [Keys -> Inodes \cup {None}]
    BY <1>6, <1>a, <1>d DEF OpenPublication, KeyPCs
  <2>4. QED BY <1>6, <2>1, <2>2, <2>3 DEF OpenPublication, KeyPCs
<1>7. CASE LockPublication(p)
  <2>1. pc' \in [Processes -> PCs]
    BY <1>7 DEF LockPublication
  <2>2. lease' \in [Processes -> OpenFiles] /\ pub' \in [Processes -> OpenFiles]
    BY <1>7, <1>f, <1>g DEF LockPublication
  <2>3. leaseFile' \in [Keys -> Inodes \cup {None}] /\ pubFile' \in [Keys -> Inodes \cup {None}]
    BY <1>7, <1>a, <1>d DEF LockPublication
  <2>4. QED BY <1>7, <2>1, <2>2, <2>3 DEF LockPublication
<1>8. CASE Inspect(p)
  BY <1>8, <1>a, <1>b, <1>c, DirectoryUpdates DEF Inspect, KeyPCs, Readable
<1>9. CASE Recover(p)
  BY <1>9, <1>a, <1>b, <1>c, DirectoryUpdates DEF Recover, KeyPCs
<1>10. CASE Publish(p)
  BY <1>10, <1>a, <1>b, <1>c, DirectoryUpdates DEF Publish, KeyPCs
<1>11. CASE Commit(p)
  BY <1>11, <1>a, <1>b, <1>c, DirectoryUpdates DEF Commit, KeyPCs
<1>12. CASE Release(p)
  <2>1. pc' \in [Processes -> PCs]
    BY <1>12 DEF Release
  <2>2. lease' \in [Processes -> OpenFiles] /\ pub' \in [Processes -> OpenFiles]
    BY <1>12, <1>f, <1>g DEF Release
  <2>3. leaseFile' \in [Keys -> Inodes \cup {None}] /\ pubFile' \in [Keys -> Inodes \cup {None}]
    BY <1>12, <1>a, <1>d DEF Release
  <2>4. QED BY <1>12, <2>1, <2>2, <2>3 DEF Release
<1>13. CASE StopReading(p)
  <2>1. pc' \in [Processes -> PCs]
    BY <1>13 DEF StopReading
  <2>2. lease' \in [Processes -> OpenFiles] /\ pub' \in [Processes -> OpenFiles]
    BY <1>13, <1>f, <1>g DEF StopReading
  <2>3. leaseFile' \in [Keys -> Inodes \cup {None}] /\ pubFile' \in [Keys -> Inodes \cup {None}]
    BY <1>13, <1>a, <1>d DEF StopReading
  <2>4. QED BY <1>13, <2>1, <2>2, <2>3 DEF StopReading
<1>14. CASE BeginSweep(p)
  BY <1>14 DEF BeginSweep
<1>15. CASE OpenCandidate(p)
  <2>1. pc' \in [Processes -> PCs]
    BY <1>15 DEF OpenCandidate
  <2>2. lease' \in [Processes -> OpenFiles] /\ pub' \in [Processes -> OpenFiles]
    BY <1>15, <1>f, <1>g DEF OpenCandidate
  <2>3. leaseFile' \in [Keys -> Inodes \cup {None}] /\ pubFile' \in [Keys -> Inodes \cup {None}]
    BY <1>15, <1>a, <1>d DEF OpenCandidate
  <2>4. QED BY <1>15, <2>1, <2>2, <2>3 DEF OpenCandidate
<1>16. CASE TryCandidate(p)
  <2>1. pc' \in [Processes -> PCs]
    BY <1>16 DEF TryCandidate
  <2>2. lease' \in [Processes -> OpenFiles] /\ pub' \in [Processes -> OpenFiles]
    BY <1>16, <1>f, <1>g DEF TryCandidate
  <2>3. leaseFile' \in [Keys -> Inodes \cup {None}] /\ pubFile' \in [Keys -> Inodes \cup {None}]
    BY <1>16, <1>a, <1>d DEF TryCandidate
  <2>4. QED BY <1>16, <2>1, <2>2, <2>3 DEF TryCandidate
<1>17. CASE InspectCandidate(p)
  BY <1>17, <1>f, <1>g DEF InspectCandidate
<1>18. CASE Quarantine(p)
  BY <1>18, <1>f, <1>g DEF Quarantine
<1>19. CASE ListOrphans(p)
  BY <1>19 DEF ListOrphans
<1>20. CASE OpenOrphan(p)
  <2>1. pc' \in [Processes -> PCs]
    BY <1>20 DEF OpenOrphan
  <2>2. lease' \in [Processes -> OpenFiles] /\ pub' \in [Processes -> OpenFiles]
    BY <1>20, <1>f, <1>g DEF OpenOrphan
  <2>3. leaseFile' \in [Keys -> Inodes \cup {None}] /\ pubFile' \in [Keys -> Inodes \cup {None}]
    BY <1>20, <1>a, <1>d DEF OpenOrphan
  <2>4. QED BY <1>20, <2>1, <2>2, <2>3 DEF OpenOrphan
<1>21. CASE TryOrphan(p)
  <2>1. pc' \in [Processes -> PCs]
    BY <1>21 DEF TryOrphan
  <2>2. lease' \in [Processes -> OpenFiles] /\ pub' \in [Processes -> OpenFiles]
    BY <1>21, <1>f, <1>g DEF TryOrphan
  <2>3. leaseFile' \in [Keys -> Inodes \cup {None}] /\ pubFile' \in [Keys -> Inodes \cup {None}]
    BY <1>21, <1>a, <1>d DEF TryOrphan
  <2>4. QED BY <1>21, <2>1, <2>2, <2>3 DEF TryOrphan
<1>22. CASE OpenOrphanPub(p)
  BY <1>22, <1>a, <1>f, <1>g DEF OpenOrphanPub, KeyPCs, OrphanPCs
<1>23. CASE TryOrphanPub(p)
  <2>1. pc' \in [Processes -> PCs]
    BY <1>23 DEF TryOrphanPub
  <2>2. lease' \in [Processes -> OpenFiles] /\ pub' \in [Processes -> OpenFiles]
    BY <1>23, <1>f, <1>g DEF TryOrphanPub
  <2>3. leaseFile' \in [Keys -> Inodes \cup {None}] /\ pubFile' \in [Keys -> Inodes \cup {None}]
    BY <1>23, <1>a, <1>d DEF TryOrphanPub
  <2>4. QED BY <1>23, <2>1, <2>2, <2>3 DEF TryOrphanPub
<1>24. CASE UnlinkPub(p)
  <2>1. pc' \in [Processes -> PCs]
    BY <1>24 DEF UnlinkPub, KeyPCs, OrphanPCs
  <2>2. lease' \in [Processes -> OpenFiles] /\ pub' \in [Processes -> OpenFiles]
    BY <1>24, <1>f, <1>g DEF UnlinkPub, KeyPCs, OrphanPCs
  <2>3. leaseFile' \in [Keys -> Inodes \cup {None}] /\ pubFile' \in [Keys -> Inodes \cup {None}]
    BY <1>24, <1>a, <1>d DEF UnlinkPub, KeyPCs, OrphanPCs
  <2>4. QED BY <1>24, <2>1, <2>2, <2>3 DEF UnlinkPub, KeyPCs, OrphanPCs
<1>25. CASE UnlinkLease(p)
  BY <1>25, <1>a, <1>d, <1>f, <1>g DEF UnlinkLease, KeyPCs, OrphanPCs
<1>26. CASE EndSweep(p)
  BY <1>26 DEF EndSweep
<1>27. CASE Crash(p)
  <2>1. pc' \in [Processes -> PCs]
    BY <1>27 DEF Crash
  <2>2. lease' \in [Processes -> OpenFiles] /\ pub' \in [Processes -> OpenFiles]
    BY <1>27, <1>f, <1>g DEF Crash
  <2>3. leaseFile' \in [Keys -> Inodes \cup {None}] /\ pubFile' \in [Keys -> Inodes \cup {None}]
    BY <1>27, <1>a, <1>d DEF Crash
  <2>4. QED BY <1>27, <2>1, <2>2, <2>3 DEF Crash
<1>28. QED
  BY <1>1, <1>2, <1>3, <1>4, <1>5, <1>6, <1>7, <1>8, <1>9, <1>10, <1>11, <1>12, <1>13, <1>14, <1>15, <1>16, <1>17, <1>18, <1>19, <1>20, <1>21, <1>22, <1>23, <1>24, <1>25, <1>26, <1>27
     DEF Step, CommandStep, CollectorStep

\* A step of one process leaves the position of every other one alone.
Stays(q) ==
  /\ pc'[q] = pc[q] /\ key'[q] = key[q] /\ lease'[q] = lease[q] /\ pub'[q] = pub[q]
  /\ lost'[q] = lost[q]
  /\ layout' = q <=> layout = q

LEMMA StepIsLocal ==
  ASSUME Types, PositionInv, NEW p \in Processes, Step(p), NEW q \in Processes \ {p}
  PROVE  Stays(q)
<1>a. layout = p <=> pc[p] \in LayoutPCs
  BY DEF PositionInv, Position
<1> USE NoneAssumption DEF Types, Stays, locks, command, Goto, Leave, GiveUpOrphan
<1>1. CASE Begin(p)
  BY <1>1, <1>a DEF Begin
<1>2. CASE LockLayout(p)
  BY <1>2, <1>a DEF LockLayout
<1>3. CASE ResolveDirectory(p)
  BY <1>3, <1>a DEF ResolveDirectory
<1>4. CASE OpenLease(p)
  BY <1>4, <1>a DEF OpenLease
<1>5. CASE LockLease(p)
  BY <1>5, <1>a DEF LockLease
<1>6. CASE OpenPublication(p)
  BY <1>6, <1>a DEF OpenPublication
<1>7. CASE LockPublication(p)
  BY <1>7, <1>a DEF LockPublication
<1>8. CASE Inspect(p)
  BY <1>8, <1>a DEF Inspect
<1>9. CASE Recover(p)
  BY <1>9, <1>a DEF Recover
<1>10. CASE Publish(p)
  BY <1>10, <1>a DEF Publish
<1>11. CASE Commit(p)
  BY <1>11, <1>a DEF Commit
<1>12. CASE Release(p)
  BY <1>12, <1>a DEF Release
<1>13. CASE StopReading(p)
  BY <1>13, <1>a DEF StopReading
<1>14. CASE BeginSweep(p)
  BY <1>14, <1>a DEF BeginSweep
<1>15. CASE OpenCandidate(p)
  BY <1>15, <1>a DEF OpenCandidate
<1>16. CASE TryCandidate(p)
  BY <1>16, <1>a DEF TryCandidate
<1>17. CASE InspectCandidate(p)
  BY <1>17, <1>a DEF InspectCandidate
<1>18. CASE Quarantine(p)
  BY <1>18, <1>a DEF Quarantine
<1>19. CASE ListOrphans(p)
  BY <1>19, <1>a DEF ListOrphans
<1>20. CASE OpenOrphan(p)
  BY <1>20, <1>a DEF OpenOrphan
<1>21. CASE TryOrphan(p)
  BY <1>21, <1>a DEF TryOrphan
<1>22. CASE OpenOrphanPub(p)
  BY <1>22, <1>a DEF OpenOrphanPub
<1>23. CASE TryOrphanPub(p)
  BY <1>23, <1>a DEF TryOrphanPub
<1>24. CASE UnlinkPub(p)
  BY <1>24, <1>a DEF UnlinkPub
<1>25. CASE UnlinkLease(p)
  BY <1>25, <1>a DEF UnlinkLease
<1>26. CASE EndSweep(p)
  BY <1>26, <1>a DEF EndSweep, LayoutPCs, ResolvePCs, CollectPCs
<1>27. CASE Crash(p)
  BY <1>27, <1>a DEF Crash
<1>28. QED
  BY <1>1, <1>2, <1>3, <1>4, <1>5, <1>6, <1>7, <1>8, <1>9, <1>10, <1>11, <1>12, <1>13, <1>14, <1>15, <1>16, <1>17, <1>18, <1>19, <1>20, <1>21, <1>22, <1>23, <1>24, <1>25, <1>26, <1>27
     DEF Step, CommandStep, CollectorStep

LEMMA StepMovesActor ==
  ASSUME Types, PositionInv, NEW p \in Processes, Step(p)
  PROVE  Position(p)'
<1>a. Position(p)
  BY DEF PositionInv
<1>b. None \notin Inodes /\ None \notin Processes
  BY NoneAssumption
<1> USE DEF Types, Position, LeaseInv, PubInv, Has, OpenFiles, Modes, locks, command, Goto,
        Leave, GiveUpOrphan, Closed, Opened,
        LayoutPCs, KeyPCs, CandidatePCs, OrphanPCs, ResolvePCs, LeasedPCs, CollectPCs
<1>1. CASE Begin(p)
  BY <1>1, <1>a, <1>b DEF Begin
<1>2. CASE LockLayout(p)
  BY <1>2, <1>a, <1>b DEF LockLayout
<1>3. CASE ResolveDirectory(p)
  BY <1>3, <1>a, <1>b DEF ResolveDirectory
<1>4. CASE OpenLease(p)
  BY <1>4, <1>a, <1>b DEF OpenLease
<1>5. CASE LockLease(p)
  BY <1>5, <1>a, <1>b DEF LockLease
<1>6. CASE OpenPublication(p)
  BY <1>6, <1>a, <1>b DEF OpenPublication
<1>7. CASE LockPublication(p)
  BY <1>7, <1>a, <1>b DEF LockPublication
<1>8. CASE Inspect(p)
  BY <1>8, <1>a, <1>b DEF Inspect
<1>9. CASE Recover(p)
  BY <1>9, <1>a, <1>b DEF Recover
<1>10. CASE Publish(p)
  BY <1>10, <1>a, <1>b DEF Publish
<1>11. CASE Commit(p)
  BY <1>11, <1>a, <1>b DEF Commit
<1>12. CASE Release(p)
  BY <1>12, <1>a, <1>b DEF Release
<1>13. CASE StopReading(p)
  BY <1>13, <1>a, <1>b DEF StopReading
<1>14. CASE BeginSweep(p)
  BY <1>14, <1>a, <1>b DEF BeginSweep
<1>15. CASE OpenCandidate(p)
  BY <1>15, <1>a, <1>b DEF OpenCandidate
<1>16. CASE TryCandidate(p)
  BY <1>16, <1>a, <1>b DEF TryCandidate
<1>17. CASE InspectCandidate(p)
  BY <1>17, <1>a, <1>b DEF InspectCandidate
<1>18. CASE Quarantine(p)
  BY <1>18, <1>a, <1>b DEF Quarantine
<1>19. CASE ListOrphans(p)
  BY <1>19, <1>a, <1>b DEF ListOrphans
<1>20. CASE OpenOrphan(p)
  BY <1>20, <1>a, <1>b DEF OpenOrphan
<1>21. CASE TryOrphan(p)
  BY <1>21, <1>a, <1>b DEF TryOrphan
<1>22. CASE OpenOrphanPub(p)
  BY <1>22, <1>a, <1>b DEF OpenOrphanPub
<1>23. CASE TryOrphanPub(p)
  BY <1>23, <1>a, <1>b DEF TryOrphanPub
<1>24. CASE UnlinkPub(p)
  BY <1>24, <1>a, <1>b DEF UnlinkPub
<1>25. CASE UnlinkLease(p)
  BY <1>25, <1>a, <1>b DEF UnlinkLease
<1>26. CASE EndSweep(p)
  BY <1>26, <1>a, <1>b DEF EndSweep
<1>27. CASE Crash(p)
  BY <1>27, <1>a, <1>b DEF Crash
<1>28. QED
  BY <1>1, <1>2, <1>3, <1>4, <1>5, <1>6, <1>7, <1>8, <1>9, <1>10, <1>11, <1>12, <1>13, <1>14, <1>15, <1>16, <1>17, <1>18, <1>19, <1>20, <1>21, <1>22, <1>23, <1>24, <1>25, <1>26, <1>27
     DEF Step, CommandStep, CollectorStep

(***************************************************************************)
(* Locks.                                                                  *)
(***************************************************************************)
\* p closes its file, opens one, or gets a lock that nobody is in the way of.
LocksRightly(open, new, p) ==
  \/ new[p] = open[p]
  \/ new[p].mode = "none"
  \/ /\ new[p].inode = open[p].inode
     /\ \/ new[p].mode = "shared" /\ CanShare(open, p)
        \/ new[p].mode = "exclusive" /\ CanExclude(open, p)

LEMMA LockingExcludes ==
  ASSUME NEW open, NEW new, NEW p \in Processes, LocksRightly(open, new, p),
         \A q \in Processes \ {p} : new[q] = open[q],
         \A q \in Processes : Alone(open, q)
  PROVE  \A q \in Processes : Alone(new, q)
BY DEF LocksRightly, Alone, CanShare, CanExclude

LEMMA StepLocksRightly ==
  ASSUME Types, PositionInv, NEW p \in Processes, Step(p)
  PROVE  LocksRightly(lease, lease', p) /\ LocksRightly(pub, pub', p)
<1> USE DEF Types, LocksRightly, locks, Goto, Leave, GiveUpOrphan, Closed, Opened, OpenFiles,
        Modes
<1>1. CASE UNCHANGED <<lease, pub>>
  BY <1>1
<1>2. CASE Begin(p) \/ LockLayout(p) \/ ResolveDirectory(p) \/ Inspect(p) \/ Recover(p)
  BY <1>1, <1>2 DEF Begin, LockLayout, ResolveDirectory, Inspect, Recover
<1>3. CASE Publish(p) \/ Commit(p) \/ BeginSweep(p) \/ ListOrphans(p) \/ EndSweep(p)
  BY <1>1, <1>3 DEF Publish, Commit, BeginSweep, ListOrphans, EndSweep
<1>4. CASE OpenLease(p)
  BY <1>4 DEF OpenLease
<1>5. CASE LockLease(p)
  BY <1>5 DEF LockLease
<1>6. CASE OpenPublication(p)
  BY <1>6 DEF OpenPublication
<1>7. CASE LockPublication(p)
  BY <1>7 DEF LockPublication
<1>8. CASE StopReading(p) \/ Release(p)
  BY <1>8 DEF StopReading, Release
<1>9. CASE OpenCandidate(p)
  BY <1>9 DEF OpenCandidate
<1>10. CASE TryCandidate(p)
  BY <1>10 DEF TryCandidate
<1>11. CASE InspectCandidate(p) \/ Quarantine(p)
  BY <1>11 DEF InspectCandidate, Quarantine
<1>12. CASE OpenOrphan(p)
  BY <1>12 DEF OpenOrphan
<1>13. CASE TryOrphan(p)
  BY <1>13 DEF TryOrphan
<1>14. CASE OpenOrphanPub(p) \/ UnlinkPub(p) \/ UnlinkLease(p)
  BY <1>14 DEF OpenOrphanPub, UnlinkPub, UnlinkLease
<1>15. CASE TryOrphanPub(p)
  BY <1>15 DEF TryOrphanPub
<1>16. CASE Crash(p)
  BY <1>16 DEF Crash
<1>17. QED
  BY <1>2, <1>3, <1>4, <1>5, <1>6, <1>7, <1>8, <1>9, <1>10, <1>11, <1>12, <1>13, <1>14,
     <1>15, <1>16 DEF Step, CommandStep, CollectorStep

\* A command can have no file of a key open that the collector has locked.
LEMMA LockedKeyIsFree ==
  ASSUME Types, PositionInv, LocksExclude, NamesFindLocks,
         NEW p \in Processes, NEW q \in Processes \ {p}, key[q] = key[p],
         pc[p] \in (CandidatePCs \cup OrphanPCs) \ {"tryCandidate", "tryOrphan"},
         pc[q] \in ResolvePCs \cup LeasedPCs
  PROVE  lease[q] = Closed /\ pc[q] \in {"layout", "release"}
<1>1. Has(lease[p], {"exclusive"}) /\ lease[p].inode = leaseFile[key[p]] /\ layout = p
  BY DEF PositionInv, Position, LeaseInv, NamesFindLocks, NameInv, CandidatePCs, OrphanPCs,
         LayoutPCs, CollectPCs
<1>2. pc[q] \notin {"resolve", "openLease", "lockLease"}
  BY <1>1 DEF PositionInv, Position, LayoutPCs, ResolvePCs
<1>3. lease[q] = Closed \/ Has(lease[q], {"shared"})
  BY <1>2 DEF PositionInv, Position, LeaseInv, ResolvePCs, LeasedPCs
<1>4. lease[q].inode \in {None, leaseFile[key[q]]}
  BY DEF NamesFindLocks, NameInv
<1>5. lease[q].inode = lease[p].inode => lease[q].mode = "none"
  BY <1>1 DEF LocksExclude, Alone, Has
<1>6. lease[q] = Closed
  BY <1>1, <1>3, <1>4, <1>5, NoneAssumption DEF Has
<1>7. pc[q] \notin LeasedPCs \ {"release"}
  BY <1>6, NoneAssumption DEF PositionInv, Position, LeaseInv, Has, Closed
<1>8. QED
  BY <1>2, <1>6, <1>7 DEF ResolvePCs, LeasedPCs

(***************************************************************************)
(* Names.                                                                  *)
(***************************************************************************)
\* A name appears where there was none, and goes with the file it is that of.
LEMMA NamesChange ==
  ASSUME Types, PositionInv, NEW p \in Processes, Step(p), NEW k \in Keys
  PROVE  /\ leaseFile'[k] # leaseFile[k] =>
              \/ leaseFile[k] = None
              \/ UnlinkLease(p) /\ k = key[p] /\ leaseFile[k] = lease[p].inode
                 /\ leaseFile'[k] = None
         /\ pubFile'[k] # pubFile[k] =>
              \/ pubFile[k] = None /\ OpenPublication(p) /\ k = key[p]
              \/ UnlinkPub(p) /\ k = key[p] /\ pubFile[k] = pub[p].inode
                 /\ pubFile'[k] = None
<1> USE DEF Types, files, OpenOrCreate
<1>1. CASE UNCHANGED <<leaseFile, pubFile>>
  BY <1>1
<1>2. CASE \/ Begin(p) \/ LockLayout(p) \/ ResolveDirectory(p) \/ Inspect(p) \/ Recover(p)
           \/ Publish(p) \/ Commit(p) \/ StopReading(p) \/ Release(p)
  BY <1>1, <1>2 DEF Begin, LockLayout, ResolveDirectory, Inspect, Recover, Publish, Commit,
                StopReading, Release
<1>3. CASE \/ BeginSweep(p) \/ ListOrphans(p) \/ EndSweep(p) \/ LockLease(p)
           \/ LockPublication(p) \/ TryCandidate(p) \/ InspectCandidate(p) \/ Quarantine(p)
           \/ TryOrphan(p) \/ OpenOrphanPub(p) \/ TryOrphanPub(p) \/ Crash(p)
  BY <1>1, <1>3 DEF BeginSweep, ListOrphans, EndSweep, LockLease, LockPublication,
                TryCandidate, InspectCandidate, Quarantine, TryOrphan, OpenOrphanPub,
                TryOrphanPub, Crash
<1>4. CASE OpenLease(p)
  BY <1>4 DEF OpenLease
<1>5. CASE OpenPublication(p)
  BY <1>5 DEF OpenPublication
<1>6. CASE OpenCandidate(p)
  BY <1>6 DEF OpenCandidate
<1>7. CASE OpenOrphan(p)
  BY <1>7 DEF OpenOrphan
<1>8. CASE UnlinkPub(p)
  BY <1>8 DEF UnlinkPub
<1>9. CASE UnlinkLease(p)
  BY <1>9 DEF UnlinkLease
<1>10. QED
  BY <1>2, <1>3, <1>4, <1>5, <1>6, <1>7, <1>8, <1>9 DEF Step, CommandStep, CollectorStep

\* The names of the files that the other processes have open stay.
LEMMA StepKeepsOtherNames ==
  ASSUME Types, PositionInv, LocksExclude, NamesFindLocks,
         NEW p \in Processes, Step(p), NEW q \in Processes \ {p}
  PROVE  NameInv(q)'
<1>0. Stays(q) /\ NameInv(q) /\ Position(q) /\ Position(p) /\ NameInv(p)
  BY StepIsLocal DEF NamesFindLocks, PositionInv
<1>1. CASE pc[q] \notin KeyPCs
  BY <1>0, <1>1 DEF Stays, NameInv, KeyPCs, OrphanPCs
<1>2. CASE pc[q] \in KeyPCs
  <2>1. key[q] \in Keys
    BY <1>0, <1>2 DEF Position
  <2>2. lease[q].inode # None => leaseFile'[key[q]] = leaseFile[key[q]] \/ lease[q].inode # leaseFile[key[q]]
    <3> SUFFICES ASSUME lease[q].inode = leaseFile[key[q]], lease[q].inode # None,
                        leaseFile'[key[q]] # leaseFile[key[q]]
                 PROVE  FALSE
      OBVIOUS
    <3>1. UnlinkLease(p) /\ key[q] = key[p] /\ pc[p] = "unlinkLease"
      BY <2>1, NamesChange DEF UnlinkLease
    <3>2. layout = p
      BY <1>0, <3>1 DEF Position, LayoutPCs, CollectPCs
    <3>3. pc[q] \in ResolvePCs \cup LeasedPCs
      BY <1>0, <1>2, <3>2 DEF Position, LayoutPCs, KeyPCs, CandidatePCs, OrphanPCs, CollectPCs
    <3>4. lease[q] = Closed
      BY <3>1, <3>3, LockedKeyIsFree DEF OrphanPCs
    <3>5. QED BY <3>4 DEF Closed
  <2>3. pub[q].inode # None => pubFile'[key[q]] = pubFile[key[q]] \/ pub[q].inode # pubFile[key[q]]
    <3> SUFFICES ASSUME pub[q].inode = pubFile[key[q]], pub[q].inode # None,
                        pubFile'[key[q]] # pubFile[key[q]]
                 PROVE  FALSE
      OBVIOUS
    <3>1. /\ UnlinkPub(p) /\ key[q] = key[p] /\ pc[p] = "unlinkPub"
          /\ pub[q].inode = pub[p].inode
      BY <2>1, NamesChange DEF UnlinkPub
    <3>2. layout = p /\ Has(pub[p], {"exclusive"})
      BY <1>0, <3>1 DEF Position, PubInv, LayoutPCs, CollectPCs
    <3>3. pub[q].mode = "none"
      BY <3>1, <3>2 DEF LocksExclude, Alone, Has
    <3>4. pc[q] \in ResolvePCs \cup LeasedPCs
      BY <1>0, <1>2, <3>2 DEF Position, LayoutPCs, KeyPCs, CandidatePCs, OrphanPCs, CollectPCs
    <3>5. pc[q] = "release"
      BY <1>0, <3>1, <3>2, <3>3, <3>4, LockedKeyIsFree, NoneAssumption
         DEF OrphanPCs, Position, PubInv, Closed, ResolvePCs
    <3>6. QED BY <1>0, <3>3, <3>5 DEF Position, PubInv, Has, Closed
  <2>4. pc[q] = "unlinkLease" => pubFile'[key[q]] = pubFile[key[q]]
    <3> SUFFICES ASSUME pc[q] = "unlinkLease", pubFile'[key[q]] # pubFile[key[q]]
                 PROVE  FALSE
      OBVIOUS
    <3>1. pubFile[key[q]] = None /\ layout = q
      BY <1>0 DEF NameInv, Position, LayoutPCs, CollectPCs
    <3>2. layout # p /\ pc[p] \notin CollectPCs
      BY <1>0, <3>1 DEF Position, LayoutPCs
    <3>3. OpenPublication(p) /\ key[q] = key[p] /\ pc[p] = "openPub"
      BY <2>1, <3>2, NamesChange DEF OpenPublication, UnlinkPub, CollectPCs, Goto
    <3>4. QED BY <3>3, LockedKeyIsFree DEF OrphanPCs, LeasedPCs
  <2>5. pc[q] \in CandidatePCs \cup OrphanPCs => lease[q].inode # None
    BY <1>0, NoneAssumption DEF Position, LeaseInv, Has, CandidatePCs, OrphanPCs
  <2>6. pc[q] \in {"tryOrphanPub", "unlinkPub"} => pub[q].inode # None
    BY <1>0, NoneAssumption DEF Position, PubInv, Has
  <2>7. QED BY <1>0, <2>2, <2>3, <2>4, <2>5, <2>6 DEF Stays, NameInv
<1>3. QED BY <1>1, <1>2

LEMMA StepKeepsOwnNames ==
  ASSUME Types, PositionInv, NamesFindLocks, NEW p \in Processes, Step(p)
  PROVE  NameInv(p)'
<1>a. NameInv(p) /\ Position(p)
  BY DEF NamesFindLocks, PositionInv
<1>b. None \notin Inodes
  BY NoneAssumption
<1> USE DEF Types, NameInv, Position, LeaseInv, PubInv, Has, OpenFiles, Closed, Opened,
        OpenOrCreate, files, locks, command, Goto, Leave, GiveUpOrphan,
        KeyPCs, CandidatePCs, OrphanPCs, ResolvePCs, LeasedPCs
<1>1. CASE Begin(p)
  BY <1>1, <1>a, <1>b DEF Begin
<1>2. CASE LockLayout(p)
  BY <1>2, <1>a, <1>b DEF LockLayout
<1>3. CASE ResolveDirectory(p)
  BY <1>3, <1>a, <1>b DEF ResolveDirectory
<1>4. CASE OpenLease(p)
  BY <1>4, <1>a, <1>b DEF OpenLease
<1>5. CASE LockLease(p)
  BY <1>5, <1>a, <1>b DEF LockLease
<1>6. CASE OpenPublication(p)
  BY <1>6, <1>a, <1>b DEF OpenPublication
<1>7. CASE LockPublication(p)
  BY <1>7, <1>a, <1>b DEF LockPublication
<1>8. CASE Inspect(p)
  BY <1>8, <1>a, <1>b DEF Inspect
<1>9. CASE Recover(p)
  BY <1>9, <1>a, <1>b DEF Recover
<1>10. CASE Publish(p)
  BY <1>10, <1>a, <1>b DEF Publish
<1>11. CASE Commit(p)
  BY <1>11, <1>a, <1>b DEF Commit
<1>12. CASE Release(p)
  BY <1>12, <1>a, <1>b DEF Release
<1>13. CASE StopReading(p)
  BY <1>13, <1>a, <1>b DEF StopReading
<1>14. CASE BeginSweep(p)
  BY <1>14, <1>a, <1>b DEF BeginSweep
<1>15. CASE OpenCandidate(p)
  BY <1>15, <1>a, <1>b DEF OpenCandidate
<1>16. CASE TryCandidate(p)
  BY <1>16, <1>a, <1>b DEF TryCandidate
<1>17. CASE InspectCandidate(p)
  BY <1>17, <1>a, <1>b DEF InspectCandidate
<1>18. CASE Quarantine(p)
  BY <1>18, <1>a, <1>b DEF Quarantine
<1>19. CASE ListOrphans(p)
  BY <1>19, <1>a, <1>b DEF ListOrphans
<1>20. CASE OpenOrphan(p)
  BY <1>20, <1>a, <1>b DEF OpenOrphan
<1>21. CASE TryOrphan(p)
  BY <1>21, <1>a, <1>b DEF TryOrphan
<1>22. CASE OpenOrphanPub(p)
  BY <1>22, <1>a, <1>b DEF OpenOrphanPub
<1>23. CASE TryOrphanPub(p)
  BY <1>23, <1>a, <1>b DEF TryOrphanPub
<1>24. CASE UnlinkPub(p)
  BY <1>24, <1>a, <1>b DEF UnlinkPub
<1>25. CASE UnlinkLease(p)
  BY <1>25, <1>a, <1>b DEF UnlinkLease
<1>26. CASE EndSweep(p)
  BY <1>26, <1>a, <1>b DEF EndSweep
<1>27. CASE Crash(p)
  BY <1>27, <1>a, <1>b DEF Crash
<1>28. QED
  BY <1>1, <1>2, <1>3, <1>4, <1>5, <1>6, <1>7, <1>8, <1>9, <1>10, <1>11, <1>12, <1>13, <1>14,
     <1>15, <1>16, <1>17, <1>18, <1>19, <1>20, <1>21, <1>22, <1>23, <1>24, <1>25, <1>26, <1>27
     DEF Step, CommandStep, CollectorStep

(***************************************************************************)
(* Directories.                                                            *)
(***************************************************************************)
\* Only the collector removes a directory, and only a publisher marks one.
LEMMA DirectoriesChange ==
  ASSUME Types, PositionInv, NEW p \in Processes, Step(p), NEW k \in Keys
  PROVE  /\ Present(k) /\ ~Present(k)' => Quarantine(p) /\ k = key[p]
         /\ Present(k)' /\ cache'[k].marked =>
              (Present(k) /\ cache[k].marked) \/ (Publish(p) /\ k = key[p])
<1>a. EmptyDirectory # None /\ \A d \in Directories : d # None
  BY DirectoryAssumption, DirectoryUpdates
<1> USE DEF Types, Present, files
<1>1. CASE UNCHANGED cache
  BY <1>1
<1>2. CASE \/ Begin(p) \/ LockLayout(p) \/ OpenLease(p) \/ LockLease(p) \/ OpenPublication(p)
           \/ LockPublication(p) \/ StopReading(p) \/ Release(p) \/ BeginSweep(p)
  BY <1>1, <1>2 DEF Begin, LockLayout, OpenLease, LockLease, OpenPublication,
                LockPublication, StopReading, Release, BeginSweep
<1>3. CASE \/ OpenCandidate(p) \/ TryCandidate(p) \/ InspectCandidate(p) \/ ListOrphans(p)
           \/ OpenOrphan(p) \/ TryOrphan(p) \/ OpenOrphanPub(p) \/ TryOrphanPub(p)
           \/ UnlinkPub(p) \/ UnlinkLease(p) \/ EndSweep(p) \/ Crash(p)
  BY <1>1, <1>3 DEF OpenCandidate, TryCandidate, InspectCandidate, ListOrphans, OpenOrphan,
                TryOrphan, OpenOrphanPub, TryOrphanPub, UnlinkPub, UnlinkLease, EndSweep, Crash
<1>4. CASE ResolveDirectory(p)
  BY <1>4, <1>a DEF ResolveDirectory, EmptyDirectory
<1>5. ASSUME NEW d \in Directories, cache' = [cache EXCEPT ![key[p]] = d],
             d.marked => Present(key[p]) /\ (cache[key[p]].marked \/ Publish(p))
      PROVE  /\ Present(k) => Present(k)'
             /\ Present(k)' /\ cache'[k].marked =>
                  (Present(k) /\ cache[k].marked) \/ (Publish(p) /\ k = key[p])
  BY <1>5, <1>a
<1>6. \A j \in Keys : cache[j] # None => cache[j] \in Directories
  OBVIOUS
<1>7. pc[p] \in KeyPCs => key[p] \in Keys
  BY DEF PositionInv, Position
<1>8. CASE Inspect(p)
  <2>1. CASE Readable(key[p])
    <3>1. cache' = [cache EXCEPT ![key[p]] = [cache[key[p]] EXCEPT !.stale = FALSE]]
      BY <1>8, <2>1 DEF Inspect
    <3>2. cache[key[p]] \in Directories
      BY <1>6, <1>7, <1>8, <2>1 DEF Inspect, Readable, Goto, KeyPCs, LeasedPCs
    <3>3. ~[cache[key[p]] EXCEPT !.stale = FALSE].marked
      BY <2>1, <3>2 DEF Directories, Readable
    <3>4. QED BY <1>5, <3>1, <3>2, <3>3, DirectoryUpdates
  <2>2. CASE ~Readable(key[p])
    BY <1>1, <1>8, <2>2 DEF Inspect
  <2>3. QED BY <2>1, <2>2
<1>9. CASE Recover(p)
  <2>1. CASE Present(key[p])
    <3>1. cache' = [cache EXCEPT ![key[p]] = [cache[key[p]] EXCEPT !.marked = FALSE]]
      BY <1>9, <2>1 DEF Recover
    <3>2. cache[key[p]] \in Directories
      BY <1>6, <1>7, <1>9, <2>1 DEF Recover, Goto, KeyPCs, LeasedPCs
    <3>3. [cache[key[p]] EXCEPT !.marked = FALSE].marked = FALSE
      BY <3>2 DEF Directories
    <3>4. QED BY <1>5, <2>1, <3>1, <3>2, <3>3, DirectoryUpdates
  <2>2. CASE ~Present(key[p])
    BY <1>1, <1>9, <2>2 DEF Recover
  <2>3. QED BY <2>1, <2>2
<1>10. CASE Publish(p)
  <2>1. CASE Present(key[p])
    <3>1. cache' = [cache EXCEPT ![key[p]] = [cache[key[p]] EXCEPT !.marked = TRUE]]
      BY <1>10, <2>1 DEF Publish
    <3>2. cache[key[p]] \in Directories
      BY <1>6, <1>7, <1>10, <2>1 DEF Publish, Goto, KeyPCs, LeasedPCs
    <3>3. QED BY <1>5, <1>10, <2>1, <3>1, <3>2, DirectoryUpdates
  <2>2. CASE ~Present(key[p])
    BY <1>1, <1>10, <2>2 DEF Publish
  <2>3. QED BY <2>1, <2>2
<1>11. CASE Commit(p)
  <2>1. CASE Present(key[p])
    <3>1. PICK index \in BOOLEAN :
            cache' = [cache EXCEPT ![key[p]] =
                        [index |-> index, marked |-> FALSE, stale |-> FALSE]]
      BY <1>11, <2>1 DEF Commit
    <3>2. [index |-> index, marked |-> FALSE, stale |-> FALSE].marked = FALSE
      OBVIOUS
    <3>3. QED BY <1>5, <3>1, <3>2, DirectoryUpdates
  <2>2. CASE ~Present(key[p])
    BY <1>1, <1>11, <2>2 DEF Commit
  <2>3. QED BY <2>1, <2>2
<1>12. CASE Quarantine(p)
  BY <1>12 DEF Quarantine
<1>13. QED
  BY <1>2, <1>3, <1>4, <1>8, <1>9, <1>10, <1>11, <1>12 DEF Step, CommandStep, CollectorStep

\* Where a directory is in use.
Uses(p) == pc[p] \in {"openLease", "lockLease"} \/ lease[p].mode = "shared"

\* The use of a directory begins with its resolution.
LEMMA UseBegins ==
  ASSUME Types, PositionInv, NEW p \in Processes, Step(p), Uses(p)'
  PROVE  \/ ResolveDirectory(p)
         \/ /\ Uses(p) /\ key'[p] = key[p] /\ lost'[p] = lost[p]
            /\ pc[p] # "quarantine"
<1>a. Position(p)
  BY DEF PositionInv
<1> USE DEF Types, Uses, Position, LeaseInv, Has, OpenFiles, Closed, Opened, locks, command,
        Goto, Leave, GiveUpOrphan, CandidatePCs, OrphanPCs, LeasedPCs
<1>1. CASE Begin(p)
  BY <1>1, <1>a DEF Begin
<1>2. CASE LockLayout(p)
  BY <1>2, <1>a DEF LockLayout
<1>3. CASE OpenLease(p)
  BY <1>3, <1>a DEF OpenLease
<1>4. CASE LockLease(p)
  BY <1>4, <1>a DEF LockLease
<1>5. CASE OpenPublication(p)
  BY <1>5, <1>a DEF OpenPublication
<1>6. CASE LockPublication(p)
  BY <1>6, <1>a DEF LockPublication
<1>7. CASE Inspect(p)
  BY <1>7, <1>a DEF Inspect
<1>8. CASE Recover(p)
  BY <1>8, <1>a DEF Recover
<1>9. CASE Publish(p)
  BY <1>9, <1>a DEF Publish
<1>10. CASE Commit(p)
  BY <1>10, <1>a DEF Commit
<1>11. CASE Release(p)
  BY <1>11, <1>a DEF Release
<1>12. CASE StopReading(p)
  BY <1>12, <1>a DEF StopReading
<1>13. CASE BeginSweep(p)
  BY <1>13, <1>a DEF BeginSweep
<1>14. CASE OpenCandidate(p)
  BY <1>14, <1>a DEF OpenCandidate
<1>15. CASE TryCandidate(p)
  BY <1>15, <1>a DEF TryCandidate
<1>16. CASE InspectCandidate(p)
  BY <1>16, <1>a DEF InspectCandidate
<1>17. CASE Quarantine(p)
  BY <1>17, <1>a DEF Quarantine
<1>18. CASE ListOrphans(p)
  BY <1>18, <1>a DEF ListOrphans
<1>19. CASE OpenOrphan(p)
  BY <1>19, <1>a DEF OpenOrphan
<1>20. CASE TryOrphan(p)
  BY <1>20, <1>a DEF TryOrphan
<1>21. CASE OpenOrphanPub(p)
  BY <1>21, <1>a DEF OpenOrphanPub
<1>22. CASE TryOrphanPub(p)
  BY <1>22, <1>a DEF TryOrphanPub
<1>23. CASE UnlinkPub(p)
  BY <1>23, <1>a DEF UnlinkPub
<1>24. CASE UnlinkLease(p)
  BY <1>24, <1>a DEF UnlinkLease
<1>25. CASE EndSweep(p)
  BY <1>25, <1>a DEF EndSweep
<1>26. CASE Crash(p)
  BY <1>26, <1>a DEF Crash
<1>27. QED
  BY <1>1, <1>2, <1>3, <1>4, <1>5, <1>6, <1>7, <1>8, <1>9, <1>10, <1>11, <1>12, <1>13, <1>14,
     <1>15, <1>16, <1>17, <1>18, <1>19, <1>20, <1>21, <1>22, <1>23, <1>24, <1>25, <1>26
     DEF Step, CommandStep, CollectorStep

\* Whoever uses a directory is in a position to.
LEMMA UsersPosition ==
  ASSUME Types, PositionInv, NEW p \in Processes, Uses(p)
  PROVE  pc[p] \in ResolvePCs \cup LeasedPCs /\ key[p] \in Keys
<1>1. pc[p] \in PCs /\ Position(p)
  BY DEF Types, PositionInv
<1>2. pc[p] \in ResolvePCs \cup LeasedPCs
  BY <1>1 DEF PCs, Position, LeaseInv, Uses, Has, Closed, ResolvePCs, LeasedPCs, CollectPCs,
              CandidatePCs, OrphanPCs
<1>3. QED BY <1>1, <1>2 DEF Position, KeyPCs

LEMMA StepKeepsDirectories ==
  ASSUME Types, PositionInv, LocksExclude, NamesFindLocks, KeptInv,
         NEW p \in Processes, Step(p)
  PROVE  KeptInv'
<1>1. ASSUME NEW q \in Processes, Uses(q)', ~lost'[q] PROVE Present(key[q])'
  <2>1. CASE q = p /\ ResolveDirectory(p)
    <3>1. key[p] \in Keys /\ key' = key
      BY <2>1 DEF PositionInv, Position, ResolveDirectory, Goto, KeyPCs, ResolvePCs, command
    <3>2. EmptyDirectory # None
      BY DirectoryAssumption, DirectoryUpdates
    <3>3. QED BY <2>1, <3>1, <3>2 DEF Types, ResolveDirectory, Present
  <2>2. CASE ~(q = p /\ ResolveDirectory(p))
    <3>1. Uses(q) /\ key'[q] = key[q] /\ ~lost[q] /\ ~(q = p /\ Quarantine(p))
      BY <1>1, <2>2, StepIsLocal, UseBegins DEF Stays, Uses, Quarantine, Goto
    <3>2. /\ pc[q] \in ResolvePCs \cup LeasedPCs /\ key[q] \in Keys
          /\ Present(key[q])
      BY <3>1, UsersPosition DEF KeptInv, InUseIsKept, Uses
    <3>3. ~(Quarantine(p) /\ key[q] = key[p])
      BY <3>1, <3>2, LockedKeyIsFree DEF Quarantine, Goto, CandidatePCs, Uses, Closed
    <3>4. QED BY <3>1, <3>2, <3>3, DirectoriesChange DEF Present
  <2>3. QED BY <2>1, <2>2
<1>2. ASSUME NEW q \in Processes, pc'[q] = "quarantine", Present(key[q])'
      PROVE  ~cache'[key'[q]].marked
  <2>1. CASE q = p
    <3>1. InspectCandidate(p) /\ Collectable(key[p]) /\ key' = key /\ cache' = cache
      BY <1>2, <2>1 DEF Types, Step, CommandStep, CollectorStep, Goto, Leave, GiveUpOrphan,
         Begin, LockLayout, ResolveDirectory, OpenLease, LockLease, OpenPublication,
         LockPublication, Inspect, Recover, Publish, Commit, Release, StopReading, BeginSweep,
         OpenCandidate, TryCandidate, InspectCandidate, Quarantine, ListOrphans, OpenOrphan,
         TryOrphan, OpenOrphanPub, TryOrphanPub, UnlinkPub, UnlinkLease, EndSweep, Crash,
         command, files
    <3>2. QED BY <2>1, <3>1 DEF Collectable
  <2>2. CASE q # p
    <3>1. pc[q] = "quarantine" /\ key'[q] = key[q]
      BY <1>2, <2>2, StepIsLocal DEF Stays
    <3>2. key[q] \in Keys /\ (Present(key[q]) => ~cache[key[q]].marked)
      BY <3>1 DEF PositionInv, Position, KeyPCs, CandidatePCs, KeptInv
    <3>3. ~(Publish(p) /\ key[p] = key[q])
      BY <2>2, <3>1, LockedKeyIsFree DEF Publish, Goto, CandidatePCs, LeasedPCs
    <3>4. QED BY <1>2, <3>1, <3>2, <3>3, DirectoriesChange DEF Present
  <2>3. QED BY <2>1, <2>2
<1>3. QED
  BY <1>1, <1>2 DEF KeptInv, InUseIsKept, Uses, Present

(***************************************************************************)
(* The environment, and the theorems.                                      *)
(***************************************************************************)
LEMMA EnvironmentKeepsInv ==
  ASSUME Inv, NEW k \in Keys, Age(k) \/ Vanish(k)
  PROVE  Inv'
<1> USE DEF Inv
<1>1. UNCHANGED <<leaseFile, pubFile, layout, lease, pub, pc, role, key, keep, todo, commands,
                  crashes>>
  BY DEF Age, Vanish, locks, command, sweep, budgets
<1>2. cache[k] \in Directories
  BY DEF Age, Vanish, Present, Types
<1>3. Types'
  <2>1. CASE Age(k)
    BY <1>1, <1>2, <2>1, DirectoryUpdates DEF Types, Age, command, budgets
  <2>2. CASE Vanish(k)
    BY <1>1, <2>2 DEF Types, Vanish, InUse
  <2>3. QED BY <2>1, <2>2
<1>4. PositionInv' /\ LocksExclude' /\ NamesFindLocks'
  BY <1>1 DEF PositionInv, Position, LeaseInv, PubInv, Has, LocksExclude, Alone,
              NamesFindLocks, NameInv
<1>5. KeptInv'
  <2>1. CASE Age(k)
    <3>1. /\ UNCHANGED lost
          /\ cache' = [cache EXCEPT ![k] = [cache[k] EXCEPT !.stale = TRUE]]
      BY <2>1 DEF Age, command
    <3>2. \A j \in Keys : Present(j) => Present(j)'
      BY <1>2, <3>1, DirectoryUpdates, DirectoryAssumption DEF Types, Present
    <3>3. \A j \in Keys : Present(j)' => Present(j) /\ cache'[j].marked = cache[j].marked
      BY <1>2, <3>1, DirectoryAssumption DEF Types, Present, Directories
    <3>4. QED BY <1>1, <3>1, <3>2, <3>3, UsersPosition DEF KeptInv, InUseIsKept, Uses,
                 PositionInv, Position, KeyPCs, CandidatePCs
  <2>2. CASE Vanish(k)
    <3>1. /\ cache' = [cache EXCEPT ![k] = None]
          /\ lost' = [p \in Processes |-> lost[p] \/ InUse(p, k)]
      BY <2>2 DEF Vanish
    <3>2. QED
      BY <1>1, <3>1, UsersPosition DEF KeptInv, InUseIsKept, InUse, Present, Types, Uses,
         PositionInv, Position, KeyPCs, CandidatePCs
  <2>3. QED BY <2>1, <2>2
<1>6. QED BY <1>3, <1>4, <1>5

LEMMA InitInv == Init => Inv
<1> SUFFICES ASSUME Init PROVE Inv
  OBVIOUS
<1>1. OldIndex \in Directories
  BY DEF OldIndex, Directories
<1>2. Types
  BY <1>1 DEF Init, Types, PCs, Roles, OpenFiles, Modes, Closed
<1>3. PositionInv
  BY NoneAssumption DEF Init, PositionInv, Position, LeaseInv, PubInv, LayoutPCs, KeyPCs,
     CandidatePCs, OrphanPCs, ResolvePCs, LeasedPCs, CollectPCs
<1>4. LocksExclude /\ NamesFindLocks /\ KeptInv
  BY DEF Init, LocksExclude, Alone, NamesFindLocks, NameInv, KeptInv, InUseIsKept, Closed,
     CandidatePCs, OrphanPCs, ResolvePCs, LeasedPCs
<1>5. QED BY <1>2, <1>3, <1>4 DEF Inv

LEMMA NextKeepsInv == Inv /\ [Next]_vars => Inv'
<1> SUFFICES ASSUME Inv, [Next]_vars PROVE Inv'
  OBVIOUS
<1>1. ASSUME NEW p \in Processes, Step(p) PROVE Inv'
  <2>1. Types'
    BY <1>1, StepKeepsTypes DEF Inv
  <2>2. PositionInv'
    <3>1. Position(p)'
      BY <1>1, StepMovesActor DEF Inv
    <3>2. ASSUME NEW q \in Processes \ {p} PROVE Position(q)'
      BY <1>1, StepIsLocal DEF Inv, PositionInv, Position, LeaseInv, PubInv, Has, Stays
    <3>3. QED BY <3>1, <3>2 DEF PositionInv
  <2>3. LocksExclude'
    <3>1. \A q \in Processes \ {p} : lease'[q] = lease[q] /\ pub'[q] = pub[q]
      BY <1>1, StepIsLocal DEF Inv, Stays
    <3>2. LocksRightly(lease, lease', p) /\ LocksRightly(pub, pub', p)
      BY <1>1, StepLocksRightly DEF Inv
    <3>3. \A q \in Processes : Alone(lease, q) /\ Alone(pub, q)
      BY DEF Inv, LocksExclude
    <3>4. \A q \in Processes : Alone(lease', q)
      BY <3>1, <3>2, <3>3, LockingExcludes
    <3>5. \A q \in Processes : Alone(pub', q)
      BY <3>1, <3>2, <3>3, LockingExcludes
    <3>6. QED BY <3>4, <3>5 DEF LocksExclude, Alone
  <2>4. NamesFindLocks'
    BY <1>1, StepKeepsOwnNames, StepKeepsOtherNames DEF Inv, NamesFindLocks
  <2>5. KeptInv'
    BY <1>1, StepKeepsDirectories DEF Inv
  <2>6. QED BY <2>1, <2>2, <2>3, <2>4, <2>5 DEF Inv
<1>2. CASE UNCHANGED vars
  BY <1>2 DEF Inv, Types, PositionInv, Position, LeaseInv, PubInv, Has, LocksExclude, Alone,
     NamesFindLocks, NameInv, KeptInv, InUseIsKept, Present,
     vars, files, locks, command, sweep, budgets
<1>3. QED
  BY <1>1, <1>2, EnvironmentKeepsInv DEF Next, Step, AllIdle

LEMMA Invariant == Spec => []Inv
BY InitInv, NextKeepsInv, PTL DEF Spec

\* Types; and between two keys a collector has no file open but the layout
\* lock, an idle process none at all.
THEOREM TypeCorrect == Spec => []TypeOK
<1>1. Inv => TypeOK
  BY DEF Inv, Types, PositionInv, Position, LeaseInv, PubInv, TypeOK, PCs, LayoutPCs
<1>2. QED BY <1>1, Invariant, PTL

\* The collector takes no directory away from a command that has resolved
\* it, however long the command has left it untouched.
THEOREM ResolvedIsKept == Spec => []InUseIsKept
<1>1. Inv => InUseIsKept
  BY DEF Inv, KeptInv
<1>2. QED BY <1>1, Invariant, PTL

\* Lock files come and go, and yet a lock file that a command has open is the
\* one that its name finds.
THEOREM NamesFindTheirLocks == Spec => []OneLockPerKey
<1>1. Inv => OneLockPerKey
  BY DEF Inv, NamesFindLocks, NameInv, OneLockPerKey
<1>2. QED BY <1>1, Invariant, PTL

\* Whoever publishes is alone with the index.
THEOREM PublicationExcludes == Spec => []PublisherIsAlone
<1>1. Inv => PublisherIsAlone
  <2> SUFFICES ASSUME Inv, NEW p \in Processes, NEW q \in Processes \ {p}, key[p] = key[q],
                      pc[p] \in {"recover", "publish", "commit"},
                      pc[q] \in {"inspect", "using", "recover", "publish", "commit"}
               PROVE  FALSE
    BY DEF PublisherIsAlone
  <2>1. Has(pub[p], {"exclusive"}) /\ Has(pub[q], {"shared", "exclusive"})
    BY DEF Inv, PositionInv, Position, PubInv, Has
  <2>2. pub[p].inode = pub[q].inode
    BY <2>1, NoneAssumption DEF Inv, NamesFindLocks, NameInv, LeasedPCs, Has
  <2>3. QED BY <2>1, <2>2 DEF Inv, LocksExclude, Alone, Has
<1>2. QED BY <1>1, Invariant, PTL

\* What an interrupted publication left behind is preserved for recovery,
\* unless somebody removes it by hand.
THEOREM InterruptedIsPreserved == Spec => InterruptedIsKept
<1>1. Inv /\ [Next]_vars =>
        [\A k \in Keys :
           Present(k) /\ cache[k].marked /\ vanished' = vanished => cache'[k] # None]_vars
  <2> SUFFICES ASSUME Inv, Next, NEW k \in Keys, Present(k), cache[k].marked,
                      vanished' = vanished
               PROVE  cache'[k] # None
    OBVIOUS
  <2>1. ASSUME NEW p \in Processes, Step(p) PROVE cache'[k] # None
    BY <2>1, DirectoriesChange DEF Inv, KeptInv, Quarantine, Goto, Present
  <2>2. ASSUME NEW j \in Keys, Age(j) PROVE cache'[k] # None
    BY <2>2, DirectoryUpdates, DirectoryAssumption DEF Age, Present, Inv, Types
  <2>3. ASSUME NEW j \in Keys, Vanish(j) PROVE FALSE
    BY <2>3 DEF Vanish, Inv, Types
  <2>4. CASE UNCHANGED vars
    BY <2>4 DEF vars, files, Present
  <2>5. QED BY <2>1, <2>2, <2>3, <2>4 DEF Next, Step, AllIdle
<1>2. QED BY <1>1, Invariant, PTL DEF Spec, InterruptedIsKept

\* Whoever holds the layout lock and comes to lock a lease gets it at once:
\* nobody but a collector locks a lease exclusively, and only while it holds
\* the layout lock itself.
THEOREM LeaseIsNotWaitedFor ==
  Spec => [](\A p \in Processes : pc[p] = "lockLease" => CanShare(lease, p))
<1>1. Inv => \A p \in Processes : pc[p] = "lockLease" => CanShare(lease, p)
  <2> SUFFICES ASSUME Inv, NEW p \in Processes, pc[p] = "lockLease",
                      NEW q \in Processes \ {p}
               PROVE  lease[q].mode # "exclusive"
    BY DEF CanShare
  <2>1. layout = p /\ Position(q) /\ pc[q] \in PCs
    BY DEF Inv, Types, PositionInv, Position, LayoutPCs, ResolvePCs
  <2>2. pc[q] \notin LayoutPCs
    BY <2>1 DEF Position
  <2>3. QED
    BY <2>1, <2>2 DEF PCs, Position, LeaseInv, Has, Closed, LayoutPCs, ResolvePCs, LeasedPCs,
       CollectPCs
<1>2. QED BY <1>1, Invariant, PTL

=============================================================================

------------------------ MODULE CacheMigrationProofs ------------------------
(***************************************************************************)
(* Proofs about CacheMigration, for any roots, projects, processes,        *)
(* remounts, kills and failing file operations.                            *)
(***************************************************************************)
EXTENDS CacheMigration, FiniteSetTheorems, TLAPS

(***************************************************************************)
(* The inductive invariant.                                                *)
(***************************************************************************)
\* What a directory has to be for a resolution to be at its place: there is
\* a target in all steps but two, and no target while it is in the trash.
TargetPCs == {"choose", "plan", "quarantine", "install", "intent", "manifest",
              "cleanup", "sweep", "own", "lease"}
MovePCs == {"plan", "quarantine", "rename"}

InNewBase(place) == place[1] = "new"

\* A command's directory stays where it is and keeps a record of the root
\* that the command was started with.
LeasesHold ==
  \A p \in Processes : at[p] # None =>
    LET place == Here(at[p].key)
    IN  /\ Exists(place) /\ dirs[place].owner # None
        /\ at[p].path \in Identities(dirs[place].owner)
        /\ p \in building => dirs[place].files

TargetInv ==
  job # None =>
    /\ job.pc \in TargetPCs => Exists(Here(job.key))
    /\ job.pc = "rename" => job.trash # None /\ ~Exists(Here(job.key))

\* What is moved has an index and is not in use, nor is what it replaces.
MoveInv ==
  job # None =>
    /\ job.pc \in MovePCs =>
         /\ job.source # None /\ job.source # Here(job.key)
         /\ HasIndex(job.source)
         /\ InNewBase(job.source) => ~IsLeased(job.source[2])
    /\ job.pc = "plan" /\ job.kind = "resolve" => ~IsLeased(job.key)
    /\ job.pc \in {"quarantine", "rename"} => ~IsLeased(job.key)

\* A command that resolves again does so for the directory it has.
PinnedInv ==
  job # None =>
    /\ Identities(job.want) \subseteq Identities(job.carried)
    /\ at[job.process] # None /\ job.pc # "failed" =>
         job.key = at[job.process].key

\* A manifest is replaced by one that says more, and the one that a command
\* ends with names the root it was started with.
OwnerInv ==
  job # None =>
    LET owner == dirs[Here(job.key)].owner
    IN  /\ job.pc \in {"intent", "manifest"} =>
             /\ owner # None => Identities(owner) \subseteq Identities(job.owner)
             /\ job.next = "lease" => job.want.raw \in Identities(job.owner)
        /\ job.pc \in {"cleanup", "sweep", "lease"} =>
             /\ owner # None
             /\ job.next = "lease" => job.want.raw \in Identities(owner)
        /\ job.pc = "lease" => job.next = "lease"

\* All roots of an owner lead to the project that a key leads to.
LeadsTo(owner, key) == \A root \in Identities(owner) : Project[root] = Project[key]

Sound(dir, key) ==
  /\ dir.db # None => /\ dir.db.of = Project[key]
                      /\ Project[dir.db.root] = Project[key]
  /\ dir.owner # None => LeadsTo(dir.owner, key)

\* Nothing that is recorded, in a directory, in an intent or on the way
\* between them, mixes projects.
CanonicalApart == \A root \in Roots : Project[canonical[root]] = Project[root]
DirectoriesApart ==
  \A place \in Places : Exists(place) => Sound(dirs[place], place[2])
IntentsApart == \A intent \in intents : LeadsTo(intent.owner, intent.key)
LeasesApart ==
  \A p \in Processes : at[p] # None =>
    /\ Project[at[p].path] = Project[at[p].key]
    /\ Project[at[p].norm] = Project[at[p].key]
ResolutionApart ==
  job # None =>
    /\ LeadsTo(job.want, job.key) /\ LeadsTo(job.carried, job.key)
    /\ LeadsTo(job.owner, job.key) /\ Project[job.norm] = Project[job.key]
    /\ job.source # None => Project[job.source[2]] = Project[job.key]
    /\ job.pc = "rename" => Sound(job.trash, job.key)
ApartInv ==
  /\ CanonicalApart /\ DirectoriesApart /\ IntentsApart
  /\ LeasesApart /\ ResolutionApart

\* An index is not alone in its directory, so that a directory with an index
\* is never taken for an empty target.
IndexesAreFiles ==
  /\ \A place \in Places : HasIndex(place) => dirs[place].files
  /\ job # None /\ job.pc = "rename" /\ job.trash.db # None => job.trash.files

\* A generation marker tells directories apart, the one in the trash included.
GenerationsDiffer ==
  /\ \A place, other \in Places :
       Exists(place) /\ Exists(other) /\ dirs[place].gen = dirs[other].gen
         /\ dirs[place].gen # None => place = other
  /\ job # None /\ job.pc = "rename" /\ job.trash.gen # None =>
       \A place \in Places : Exists(place) => dirs[place].gen # job.trash.gen

\* Only a directory with files can have intents that name another key: it has
\* moved or was about to.
StrayIntents ==
  /\ \A place \in Places : Exists(place) =>
       \A intent \in intents : intent.gen = dirs[place].gen =>
         place = Here(intent.key) \/ dirs[place].files
  /\ job # None /\ job.pc = "rename" =>
       \A intent \in intents : intent.gen = job.trash.gen =>
         intent.key = job.key \/ job.trash.files

\* An owner says all that the intents of a directory say, or those of them
\* that name its own key.
CoversAll(owner, place) ==
  \A intent \in intents : intent.gen = dirs[place].gen =>
    Identities(intent.owner) \subseteq Identities(owner)
CoversOwn(owner, key) ==
  \A intent \in intents : intent.gen = dirs[Here(key)].gen /\ intent.key = key =>
    Identities(intent.owner) \subseteq Identities(owner)

\* A move takes over all that the target is known by, and has recorded it
\* before the target goes to the trash.
CarriedInv ==
  job # None =>
    /\ job.pc \in {"target", "choose", "plan", "own"} /\ Exists(Here(job.key)) =>
         CoversOwn(job.carried, job.key)
    /\ job.pc \in {"quarantine", "rename"} => CoversAll(job.owner, job.source)
    /\ job.pc = "quarantine" =>
         LET target == dirs[Here(job.key)]
         IN  /\ target.owner # None =>
                  Identities(target.owner) \subseteq Identities(job.owner)
             /\ CoversAll(job.owner, Here(job.key))
             /\ \E intent \in intents :
                  intent.gen = dirs[job.source].gen /\ intent.owner = job.owner

\* An installation covers the intents that it is going to remove.
CoveredInv ==
  job # None =>
    /\ job.pc \in {"install", "intent", "manifest", "cleanup"} =>
         CoversOwn(job.owner, job.key)
    /\ job.pc \in {"sweep", "lease"} =>
         \A intent \in intents :
           ~(intent.gen = dirs[Here(job.key)].gen /\ intent.key = job.key)

\* If no installation is cut short in a directory in use, the manifests of
\* such directories say all that their intents say,
InUseIsInstalled ==
  ~CutShortInUse =>
    \A p \in Processes : at[p] # None =>
      \/ CoversOwn(dirs[Here(at[p].key)].owner, at[p].key)
      \/ job # None /\ job.pc = "manifest" /\ job.key = at[p].key

\* and a manifest says all that makes an intent superfluous.
InstalledFirst ==
  ~CutShortInUse =>
    (job # None /\ job.pc \in {"cleanup", "sweep"} =>
       Identities(job.owner) \subseteq Identities(dirs[Here(job.key)].owner))

PinInv == LeasesHold /\ TargetInv /\ MoveInv /\ PinnedInv /\ OwnerInv
HistoryInv ==
  /\ IndexesAreFiles /\ GenerationsDiffer /\ StrayIntents
  /\ CarriedInv /\ CoveredInv /\ InUseIsInstalled /\ InstalledFirst
Inv == TypeOK /\ PinInv /\ ApartInv /\ HistoryInv

(***************************************************************************)
(* Owners.                                                                 *)
(***************************************************************************)
LEMMA OwnersMerge ==
  ASSUME NEW owner \in Manifest, NEW desired \in Manifest
  PROVE  /\ MergedForTarget(owner, desired) \in Manifest
         /\ Identities(MergedForTarget(owner, desired))
              = Identities(owner) \cup Identities(desired)
         /\ MergedWhilePinned(owner, desired) \in Manifest
         /\ Identities(MergedWhilePinned(owner, desired))
              = Identities(owner) \cup Identities(desired)
<1> USE DEF Manifest, Identities
<1>1. MergedForTarget(owner, desired) \in Manifest
  BY DEF MergedForTarget
<1>2. Identities(MergedForTarget(owner, desired)) = Identities(owner) \cup Identities(desired)
  BY DEF MergedForTarget
<1>3. MergedWhilePinned(owner, desired) \in Manifest
  BY DEF MergedWhilePinned
<1>4. Identities(MergedWhilePinned(owner, desired)) = Identities(owner) \cup Identities(desired)
  BY DEF MergedWhilePinned
<1>5. QED BY <1>1, <1>2, <1>3, <1>4

\* All roots that some intents name.
Named(some) == UNION {Identities(intent.owner) : intent \in some}

LEMMA IntentsMerge ==
  ASSUME NEW owner \in Manifest, NEW some, some \subseteq Intents
  PROVE  /\ MergedIntents(some, owner) \in Manifest
         /\ Identities(MergedIntents(some, owner)) = Identities(owner) \cup Named(some)
<1>1. Named(some) \subseteq Roots
  BY DEF Named, Intents, Manifest, Identities
<1>2. MergedIntents(some, owner)
        = [owner EXCEPT !.known = (@ \cup Named(some)) \ {owner.norm, owner.raw}]
  BY DEF MergedIntents, Named
<1> HIDE DEF Named
<1>3. MergedIntents(some, owner) \in Manifest
  BY <1>1, <1>2 DEF Manifest
<1>4. Identities(MergedIntents(some, owner)) = Identities(owner) \cup Named(some)
  BY <1>1, <1>2 DEF Manifest, Identities
<1>5. QED BY <1>3, <1>4

LEMMA OwnersAreNamed ==
  ASSUME NEW norm \in Roots, NEW raw \in Roots
  PROVE  /\ NewOwner(norm, raw) \in Manifest
         /\ Identities(NewOwner(norm, raw)) = {norm, raw}
         /\ NewOwner(norm, raw).norm = norm /\ NewOwner(norm, raw).raw = raw
BY DEF NewOwner, Manifest, Identities

\* The roots that a manifest names, and those with the intents for its key.
InManifest(place) ==
  IF dirs[place].owner = None THEN {} ELSE Identities(dirs[place].owner)
Known(place) == InManifest(place) \cup Named(OwnIntents(place))

LEMMA EffectiveOwners ==
  ASSUME TypeOK, NEW place \in Places, Exists(place), NEW e, e = EffectiveOwner(place)
  PROVE  /\ e.error \in {"none", "limit", "conflict"}
         /\ e.owner \in Manifest \cup {None}
         /\ e.owner # None => e.error = "none" /\ Identities(e.owner) = Known(place)
         /\ e.owner = None /\ e.error = "none" =>
              dirs[place].owner = None /\ OwnIntents(place) = {}
<1> DEFINE owner == dirs[place].owner
           own   == OwnIntents(place)
           first == (CHOOSE intent \in own : TRUE).owner
<1>1. owner \in Manifest \cup {None} /\ own \subseteq Intents /\ None \notin Manifest
  BY RecordsAssumption DEF TypeOK, Exists, Directory, OwnIntents, GenerationIntents
<1>2. own # {} => first \in Manifest /\ Identities(first) \subseteq Named(own)
  <2>1. own # {} => (CHOOSE intent \in own : TRUE) \in own
    OBVIOUS
  <2>2. QED BY <1>1, <2>1 DEF Intents, Named
<1>3. e = CASE owner = None /\ own = {} ->
                 [error |-> "none", owner |-> None]
            [] owner = None /\ own # {} ->
                 Owned(MergedIntents(own, first))
            [] owner # None /\ IsSelfConsistent(owner, place[2]) ->
                 Owned(MergedIntents(own, owner))
            [] OTHER ->
                 IF own = {} \/ \E intent \in own : ~Overlaps(owner, intent.owner)
                 THEN Refused("conflict")
                 ELSE Owned(MergedIntents(own, MergedForTarget(owner, first)))
  BY DEF EffectiveOwner
<1> HIDE DEF owner, own, first
<1>4. ASSUME NEW o \in Manifest, Identities(o) = Known(place), e = Owned(o)
      PROVE  /\ e.error \in {"none", "limit"} /\ e.owner \in Manifest \cup {None}
             /\ e.owner # None => e.error = "none" /\ Identities(e.owner) = Known(place)
             /\ e.owner = None => e.error = "limit"
  BY <1>1, <1>4 DEF Owned, Refused
<1>5. CASE owner = None /\ own = {}
  BY <1>3, <1>5 DEF owner, own
<1>6. CASE owner = None /\ own # {}
  <2>1. /\ MergedIntents(own, first) \in Manifest
        /\ Identities(MergedIntents(own, first)) = Identities(first) \cup Named(own)
    BY <1>1, <1>2, <1>6, IntentsMerge
  <2>2. Identities(MergedIntents(own, first)) = Known(place)
    BY <1>2, <1>6, <2>1 DEF Known, InManifest, owner, own
  <2>3. e = Owned(MergedIntents(own, first))
    BY <1>3, <1>6
  <2>4. QED BY <1>4, <2>1, <2>2, <2>3
<1>7. CASE owner # None /\ IsSelfConsistent(owner, place[2])
  <2>1. /\ MergedIntents(own, owner) \in Manifest
        /\ Identities(MergedIntents(own, owner)) = Identities(owner) \cup Named(own)
    BY <1>1, <1>7, IntentsMerge
  <2>2. Identities(MergedIntents(own, owner)) = Known(place)
    BY <1>7, <2>1 DEF Known, InManifest, owner, own
  <2>3. e = Owned(MergedIntents(own, owner))
    BY <1>3, <1>7
  <2>4. QED BY <1>4, <2>1, <2>2, <2>3
<1>8. CASE owner # None /\ ~IsSelfConsistent(owner, place[2])
  <2>1. CASE own = {} \/ \E intent \in own : ~Overlaps(owner, intent.owner)
    <3>1. e = Refused("conflict")
      BY <1>3, <1>8, <2>1
    <3>2. QED BY <3>1 DEF Refused
  <2>2. CASE ~(own = {} \/ \E intent \in own : ~Overlaps(owner, intent.owner))
    <3> DEFINE both == MergedForTarget(owner, first)
    <3>1. first \in Manifest /\ owner \in Manifest
      BY <1>1, <1>2, <1>8, <2>2
    <3>2. both \in Manifest /\ Identities(both) = Identities(owner) \cup Identities(first)
      BY <3>1, OwnersMerge
    <3> HIDE DEF both
    <3>3. /\ MergedIntents(own, both) \in Manifest
          /\ Identities(MergedIntents(own, both)) = Identities(both) \cup Named(own)
      BY <1>1, <3>2, IntentsMerge
    <3>4. Identities(MergedIntents(own, both)) = Known(place)
      BY <1>2, <1>8, <2>2, <3>2, <3>3 DEF Known, InManifest, owner, own
    <3>5. e = Owned(MergedIntents(own, both))
      BY <1>3, <1>8, <2>2 DEF both
    <3>6. QED BY <1>4, <3>3, <3>4, <3>5
  <2>3. QED BY <2>1, <2>2
<1>9. QED BY <1>5, <1>6, <1>7, <1>8

(***************************************************************************)
(* The record of a resolution.                                             *)
(***************************************************************************)
JobPCs == {"target", "choose", "plan", "quarantine", "rename", "install",
           "intent", "manifest", "cleanup", "sweep", "own", "lease", "failed"}
Causes == {"none", "busy", "limit", "conflict", "occupied", "io"}

\* What a resolution was asked for stays the same.
SameRequest ==
  /\ job' \in Jobs /\ job' # None
  /\ job'.process = job.process /\ job'.kind = job.kind
  /\ job'.want = job.want /\ job'.carried = job.carried
  /\ job'.norm = job.norm /\ job'.key = job.key

LEMMA JobGoes ==
  ASSUME job \in Jobs, NEW pc \in JobPCs, Goes(pc)
  PROVE  /\ SameRequest /\ job'.pc = pc /\ job'.next = job.next
         /\ job'.owner = job.owner /\ job'.source = job.source
         /\ job'.trash = job.trash
BY RecordsAssumption DEF Goes, SameRequest, Jobs, JobPCs

LEMMA JobFails ==
  ASSUME job \in Jobs, NEW cause \in Causes, Fails(cause)
  PROVE  /\ SameRequest /\ job'.pc = "failed" /\ job'.next = job.next
         /\ job'.owner = job.owner /\ job'.source = job.source
         /\ job'.trash = job.trash
<1>1. job' \in Jobs
  BY DEF Fails, Jobs, Causes
<1>2. job' # None
  BY <1>1, RecordsAssumption
<1>3. QED BY <1>1, <1>2 DEF Fails, SameRequest, Jobs

LEMMA JobMoves ==
  ASSUME job \in Jobs, NEW pc \in JobPCs, NEW place \in Places,
         job' = [job EXCEPT !.pc = pc, !.source = place]
  PROVE  /\ SameRequest /\ job'.pc = pc /\ job'.next = job.next
         /\ job'.owner = job.owner /\ job'.source = place
         /\ job'.trash = job.trash
BY RecordsAssumption DEF SameRequest, Jobs, JobPCs

LEMMA JobOwns ==
  ASSUME job \in Jobs, NEW pc \in JobPCs, NEW owner \in Manifest,
         job' = [job EXCEPT !.pc = pc, !.owner = owner]
  PROVE  /\ SameRequest /\ job'.pc = pc /\ job'.next = job.next
         /\ job'.owner = owner /\ job'.source = job.source
         /\ job'.trash = job.trash
BY RecordsAssumption DEF SameRequest, Jobs, JobPCs

LEMMA JobInstalls ==
  ASSUME job \in Jobs, NEW pc \in JobPCs, NEW owner \in Manifest,
         NEW next \in {"lease", "sweep"},
         job' = [job EXCEPT !.pc = pc, !.next = next, !.owner = owner]
  PROVE  /\ SameRequest /\ job'.pc = pc /\ job'.next = next
         /\ job'.owner = owner /\ job'.source = job.source
         /\ job'.trash = job.trash
<1>1. job' \in Jobs
  BY DEF Jobs, JobPCs
<1>2. job' # None
  BY <1>1, RecordsAssumption
<1>3. QED BY <1>1, <1>2 DEF SameRequest, Jobs

(***************************************************************************)
(* What the steps do.                                                      *)
(***************************************************************************)
LEMMA PlacesAreTyped ==
  /\ \A key \in Roots : Here(key) \in Places /\ InNewBase(Here(key)) /\ Here(key)[2] = key
  /\ \A key, other \in Roots : Here(key) = Here(other) => key = other
  /\ \A place \in Places : place[2] \in Roots /\ (InNewBase(place) => place = Here(place[2]))
BY DEF Here, Places, InNewBase

LEMMA DirectoriesAreTyped ==
  ASSUME TypeOK
  PROVE  /\ \A place \in Places : Exists(place) =>
              /\ dirs[place] \in Directory
              /\ dirs[place].db \in [root : Roots, of : STRING] \cup {None}
              /\ dirs[place].owner \in Manifest \cup {None}
              /\ dirs[place].gen \in Tokens \cup {None}
              /\ dirs[place].files \in BOOLEAN
         /\ intents \subseteq Intents
         /\ \A place \in Places : /\ GenerationIntents(place) \subseteq intents
                                  /\ OwnIntents(place) \subseteq GenerationIntents(place)
BY DEF TypeOK, Exists, Directory, GenerationIntents, OwnIntents

LEMMA JobsAreTyped ==
  ASSUME TypeOK, job # None
  PROVE  /\ job \in Jobs /\ job.process \in Processes /\ job.kind \in {"resolve", "legacy"}
         /\ job.pc \in JobPCs /\ job.next \in {"lease", "sweep"}
         /\ job.want \in Manifest /\ job.carried \in Manifest /\ job.owner \in Manifest
         /\ job.norm \in Roots /\ job.key \in Roots
         /\ job.source \in Places \cup {None}
         /\ job.trash \in Directory \cup {None}
         /\ Here(job.key) \in Places
BY DEF TypeOK, Jobs, JobPCs, Here, Places

\* A marker is written where there is none.
Issued(place) ==
  /\ dirs' \in [Places -> Directory \cup {None}]
  /\ \A other \in Places : other # place => dirs'[other] = dirs[other]
  /\ dirs'[place] \in Directory /\ dirs'[place] # None
  /\ dirs'[place].db = dirs[place].db /\ dirs'[place].owner = dirs[place].owner
  /\ dirs'[place].files = dirs[place].files
  /\ dirs'[place].gen \in Tokens
  /\ dirs[place].gen # None => dirs'[place].gen = dirs[place].gen
  /\ dirs[place].gen = None => dirs'[place].gen \notin TokensInUse

LEMMA IssuedMarker ==
  ASSUME TypeOK, NEW place \in Places, Exists(place), Issue(place)
  PROVE  Issued(place)
<1>1. /\ dirs \in [Places -> Directory \cup {None}] /\ dirs[place] \in Directory
      /\ dirs[place].gen \in Tokens \cup {None} /\ None \notin Directory
  BY DirectoriesAreTyped, RecordsAssumption DEF TypeOK
<1>2. CASE dirs[place].gen # None
  BY <1>1, <1>2 DEF Issue, Issued
<1>3. CASE dirs[place].gen = None
  <2>1. PICK token \in Tokens \ TokensInUse : dirs' = [dirs EXCEPT ![place].gen = token]
    BY <1>3 DEF Issue
  <2> DEFINE marked == [dirs[place] EXCEPT !.gen = token]
  <2>2. /\ marked \in Directory /\ marked.gen = token
        /\ marked.db = dirs[place].db /\ marked.owner = dirs[place].owner
        /\ marked.files = dirs[place].files
    BY <1>1, <2>1 DEF Directory
  <2>3. dirs' = [dirs EXCEPT ![place] = marked]
    BY <1>1, <2>1
  <2> HIDE DEF marked
  <2>4. /\ dirs'[place] = marked /\ dirs' \in [Places -> Directory \cup {None}]
        /\ \A other \in Places : other # place => dirs'[other] = dirs[other]
    BY <1>1, <2>2, <2>3
  <2>5. QED BY <1>1, <1>3, <2>1, <2>2, <2>4 DEF Issued
<1>4. QED BY <1>2, <1>3

\* A resolution works on its target, its source and its record only.
Elsewhere == UNCHANGED <<canonical, at, building, budget>>

LEMMA EmptyIsTyped == EmptyDirectory \in Directory
BY DEF EmptyDirectory, Directory

LEMMA MakeTargetEffect ==
  ASSUME TypeOK, MakeTarget
  PROVE  /\ job # None /\ job.pc = "target"
         /\ SameRequest /\ job'.pc = "choose" /\ job'.next = job.next
         /\ job'.owner = job.owner /\ job'.source = job.source /\ job'.trash = job.trash
         /\ UNCHANGED intents /\ Elsewhere
         /\ dirs' \in [Places -> Directory \cup {None}]
         /\ \A other \in Places : other # Here(job.key) => dirs'[other] = dirs[other]
         /\ dirs'[Here(job.key)] = IF Exists(Here(job.key)) THEN dirs[Here(job.key)]
                                   ELSE EmptyDirectory
<1>1. job # None /\ job.pc = "target" /\ job \in Jobs /\ Here(job.key) \in Places
  BY JobsAreTyped DEF MakeTarget, At
<1>2. /\ SameRequest /\ job'.pc = "choose" /\ job'.next = job.next
      /\ job'.owner = job.owner /\ job'.source = job.source /\ job'.trash = job.trash
  <2>1. Goes("choose") /\ "choose" \in JobPCs
    BY DEF MakeTarget, JobPCs
  <2>2. QED BY <1>1, <2>1, JobGoes
<1>3. EmptyDirectory \in Directory /\ dirs \in [Places -> Directory \cup {None}]
  BY EmptyIsTyped DEF TypeOK
<1>4. /\ dirs' \in [Places -> Directory \cup {None}]
      /\ \A other \in Places : other # Here(job.key) => dirs'[other] = dirs[other]
      /\ dirs'[Here(job.key)] = IF Exists(Here(job.key)) THEN dirs[Here(job.key)]
                                ELSE EmptyDirectory
  BY <1>1, <1>3 DEF MakeTarget
<1>5. QED BY <1>1, <1>2, <1>4 DEF MakeTarget, environment, Elsewhere

\* Where ChooseSource leads to.  What it moves is recorded for a root that was
\* asked for, or named by the raw one.
LEMMA ChooseSourceEffect ==
  ASSUME TypeOK, ChooseSource
  PROVE  /\ job # None /\ job.pc = "choose"
         /\ SameRequest /\ job'.next = job.next
         /\ job'.owner = job.owner /\ job'.trash = job.trash
         /\ UNCHANGED <<dirs, intents>> /\ Elsewhere
         /\ \/ /\ job'.pc \in {"own", "failed"}
               /\ job'.source \in {job.source, Here(job.key)}
            \/ /\ job'.pc = "plan"
               /\ job'.source \in Places /\ HasIndex(job'.source)
               /\ job'.source # Here(job.key)
               /\ InNewBase(job'.source) => ~IsLeased(job'.source[2])
               /\ job.kind = "resolve" => ~IsLeased(job.key)
               /\ \/ job'.source[2] = job.want.raw
                  \/ dirs[job'.source].db.root \in {job.want.norm, job.want.raw}
                  \/ Known(job'.source) \cap Identities(job.want) # {}
<1>1. /\ job # None /\ job.pc = "choose" /\ job \in Jobs /\ Here(job.key) \in Places
      /\ job.want.raw \in Roots /\ job.kind \in {"resolve", "legacy"}
      /\ Elsewhere /\ UNCHANGED <<dirs, intents>>
  BY JobsAreTyped DEF ChooseSource, At, environment, Elsewhere, Manifest
<1> DEFINE Kept == /\ SameRequest /\ job'.next = job.next
                   /\ job'.owner = job.owner /\ job'.trash = job.trash
           Stays == Kept /\ job'.pc \in {"own", "failed"}
                         /\ job'.source \in {job.source, Here(job.key)}
           Moves(place) ==
             /\ Kept /\ job'.pc = "plan" /\ job'.source = place
           Movable(place) ==
             /\ place \in Places /\ HasIndex(place) /\ place # Here(job.key)
             /\ InNewBase(place) => ~IsLeased(place[2])
             /\ job.kind = "resolve" => ~IsLeased(job.key)
             /\ \/ place[2] = job.want.raw
                \/ dirs[place].db.root \in {job.want.norm, job.want.raw}
                \/ Known(place) \cap Identities(job.want) # {}
<1>2. ASSUME NEW cause \in Causes, Fails(cause) PROVE Stays
  BY <1>1, <1>2, JobFails
<1>3. ASSUME Goes("own") PROVE Stays
  <2>1. "own" \in JobPCs
    BY DEF JobPCs
  <2>2. QED BY <1>1, <1>3, <2>1, JobGoes
<1>4. ASSUME NEW place \in Places, MoveFrom(place) PROVE Moves(place)
  <2>1. "plan" \in JobPCs
    BY DEF JobPCs
  <2>2. QED BY <1>1, <1>4, <2>1, JobMoves DEF MoveFrom
<1>5. CASE /\ HasIndex(Here(job.key))
           /\ job' = [job EXCEPT !.pc = "own", !.source = Here(job.key)]
  <2>1. "own" \in JobPCs
    BY DEF JobPCs
  <2>2. Stays
    BY <1>1, <1>5, <2>1, JobMoves
  <2>3. QED BY <1>1, <2>2
<1>6. CASE /\ ~HasIndex(Here(job.key)) /\ FromRawKey
           /\ IF IsLeased(job.want.raw) \/ IsLeased(job.key)
              THEN Fails("busy") ELSE MoveFrom(Here(job.want.raw))
  <2>1. CASE IsLeased(job.want.raw) \/ IsLeased(job.key)
    <3>1. Stays
      BY <1>2, <1>6, <2>1 DEF Causes
    <3>2. QED BY <1>1, <3>1
  <2>2. CASE ~(IsLeased(job.want.raw) \/ IsLeased(job.key))
    <3>1. Here(job.want.raw) \in Places /\ Here(job.want.raw)[2] = job.want.raw
      BY <1>1, PlacesAreTyped
    <3>2. Moves(Here(job.want.raw))
      BY <1>4, <1>6, <2>2, <3>1
    <3>3. Movable(Here(job.want.raw))
      BY <1>6, <2>2, <3>1 DEF FromRawKey
    <3>4. QED BY <1>1, <3>2, <3>3
  <2>3. QED BY <2>1, <2>2
<1>7. CASE /\ ~HasIndex(Here(job.key)) /\ job.kind = "resolve" /\ ~FromRawKey
           /\ IF \A place \in Candidates : IsForeign(place) THEN Goes("own")
              ELSE \E place \in Candidates :
                     /\ ~IsForeign(place)
                     /\ IF Refusal(place) # "none" THEN Fails(Refusal(place))
                        ELSE MoveFrom(place)
  <2>1. CASE \A place \in Candidates : IsForeign(place)
    BY <1>1, <1>3, <1>7, <2>1
  <2>2. CASE ~(\A place \in Candidates : IsForeign(place))
    <3>1. PICK place \in Candidates :
            /\ ~IsForeign(place)
            /\ IF Refusal(place) # "none" THEN Fails(Refusal(place))
               ELSE MoveFrom(place)
      BY <1>7, <2>2
    <3>2. /\ place \in Places /\ HasIndex(place) /\ place # Here(job.key)
          /\ Exists(place)
      BY <3>1, PlacesAreTyped DEF Candidates, HasIndex, Here
    <3> DEFINE e == EffectiveOwner(place)
    <3>3. /\ e.error \in {"none", "limit", "conflict"}
          /\ e.owner \in Manifest \cup {None}
          /\ e.owner # None => e.error = "none" /\ Identities(e.owner) = Known(place)
      BY <3>2, EffectiveOwners
    <3>4. Refusal(place) \in Causes
      BY <3>3 DEF Refusal, Causes
    <3>5. CASE Refusal(place) # "none"
      BY <1>1, <1>2, <3>1, <3>4, <3>5
    <3>6. CASE Refusal(place) = "none"
      <4>1. Moves(place)
        BY <1>4, <3>1, <3>2, <3>6
      <4>2. ~IsLeased(place[2]) /\ ~IsLeased(job.key)
        BY <3>6 DEF Refusal
      <4>3. \/ dirs[place].db.root \in {job.want.norm, job.want.raw}
            \/ Known(place) \cap Identities(job.want) # {}
        BY <3>1, <3>3 DEF IsForeign, Overlaps
      <4>4. Movable(place)
        BY <3>2, <4>2, <4>3
      <4>5. QED BY <1>1, <4>1, <4>4
    <3>7. QED BY <3>5, <3>6
  <2>3. QED BY <2>1, <2>2
<1>8. CASE /\ ~HasIndex(Here(job.key)) /\ job.kind = "legacy"
           /\ LET legacy == <<"old", job.want.raw>>
              IN  IF ~HasIndex(legacy) THEN Goes("own") ELSE MoveFrom(legacy)
  <2> DEFINE legacy == <<"old", job.want.raw>>
  <2>1. /\ legacy \in Places /\ legacy[2] = job.want.raw /\ ~InNewBase(legacy)
        /\ legacy # Here(job.key)
    BY <1>1 DEF Places, InNewBase, Here
  <2>2. CASE ~HasIndex(legacy)
    BY <1>1, <1>3, <1>8, <2>2
  <2>3. CASE HasIndex(legacy)
    <3>1. Moves(legacy)
      BY <1>4, <1>8, <2>1, <2>3
    <3>2. Movable(legacy)
      BY <1>8, <2>1, <2>3
    <3>3. QED BY <1>1, <3>1, <3>2
  <2>4. QED BY <2>2, <2>3
<1>9. QED BY <1>5, <1>6, <1>7, <1>8 DEF ChooseSource

\* A command begins by taking up the directory that it has, or with that of
\* the canonical path.
LEMMA BeginEffect ==
  ASSUME TypeOK, NEW p \in Processes, NEW root \in Requested,
         NEW kind \in {"resolve", "legacy"}, Begin(p, root, kind)
  PROVE  /\ job = None /\ UNCHANGED <<canonical, dirs, intents, at, building>>
         /\ budget' \in [faults : Nat, remounts : Nat, overlaps : Nat]
         /\ at[p] # None => root = at[p].path /\ kind = "resolve"
         /\ job' \in Jobs /\ job' # None /\ job'.process = p /\ job'.kind = kind
         /\ job'.want \in Manifest /\ job'.want.raw = root
         /\ job'.want.norm = canonical[root]
         /\ Identities(job'.want) = {canonical[root], root}
         /\ job'.next = "lease" /\ job'.source = None /\ job'.trash = None
         /\ job'.carried \in Manifest
         /\ Identities(job'.carried)
              = {canonical[root], root}
                  \cup IF Exists(Here(canonical[root]))
                       THEN Named(OwnIntents(Here(canonical[root]))) ELSE {}
         /\ \/ /\ job'.pc \in {"failed", "target"}
               /\ job'.norm = canonical[root] /\ job'.key = canonical[root]
               /\ job'.owner = job'.carried
               /\ job'.pc = "target" /\ at[p] # None
                    => LET pinned == Here(at[p].key)
                       IN  \/ ~Exists(pinned) \/ dirs[pinned].owner = None
                           \/ Known(pinned) \cap {canonical[root], root} = {}
            \/ LET pinned == Here(at[p].key)
               IN  /\ at[p] # None /\ Exists(pinned) /\ job'.key = at[p].key
                   /\ job'.norm \in Known(pinned)
                   /\ Known(pinned) \cap {canonical[root], root} # {}
                   /\ job'.owner \in Manifest
                   /\ Identities(job'.owner) = Known(pinned) \cup Identities(job'.carried)
                   /\ \/ job'.pc = "intent"
                      \/ job'.pc = "cleanup" /\ Identities(job'.owner) = Known(pinned)
<1> DEFINE want    == NewOwner(canonical[root], root)
           there   == Here(want.norm)
           own     == IF Exists(there) THEN OwnIntents(there) ELSE {}
           carried == MergedIntents(own, want)
           leased  == {k \in Roots : IsLeased(k)}
           start   == [process |-> p, kind |-> kind, pc |-> "target",
                       next |-> "lease", want |-> want, carried |-> carried,
                       owner |-> carried, norm |-> want.norm, key |-> want.norm,
                       source |-> None, trash |-> None, cause |-> "none",
                       inUse |-> leased]
           pinned  == Here(at[p].key)
           active  == EffectiveOwner(pinned)
           merged  == MergedWhilePinned(active.owner, carried)
           refused(cause) == [start EXCEPT !.pc = "failed", !.cause = cause]
<1>1. /\ job = None /\ UNCHANGED <<canonical, dirs, intents, at, building>>
      /\ at[p] # None => root = at[p].path /\ kind = "resolve"
      /\ job' = CASE ~IsBounded(carried) -> refused("limit")
                  [] IsBounded(carried) /\ at[p] = None -> start
                  [] IsBounded(carried) /\ at[p] # None ->
                       IF ~Exists(pinned) THEN start
                       ELSE IF active.error # "none" THEN refused(active.error)
                       ELSE IF active.owner = None THEN start
                       ELSE IF ~Overlaps(active.owner, want) THEN start
                       ELSE IF ~Overlaps(active.owner, carried)
                       THEN refused("conflict")
                       ELSE IF ~IsBounded(merged) THEN refused("limit")
                       ELSE IF ~IsSelfConsistent(merged, at[p].key)
                       THEN refused("conflict")
                       ELSE [start EXCEPT
                              !.key = at[p].key, !.norm = active.owner.norm,
                              !.owner = merged,
                              !.pc = IF merged = active.owner
                                     THEN "cleanup" ELSE "intent"]
  BY DEF Begin
<1>2. budget' \in [faults : Nat, remounts : Nat, overlaps : Nat]
  BY DEF Begin, Spend, TypeOK
<1>3. root \in Roots /\ canonical[root] \in Roots
  BY RootsAssumption DEF TypeOK
<1>4. /\ want \in Manifest /\ Identities(want) = {canonical[root], root}
      /\ want.norm = canonical[root] /\ want.raw = root
  BY <1>3, OwnersAreNamed
<1>5. /\ carried \in Manifest
      /\ Identities(carried) = {canonical[root], root}
           \cup IF Exists(Here(canonical[root]))
                THEN Named(OwnIntents(Here(canonical[root]))) ELSE {}
  <2>1. own \subseteq Intents
    <3>1. there \in Places
      BY <1>3, <1>4, PlacesAreTyped
    <3>2. QED BY <3>1, DirectoriesAreTyped
  <2>2. /\ carried \in Manifest
        /\ Identities(carried) = Identities(want) \cup Named(own)
    BY <1>4, <2>1, IntentsMerge
  <2>3. Named({}) = {}
    BY DEF Named
  <2>4. QED BY <1>4, <2>2, <2>3
<1>6. leased \subseteq Roots
  OBVIOUS
<1> HIDE DEF want, carried, leased
<1>7. start \in Jobs
  BY <1>3, <1>4, <1>5, <1>6 DEF Jobs
<1>8. ASSUME NEW cause \in {"none", "limit", "conflict"}
      PROVE  refused(cause) \in Jobs
  BY <1>7, <1>8 DEF Jobs
<1> DEFINE Common(j) ==
             /\ j \in Jobs /\ j # None /\ j.process = p /\ j.kind = kind
             /\ j.want = want /\ j.carried = carried /\ j.next = "lease"
             /\ j.source = None /\ j.trash = None
<1>9. Common(start) /\ start.pc = "target" /\ start.key = canonical[root]
        /\ start.norm = canonical[root] /\ start.owner = carried
  BY <1>4, <1>7, RecordsAssumption
<1>10. ASSUME NEW cause \in {"none", "limit", "conflict"}
       PROVE  /\ Common(refused(cause)) /\ refused(cause).pc = "failed"
              /\ refused(cause).key = canonical[root]
              /\ refused(cause).norm = canonical[root]
              /\ refused(cause).owner = carried
  BY <1>4, <1>8, RecordsAssumption
<1> DEFINE Refuses == /\ Common(job') /\ job'.pc = "failed" /\ job'.key = canonical[root]
                      /\ job'.norm = canonical[root] /\ job'.owner = carried
           Starts  == /\ Common(job') /\ job'.pc = "target" /\ job'.key = canonical[root]
                      /\ job'.norm = canonical[root] /\ job'.owner = carried
                      /\ \/ at[p] = None
                         \/ ~Exists(pinned) \/ dirs[pinned].owner = None
                         \/ Known(pinned) \cap {canonical[root], root} = {}
           Resumes == /\ Common(job') /\ at[p] # None /\ Exists(pinned)
                      /\ job'.key = at[p].key /\ job'.norm \in Known(pinned)
                      /\ Known(pinned) \cap {canonical[root], root} # {}
                      /\ job'.owner \in Manifest
                      /\ Identities(job'.owner) = Known(pinned) \cup Identities(carried)
                      /\ \/ job'.pc = "intent"
                         \/ job'.pc = "cleanup" /\ Identities(job'.owner) = Known(pinned)
<1>11. ASSUME NEW cause \in {"none", "limit", "conflict"}, job' = refused(cause)
       PROVE  Refuses
  BY <1>10, <1>11
<1> HIDE DEF refused, start
<1>12. Refuses \/ Starts \/ Resumes
  <2>1. CASE ~IsBounded(carried)
    BY <1>1, <1>11, <2>1
  <2>2. CASE IsBounded(carried) /\ at[p] = None
    <3>1. job' = start
      BY <1>1, <2>2
    <3>2. QED BY <1>9, <2>2, <3>1
  <2>3. CASE IsBounded(carried) /\ at[p] # None /\ ~Exists(pinned)
    <3>1. job' = start
      BY <1>1, <2>3
    <3>2. QED BY <1>9, <2>3, <3>1
  <2>4. CASE IsBounded(carried) /\ at[p] # None /\ Exists(pinned)
    <3>1. at[p].key \in Roots /\ pinned \in Places
      BY <2>4 DEF TypeOK, Resolved, Here, Places
    <3>2. /\ active.error \in {"none", "limit", "conflict"}
          /\ active.owner \in Manifest \cup {None}
          /\ active.owner # None => Identities(active.owner) = Known(pinned)
          /\ active.owner = None /\ active.error = "none" => dirs[pinned].owner = None
      BY <2>4, <3>1, EffectiveOwners
    <3> HIDE DEF active, pinned
    <3>3. job' = IF active.error # "none" THEN refused(active.error)
                 ELSE IF active.owner = None THEN start
                 ELSE IF ~Overlaps(active.owner, want) THEN start
                 ELSE IF ~Overlaps(active.owner, carried)
                 THEN refused("conflict")
                 ELSE IF ~IsBounded(merged) THEN refused("limit")
                 ELSE IF ~IsSelfConsistent(merged, at[p].key)
                 THEN refused("conflict")
                 ELSE [start EXCEPT
                        !.key = at[p].key, !.norm = active.owner.norm,
                        !.owner = merged,
                        !.pc = IF merged = active.owner
                               THEN "cleanup" ELSE "intent"]
      BY <1>1, <2>4
    <3>4. CASE active.error # "none"
      BY <1>11, <3>2, <3>3, <3>4
    <3>5. CASE active.error = "none" /\ active.owner = None
      <4>1. job' = start
        BY <3>3, <3>5
      <4>2. QED BY <1>9, <3>2, <3>5, <4>1
    <3>6. CASE active.error = "none" /\ active.owner # None /\ ~Overlaps(active.owner, want)
      <4>1. job' = start
        BY <3>3, <3>6
      <4>2. Known(pinned) \cap {canonical[root], root} = {}
        BY <1>4, <3>2, <3>6 DEF Overlaps
      <4>3. QED BY <1>9, <4>1, <4>2
    <3>7. CASE active.error = "none" /\ active.owner # None /\ Overlaps(active.owner, want)
      <4>1. /\ active.owner \in Manifest
            /\ Known(pinned) \cap {canonical[root], root} # {}
        BY <1>4, <3>2, <3>7 DEF Overlaps
      <4>2. merged \in Manifest /\ Identities(merged) = Known(pinned) \cup Identities(carried)
        BY <1>5, <3>2, <3>7, <4>1, OwnersMerge
      <4>3. active.owner.norm \in Roots /\ active.owner.norm \in Known(pinned)
        BY <3>2, <3>7, <4>1 DEF Manifest, Identities
      <4> HIDE DEF merged
      <4> DEFINE pc == IF merged = active.owner THEN "cleanup" ELSE "intent"
                 resumed == [start EXCEPT !.key = at[p].key, !.norm = active.owner.norm,
                                          !.owner = merged, !.pc = pc]
      <4>4. job' \in {refused("conflict"), refused("limit"), resumed}
        BY <3>3, <3>7
      <4>5. pc \in {"cleanup", "intent"} /\ (pc = "cleanup" => merged = active.owner)
        OBVIOUS
      <4>6. CASE job' = resumed
        <5> HIDE DEF pc
        <5>1. resumed \in Jobs
          BY <1>7, <3>1, <4>2, <4>3, <4>5 DEF Jobs
        <5>2. /\ resumed.process = p /\ resumed.kind = kind /\ resumed.want = want
              /\ resumed.carried = carried /\ resumed.next = "lease"
              /\ resumed.source = None /\ resumed.trash = None
              /\ resumed.key = at[p].key /\ resumed.norm = active.owner.norm
              /\ resumed.owner = merged /\ resumed.pc = pc
          BY DEF start
        <5>3. resumed # None
          BY <5>1, RecordsAssumption
        <5> HIDE DEF resumed
        <5>4. Identities(job'.owner) = Known(pinned) \cup Identities(carried)
          BY <4>2, <4>6, <5>2
        <5>5. job'.pc = "cleanup" => Identities(job'.owner) = Known(pinned)
          BY <3>2, <3>7, <4>5, <4>6, <5>2
        <5>6. Common(job')
          BY <4>6, <5>1, <5>2, <5>3
        <5>7. Resumes
          BY <2>4, <4>1, <4>2, <4>3, <4>5, <4>6, <5>2, <5>4, <5>5, <5>6
        <5>8. QED BY <5>7
      <4>7. QED BY <1>11, <4>4, <4>6
    <3>8. QED BY <3>4, <3>5, <3>6, <3>7
  <2>5. QED BY <2>1, <2>2, <2>3, <2>4
<1>13. /\ Common(job')
       /\ \/ /\ job'.pc \in {"failed", "target"}
             /\ job'.norm = canonical[root] /\ job'.key = canonical[root]
             /\ job'.owner = carried
             /\ job'.pc = "target" /\ at[p] # None
                  => \/ ~Exists(pinned) \/ dirs[pinned].owner = None
                     \/ Known(pinned) \cap {canonical[root], root} = {}
          \/ /\ at[p] # None /\ Exists(pinned) /\ job'.key = at[p].key
             /\ job'.norm \in Known(pinned)
             /\ Known(pinned) \cap {canonical[root], root} # {}
             /\ job'.owner \in Manifest
             /\ Identities(job'.owner) = Known(pinned) \cup Identities(carried)
             /\ \/ job'.pc = "intent"
                \/ job'.pc = "cleanup" /\ Identities(job'.owner) = Known(pinned)
  <2> HIDE DEF Common, pinned
  <2>1. QED BY <1>12
<1>14. QED BY <1>1, <1>2, <1>4, <1>5, <1>13

\* A record of the move is made before anything else is touched.
LEMMA PlanMoveEffect ==
  ASSUME TypeOK, PlanMove, job.source \in Places, Exists(job.source),
         Exists(Here(job.key))
  PROVE  /\ job # None /\ job.pc = "plan"
         /\ SameRequest /\ job'.next = job.next
         /\ job'.source = job.source /\ job'.trash = job.trash
         /\ Issued(job.source) /\ Elsewhere
         /\ \/ job'.pc = "failed" /\ job'.owner = job.owner /\ UNCHANGED intents
            \/ /\ job'.pc = "quarantine" /\ job'.owner \in Manifest
               /\ intents' = intents \cup {[key |-> job.key, gen |-> dirs'[job.source].gen,
                                            owner |-> job'.owner]}
               /\ ~dirs[Here(job.key)].files
               /\ job.kind = "legacy" => ~IsLeased(job.key)
               /\ \E authorized \in Manifest :
                    /\ authorized = job.want \/ Identities(authorized) = Known(job.source)
                    /\ Overlaps(authorized, job.want)
                    /\ \A other \in GenerationIntents(job.source) :
                         Overlaps(authorized, other.owner)
                    /\ Known(job.source) \subseteq Identities(authorized)
                    /\ Identities(job'.owner)
                         = Identities(authorized) \cup Identities(job.carried)
                             \cup Named(GenerationIntents(job.source))
                             \cup InManifest(Here(job.key))
<1> DEFINE effective  == EffectiveOwner(job.source)
           authorized == IF effective.owner = None THEN job.want ELSE effective.owner
           recorded   == GenerationIntents(job.source)
           target     == dirs[Here(job.key)]
           both       == MergedForTarget(authorized, job.carried)
           planned    == MergedIntents(recorded, both)
           owner      == IF target.owner = None THEN planned
                         ELSE MergedForTarget(target.owner, planned)
           intent     == [key |-> job.key, gen |-> dirs'[job.source].gen, owner |-> owner]
<1>1. /\ job # None /\ job.pc = "plan" /\ job \in Jobs /\ Here(job.key) \in Places
      /\ job.want \in Manifest /\ job.carried \in Manifest /\ Elsewhere
      /\ target.owner \in Manifest \cup {None} /\ recorded \subseteq Intents
      /\ None \notin Manifest
  <2>1. job # None /\ job.pc = "plan" /\ Elsewhere
    BY DEF PlanMove, At, Elsewhere, environment
  <2>2. QED BY <2>1, JobsAreTyped, DirectoriesAreTyped, RecordsAssumption
<1>2. Issued(job.source)
  BY IssuedMarker DEF PlanMove
<1>3. /\ effective.error \in {"none", "limit", "conflict"}
      /\ effective.owner \in Manifest \cup {None}
      /\ effective.owner # None => Identities(effective.owner) = Known(job.source)
      /\ effective.owner = None /\ effective.error = "none" =>
           dirs[job.source].owner = None /\ OwnIntents(job.source) = {}
  BY EffectiveOwners
<1>4. IF effective.error # "none"
      THEN Fails(effective.error) /\ UNCHANGED intents
      ELSE IF \/ ~Overlaps(authorized, job.want)
              \/ \E other \in recorded : ~Overlaps(authorized, other.owner)
      THEN Fails("conflict") /\ UNCHANGED intents
      ELSE IF ~IsBounded(planned) THEN Fails("limit") /\ UNCHANGED intents
      ELSE IF job.kind = "legacy" /\ IsLeased(job.key)
      THEN Fails("busy") /\ UNCHANGED intents
      ELSE IF target.files THEN Fails("occupied") /\ UNCHANGED intents
      ELSE IF /\ target.owner # None
              /\ ~(/\ IsSelfConsistent(target.owner, job.key)
                   /\ Overlaps(target.owner, planned))
      THEN Fails("conflict") /\ UNCHANGED intents
      ELSE IF ~IsBounded(owner) THEN Fails("limit") /\ UNCHANGED intents
      ELSE /\ intents' = intents \cup {intent}
           /\ job' = [job EXCEPT !.pc = "quarantine", !.owner = owner]
  BY DEF PlanMove
<1> HIDE DEF effective
<1>5. authorized \in Manifest
  BY <1>1, <1>3
<1>6. both \in Manifest /\ Identities(both) = Identities(authorized) \cup Identities(job.carried)
  <2> HIDE DEF authorized
  <2>1. QED BY <1>1, <1>5, OwnersMerge
<1>7. planned \in Manifest /\ Identities(planned) = Identities(both) \cup Named(recorded)
  <2> HIDE DEF both
  <2>1. QED BY <1>1, <1>6, IntentsMerge
<1>8. owner \in Manifest /\ Identities(owner) = Identities(planned) \cup InManifest(Here(job.key))
  <2> HIDE DEF planned
  <2>1. CASE target.owner = None
    BY <1>7, <2>1 DEF InManifest
  <2>2. CASE target.owner # None
    <3>1. /\ MergedForTarget(target.owner, planned) \in Manifest
          /\ Identities(MergedForTarget(target.owner, planned))
               = Identities(target.owner) \cup Identities(planned)
      BY <1>1, <1>7, <2>2, OwnersMerge
    <3>2. QED BY <2>2, <3>1 DEF InManifest
  <2>3. QED BY <2>1, <2>2
<1>9. effective.error = "none" =>
        /\ authorized = job.want \/ Identities(authorized) = Known(job.source)
        /\ Known(job.source) \subseteq Identities(authorized)
  <2>1. Named({}) = {}
    BY DEF Named
  <2>2. QED BY <1>3, <2>1 DEF Known, InManifest
<1> HIDE DEF authorized, planned, owner
<1>10. \/ \E cause \in Causes : Fails(cause) /\ UNCHANGED intents
       \/ /\ effective.error = "none" /\ Overlaps(authorized, job.want)
          /\ \A other \in recorded : Overlaps(authorized, other.owner)
          /\ job.kind = "legacy" => ~IsLeased(job.key)
          /\ ~target.files
          /\ intents' = intents \cup {intent}
          /\ job' = [job EXCEPT !.pc = "quarantine", !.owner = owner]
  <2>1. /\ "limit" \in Causes /\ "busy" \in Causes /\ "occupied" \in Causes
        /\ "conflict" \in Causes /\ effective.error \in Causes
    BY <1>3 DEF Causes
  <2> HIDE DEF intent, target, recorded
  <2>2. CASE effective.error # "none"
    BY <1>4, <2>1, <2>2
  <2>3. CASE effective.error = "none"
    BY <1>4, <2>1, <2>3
  <2>4. QED BY <2>2, <2>3
<1>11. CASE \E cause \in Causes : Fails(cause) /\ UNCHANGED intents
  BY <1>1, <1>2, <1>11, JobFails
<1>12. CASE /\ effective.error = "none" /\ Overlaps(authorized, job.want)
            /\ \A other \in recorded : Overlaps(authorized, other.owner)
            /\ job.kind = "legacy" => ~IsLeased(job.key)
            /\ ~target.files
            /\ intents' = intents \cup {intent}
            /\ job' = [job EXCEPT !.pc = "quarantine", !.owner = owner]
  <2>1. "quarantine" \in JobPCs
    BY DEF JobPCs
  <2>2. /\ SameRequest /\ job'.pc = "quarantine" /\ job'.next = job.next
        /\ job'.owner = owner /\ job'.source = job.source /\ job'.trash = job.trash
    BY <1>1, <1>8, <1>12, <2>1, JobOwns
  <2>3. /\ job'.pc = "quarantine" /\ job'.owner \in Manifest
        /\ intents' = intents \cup {[key |-> job.key, gen |-> dirs'[job.source].gen,
                                     owner |-> job'.owner]}
        /\ ~dirs[Here(job.key)].files
        /\ job.kind = "legacy" => ~IsLeased(job.key)
    BY <1>8, <1>12, <2>2
  <2>4. Identities(job'.owner)
          = Identities(authorized) \cup Identities(job.carried)
              \cup Named(recorded) \cup InManifest(Here(job.key))
    BY <1>6, <1>7, <1>8, <2>2
  <2>5. /\ authorized = job.want \/ Identities(authorized) = Known(job.source)
        /\ Known(job.source) \subseteq Identities(authorized)
    BY <1>9, <1>12
  <2>6. \E a \in Manifest :
          /\ a = job.want \/ Identities(a) = Known(job.source)
          /\ Overlaps(a, job.want)
          /\ \A other \in GenerationIntents(job.source) : Overlaps(a, other.owner)
          /\ Known(job.source) \subseteq Identities(a)
          /\ Identities(job'.owner)
               = Identities(a) \cup Identities(job.carried)
                   \cup Named(GenerationIntents(job.source)) \cup InManifest(Here(job.key))
    <3>1. WITNESS authorized \in Manifest
    <3>2. QED BY <1>12, <2>4, <2>5
  <2>7. QED BY <1>1, <1>2, <2>2, <2>3, <2>6
<1>13. QED BY <1>10, <1>11, <1>12

LEMMA QuarantineTargetEffect ==
  ASSUME TypeOK, QuarantineTarget
  PROVE  /\ job # None /\ job.pc = "quarantine"
         /\ SameRequest /\ job'.pc = "rename" /\ job'.next = job.next
         /\ job'.owner = job.owner /\ job'.source = job.source
         /\ job'.trash = dirs[Here(job.key)]
         /\ UNCHANGED intents /\ Elsewhere
         /\ dirs' \in [Places -> Directory \cup {None}]
         /\ dirs'[Here(job.key)] = None
         /\ \A other \in Places : other # Here(job.key) => dirs'[other] = dirs[other]
<1>1. /\ job # None /\ job.pc = "quarantine" /\ job \in Jobs /\ Here(job.key) \in Places
      /\ UNCHANGED intents /\ Elsewhere
  BY JobsAreTyped DEF QuarantineTarget, At, environment, Elsewhere
<1>2. /\ dirs \in [Places -> Directory \cup {None}]
      /\ dirs[Here(job.key)] \in Directory \cup {None}
  BY <1>1 DEF TypeOK
<1>3. job' = [job EXCEPT !.pc = "rename", !.trash = dirs[Here(job.key)]]
  BY DEF QuarantineTarget
<1>4. job' \in Jobs
  BY <1>1, <1>2, <1>3 DEF Jobs
<1>5. /\ SameRequest /\ job'.pc = "rename" /\ job'.next = job.next
      /\ job'.owner = job.owner /\ job'.source = job.source
      /\ job'.trash = dirs[Here(job.key)]
  <2>1. job' # None
    BY <1>4, RecordsAssumption
  <2>2. QED BY <1>1, <1>3, <1>4, <2>1 DEF Jobs, SameRequest
<1>6. dirs' = [dirs EXCEPT ![Here(job.key)] = None]
  BY DEF QuarantineTarget
<1>7. QED BY <1>1, <1>2, <1>5, <1>6

LEMMA RenameSourceEffect ==
  ASSUME TypeOK, RenameSource, job.source \in Places, job.source # Here(job.key)
  PROVE  /\ job # None /\ job.pc = "rename"
         /\ SameRequest /\ job'.pc = "install" /\ job'.next = "sweep"
         /\ job'.owner = job.owner /\ job'.source = job.source /\ job'.trash = None
         /\ UNCHANGED intents /\ Elsewhere
         /\ dirs' \in [Places -> Directory \cup {None}]
         /\ dirs'[Here(job.key)] = dirs[job.source] /\ dirs'[job.source] = None
         /\ \A other \in Places :
              other # Here(job.key) /\ other # job.source => dirs'[other] = dirs[other]
<1>1. /\ job # None /\ job.pc = "rename" /\ job \in Jobs /\ Here(job.key) \in Places
      /\ UNCHANGED intents /\ Elsewhere
  BY JobsAreTyped DEF RenameSource, At, environment, Elsewhere
<1>2. dirs \in [Places -> Directory \cup {None}]
  BY <1>1 DEF TypeOK
<1>3. job' = [job EXCEPT !.pc = "install", !.next = "sweep", !.trash = None]
  BY DEF RenameSource
<1>4. job' \in Jobs
  BY <1>1, <1>3 DEF Jobs
<1>5. /\ SameRequest /\ job'.pc = "install" /\ job'.next = "sweep"
      /\ job'.owner = job.owner /\ job'.source = job.source /\ job'.trash = None
  <2>1. job' # None
    BY <1>4, RecordsAssumption
  <2>2. QED BY <1>1, <1>3, <1>4, <2>1 DEF Jobs, SameRequest
<1>6. dirs' = [dirs EXCEPT ![Here(job.key)] = dirs[job.source], ![job.source] = None]
  BY DEF RenameSource
<1>7. QED BY <1>1, <1>2, <1>5, <1>6

\* An installation ends in a manifest that says more, if it does not fail.
LEMMA InstallEffect ==
  ASSUME TypeOK, job # None, Exists(Here(job.key)), NEW desired \in Manifest,
         NEW allow \in BOOLEAN, NEW next \in {"lease", "sweep"},
         Install(desired, allow, next)
  PROVE  /\ SameRequest /\ job'.source = job.source /\ job'.trash = job.trash
         /\ \/ job'.pc = "failed" /\ job'.next = job.next /\ job'.owner = job.owner
            \/ /\ job'.pc = "intent" /\ job'.next = next
               /\ Identities(job'.owner)
                    = Identities(desired) \cup InManifest(Here(job.key))
            \/ /\ job'.pc = "cleanup" /\ job'.next = next
               /\ dirs[Here(job.key)].owner # None
               /\ job'.owner = dirs[Here(job.key)].owner
               /\ Identities(desired) \subseteq InManifest(Here(job.key))
<1> DEFINE existing == dirs[Here(job.key)].owner
           merged   == MergedForTarget(existing, desired)
           write(owner) == job' = [job EXCEPT !.pc = "intent", !.next = next,
                                              !.owner = owner]
<1>1. /\ job \in Jobs /\ existing \in Manifest \cup {None} /\ None \notin Manifest
      /\ "intent" \in JobPCs /\ "cleanup" \in JobPCs
      /\ "conflict" \in Causes /\ "limit" \in Causes
  BY JobsAreTyped, DirectoriesAreTyped, RecordsAssumption DEF JobPCs, Causes
<1>2. IF existing = None THEN write(desired)
      ELSE IF \/ ~Overlaps(existing, desired)
              \/ ~IsSelfConsistent(existing, job.key) /\ ~allow
      THEN Fails("conflict")
      ELSE IF ~IsBounded(merged) THEN Fails("limit")
      ELSE IF merged = existing
      THEN job' = [job EXCEPT !.pc = "cleanup", !.next = next, !.owner = existing]
      ELSE write(merged)
  BY DEF Install
<1>3. ASSUME NEW owner \in Manifest, write(owner)
      PROVE  /\ SameRequest /\ job'.pc = "intent" /\ job'.next = next
             /\ job'.owner = owner /\ job'.source = job.source /\ job'.trash = job.trash
  BY <1>1, <1>3, JobInstalls
<1>4. ASSUME NEW cause \in Causes, Fails(cause)
      PROVE  /\ SameRequest /\ job'.pc = "failed" /\ job'.next = job.next
             /\ job'.owner = job.owner /\ job'.source = job.source
             /\ job'.trash = job.trash
  BY <1>1, <1>4, JobFails
<1>5. CASE existing = None
  BY <1>2, <1>3, <1>5 DEF InManifest
<1>6. CASE existing # None
  <2>1. /\ merged \in Manifest
        /\ Identities(merged) = Identities(existing) \cup Identities(desired)
    BY <1>1, <1>6, OwnersMerge
  <2>2. InManifest(Here(job.key)) = Identities(existing)
    BY <1>6 DEF InManifest
  <2> HIDE DEF merged
  <2>3. CASE Fails("conflict") \/ Fails("limit")
    BY <1>1, <1>4, <2>3
  <2>4. CASE /\ merged = existing
             /\ job' = [job EXCEPT !.pc = "cleanup", !.next = next, !.owner = existing]
    <3> HIDE DEF existing
    <3>1. /\ SameRequest /\ job'.pc = "cleanup" /\ job'.next = next
          /\ job'.owner = existing /\ job'.source = job.source /\ job'.trash = job.trash
      BY <1>1, <1>6, <2>4, JobInstalls
    <3>2. QED BY <1>6, <2>1, <2>2, <2>4, <3>1 DEF existing
  <2>5. CASE write(merged)
    <3> HIDE DEF write
    <3>1. QED BY <1>3, <2>1, <2>2, <2>5
  <2>6. QED BY <1>2, <1>6, <2>3, <2>4, <2>5
<1>7. QED BY <1>5, <1>6

\* The two places that install a manifest.
Installs(desired, next) ==
  /\ SameRequest /\ job'.source = job.source /\ job'.trash = job.trash
  /\ UNCHANGED <<dirs, intents>> /\ Elsewhere
  /\ \/ job'.pc = "failed" /\ job'.next = job.next /\ job'.owner = job.owner
     \/ /\ job'.pc = "intent" /\ job'.next = next
        /\ Identities(job'.owner) = Identities(desired) \cup InManifest(Here(job.key))
     \/ /\ job'.pc = "cleanup" /\ job'.next = next
        /\ dirs[Here(job.key)].owner # None
        /\ job'.owner = dirs[Here(job.key)].owner
        /\ Identities(desired) \subseteq InManifest(Here(job.key))

LEMMA InstallAfterMoveEffect ==
  ASSUME TypeOK, InstallAfterMove, Exists(Here(job.key))
  PROVE  job # None /\ job.pc = "install" /\ Installs(job.owner, "sweep")
<1>1. /\ job # None /\ job.pc = "install" /\ job.owner \in Manifest
      /\ Install(job.owner, TRUE, "sweep") /\ UNCHANGED <<dirs, intents>> /\ Elsewhere
  BY JobsAreTyped DEF InstallAfterMove, At, environment, Elsewhere
<1>2. QED BY <1>1, InstallEffect DEF Installs

LEMMA OwnTargetEffect ==
  ASSUME TypeOK, OwnTarget, Exists(Here(job.key))
  PROVE  job # None /\ job.pc = "own" /\ Installs(job.carried, "lease")
<1>1. /\ job # None /\ job.pc = "own" /\ job.carried \in Manifest /\ job \in Jobs
      /\ UNCHANGED <<dirs, intents>> /\ Elsewhere
  BY JobsAreTyped DEF OwnTarget, At, environment, Elsewhere
<1>2. \/ \E cause \in Causes : Fails(cause)
      \/ \E allow \in BOOLEAN : Install(job.carried, allow, "lease")
  BY DEF OwnTarget, Causes
<1>3. CASE \E cause \in Causes : Fails(cause)
  BY <1>1, <1>3, JobFails DEF Installs
<1>4. CASE \E allow \in BOOLEAN : Install(job.carried, allow, "lease")
  BY <1>1, <1>4, InstallEffect DEF Installs
<1>5. QED BY <1>2, <1>3, <1>4

LEMMA WriteIntentEffect ==
  ASSUME TypeOK, WriteIntent, Exists(Here(job.key))
  PROVE  /\ job # None /\ job.pc = "intent"
         /\ SameRequest /\ job'.pc = "manifest" /\ job'.next = job.next
         /\ job'.owner = job.owner /\ job'.source = job.source /\ job'.trash = job.trash
         /\ Issued(Here(job.key)) /\ Elsewhere
         /\ intents' = intents \cup {[key |-> job.key, owner |-> job.owner,
                                      gen |-> dirs'[Here(job.key)].gen]}
<1>1. /\ job # None /\ job.pc = "intent" /\ job \in Jobs /\ Here(job.key) \in Places
      /\ Goes("manifest") /\ Elsewhere /\ "manifest" \in JobPCs
  BY JobsAreTyped DEF WriteIntent, At, environment, Elsewhere, JobPCs
<1>2. Issued(Here(job.key))
  BY <1>1, IssuedMarker DEF WriteIntent
<1>3. /\ SameRequest /\ job'.pc = "manifest" /\ job'.next = job.next
      /\ job'.owner = job.owner /\ job'.source = job.source /\ job'.trash = job.trash
  BY <1>1, JobGoes
<1>4. QED BY <1>1, <1>2, <1>3 DEF WriteIntent

LEMMA WriteManifestEffect ==
  ASSUME TypeOK, WriteManifest, Exists(Here(job.key))
  PROVE  /\ job # None /\ job.pc = "manifest"
         /\ SameRequest /\ job'.pc = "cleanup" /\ job'.next = job.next
         /\ job'.owner = job.owner /\ job'.source = job.source /\ job'.trash = job.trash
         /\ UNCHANGED intents /\ Elsewhere
         /\ dirs' \in [Places -> Directory \cup {None}]
         /\ \A other \in Places : other # Here(job.key) => dirs'[other] = dirs[other]
         /\ LET here == Here(job.key)
            IN  /\ dirs'[here] # None /\ dirs'[here].owner = job.owner
                /\ dirs'[here].db = dirs[here].db /\ dirs'[here].gen = dirs[here].gen
                /\ dirs'[here].files = dirs[here].files
<1>1. /\ job # None /\ job.pc = "manifest" /\ job \in Jobs /\ Here(job.key) \in Places
      /\ Goes("cleanup") /\ UNCHANGED intents /\ Elsewhere /\ "cleanup" \in JobPCs
      /\ job.owner \in Manifest
  BY JobsAreTyped DEF WriteManifest, At, environment, Elsewhere, JobPCs
<1>2. /\ SameRequest /\ job'.pc = "cleanup" /\ job'.next = job.next
      /\ job'.owner = job.owner /\ job'.source = job.source /\ job'.trash = job.trash
  BY <1>1, JobGoes
<1> DEFINE here == Here(job.key)
           written == [dirs[here] EXCEPT !.owner = job.owner]
<1>3. dirs[here] \in Directory /\ dirs \in [Places -> Directory \cup {None}]
  BY <1>1, DirectoriesAreTyped DEF TypeOK
<1>4. /\ written \in Directory /\ written.owner = job.owner
      /\ written.db = dirs[here].db /\ written.gen = dirs[here].gen
      /\ written.files = dirs[here].files
  BY <1>1, <1>3 DEF Directory
<1>5. dirs' = [dirs EXCEPT ![here] = written]
  BY <1>1, <1>3 DEF WriteManifest
<1>6. written # None
  BY <1>4, RecordsAssumption
<1> HIDE DEF written
<1>7. QED BY <1>1, <1>2, <1>3, <1>4, <1>5, <1>6

LEMMA CleanUpIntentsEffect ==
  ASSUME TypeOK, CleanUpIntents
  PROVE  /\ job # None /\ job.pc = "cleanup"
         /\ SameRequest /\ job'.pc = job.next /\ job'.next = job.next
         /\ job'.owner = job.owner /\ job'.source = job.source /\ job'.trash = job.trash
         /\ intents' = intents \ Covered(OwnIntents(Here(job.key)))
         /\ UNCHANGED dirs /\ Elsewhere
<1>1. /\ job # None /\ job.pc = "cleanup" /\ job \in Jobs /\ Goes(job.next)
      /\ job.next \in JobPCs /\ UNCHANGED dirs /\ Elsewhere
  BY JobsAreTyped DEF CleanUpIntents, At, environment, Elsewhere, JobPCs
<1>2. QED BY <1>1, JobGoes DEF CleanUpIntents

LEMMA SweepIntentsEffect ==
  ASSUME TypeOK, SweepIntents
  PROVE  /\ job # None /\ job.pc = "sweep"
         /\ SameRequest /\ job'.pc = "own" /\ job'.next = job.next
         /\ job'.owner = job.owner /\ job'.source = job.source /\ job'.trash = job.trash
         /\ intents' = intents \ Covered(GenerationIntents(Here(job.key)))
         /\ UNCHANGED dirs /\ Elsewhere
<1>1. /\ job # None /\ job.pc = "sweep" /\ job \in Jobs /\ Goes("own")
      /\ "own" \in JobPCs /\ UNCHANGED dirs /\ Elsewhere
  BY JobsAreTyped DEF SweepIntents, At, environment, Elsewhere, JobPCs
<1>2. QED BY <1>1, JobGoes DEF SweepIntents

\* A file of a directory changes that is neither manifest nor marker.
Amends(place) ==
  /\ dirs' \in [Places -> Directory \cup {None}]
  /\ \A other \in Places : other # place => dirs'[other] = dirs[other]
  /\ dirs'[place] # None
  /\ dirs'[place].owner = dirs[place].owner /\ dirs'[place].gen = dirs[place].gen

LEMMA LeasedEffect ==
  ASSUME TypeOK, Leased
  PROVE  /\ job # None /\ job.pc = "lease" /\ job' = None
         /\ UNCHANGED <<canonical, intents, budget>>
         /\ at' \in [Processes -> Resolved \cup {None}]
         /\ at'[job.process] # None /\ at'[job.process].path = job.want.raw
         /\ at'[job.process].key = job.key /\ at'[job.process].norm = job.norm
         /\ \A p \in Processes : p # job.process => at'[p] = at[p]
<1>1. /\ job # None /\ job.pc = "lease" /\ job.process \in Processes /\ job' = None
      /\ UNCHANGED <<canonical, intents, budget>>
      /\ job.want.raw \in Roots /\ job.key \in Roots /\ job.norm \in Roots
  BY JobsAreTyped DEF Leased, At, Manifest
<1> DEFINE resolved == [path |-> job.want.raw, key |-> job.key, norm |-> job.norm]
<1>2. resolved \in Resolved /\ resolved # None
  BY <1>1, RecordsAssumption DEF Resolved
<1>3. at' = [at EXCEPT ![job.process] = resolved] /\ at \in [Processes -> Resolved \cup {None}]
  BY DEF Leased, TypeOK
<1>4. /\ resolved.path = job.want.raw /\ resolved.key = job.key /\ resolved.norm = job.norm
  OBVIOUS
<1> HIDE DEF resolved
<1>5. QED BY <1>1, <1>2, <1>3, <1>4

LEMMA TakeLeaseAndRebuildLockEffect ==
  ASSUME TypeOK, TakeLeaseAndRebuildLock, Exists(Here(job.key))
  PROVE  /\ Leased /\ building' = building \cup {job.process}
         /\ Amends(Here(job.key))
         /\ dirs'[Here(job.key)].files
         /\ dirs'[Here(job.key)].db = dirs[Here(job.key)].db
<1> DEFINE here == Here(job.key)
           locked == [dirs[here] EXCEPT !.files = TRUE]
<1>1. /\ Leased /\ building' = building \cup {job.process} /\ here \in Places
      /\ dirs' = [dirs EXCEPT ![Here(job.key)].files = TRUE]
  BY JobsAreTyped DEF TakeLeaseAndRebuildLock, Leased, At
<1>2. dirs[here] \in Directory /\ dirs \in [Places -> Directory \cup {None}]
  BY <1>1, DirectoriesAreTyped DEF TypeOK
<1>3. /\ locked \in Directory /\ locked.files /\ locked.owner = dirs[here].owner
      /\ locked.db = dirs[here].db /\ locked.gen = dirs[here].gen
  BY <1>1, <1>2 DEF Directory
<1>4. dirs' = [dirs EXCEPT ![here] = locked]
  BY <1>1, <1>2
<1>5. locked # None
  BY <1>3, RecordsAssumption
<1> HIDE DEF locked
<1>6. QED BY <1>1, <1>2, <1>3, <1>4, <1>5 DEF Amends

\* The index of a directory is replaced.
LEMMA IndexAmended ==
  ASSUME TypeOK, NEW place \in Places, Exists(place),
         NEW db \in [root : Roots, of : STRING] \cup {None},
         dirs' = [dirs EXCEPT ![place] = [dirs[place] EXCEPT !.db = db]]
  PROVE  /\ Amends(place) /\ dirs'[place].db = db
         /\ dirs'[place].files = dirs[place].files
<1> DEFINE amended == [dirs[place] EXCEPT !.db = db]
<1>1. dirs[place] \in Directory /\ dirs \in [Places -> Directory \cup {None}]
  BY DirectoriesAreTyped DEF TypeOK
<1>2. /\ amended \in Directory /\ amended.db = db /\ amended.owner = dirs[place].owner
      /\ amended.files = dirs[place].files /\ amended.gen = dirs[place].gen
  BY <1>1 DEF Directory
<1>3. amended # None
  BY <1>2, RecordsAssumption
<1> HIDE DEF amended
<1>4. dirs' = [dirs EXCEPT ![place] = amended]
  BY DEF amended
<1>5. QED BY <1>1, <1>2, <1>3, <1>4 DEF Amends

LEMMA LeasedPlaces ==
  ASSUME TypeOK, NEW p \in Processes, at[p] # None
  PROVE  /\ at[p].key \in Roots /\ at[p].path \in Roots /\ at[p].norm \in Roots
         /\ Here(at[p].key) \in Places
BY DEF TypeOK, Resolved, Here, Places

LEMMA OpenIndexEffect ==
  ASSUME TypeOK, NEW p \in Processes, OpenIndex(p)
  PROVE  /\ at[p] # None /\ UNCHANGED <<intents, job>> /\ Elsewhere
         /\ Amends(Here(at[p].key))
         /\ Exists(Here(at[p].key)) /\ dirs[Here(at[p].key)].db # None
         /\ dirs'[Here(at[p].key)].db # None
         /\ dirs'[Here(at[p].key)].db.root = at[p].norm
         /\ dirs'[Here(at[p].key)].db.of = dirs[Here(at[p].key)].db.of
         /\ dirs'[Here(at[p].key)].files = dirs[Here(at[p].key)].files
<1> DEFINE here == Here(at[p].key)
           db == [dirs[here].db EXCEPT !.root = at[p].norm]
<1>1. /\ at[p] # None /\ UNCHANGED <<intents, job>> /\ Elsewhere
      /\ Exists(here) /\ dirs[here].db # None
      /\ dirs' = [dirs EXCEPT ![Here(at[p].key)].db.root = at[p].norm]
  BY DEF OpenIndex, HasIndex, environment, Elsewhere
<1>2. here \in Places /\ at[p].norm \in Roots
  BY <1>1, LeasedPlaces
<1>3. /\ dirs[here].db \in [root : Roots, of : STRING] /\ dirs[here] \in Directory
      /\ dirs \in [Places -> Directory \cup {None}]
  BY <1>1, <1>2, DirectoriesAreTyped DEF TypeOK
<1>4. /\ db \in [root : Roots, of : STRING] /\ db # None
      /\ db.root = at[p].norm /\ db.of = dirs[here].db.of
  <2>1. db \in [root : Roots, of : STRING]
    BY <1>2, <1>3
  <2>2. db # None
    BY <2>1, RecordsAssumption
  <2>3. QED BY <1>3, <2>1, <2>2
<1>5. dirs' = [dirs EXCEPT ![here] = [dirs[here] EXCEPT !.db = db]]
  BY <1>1, <1>2, <1>3
<1> HIDE DEF db
<1>6. Amends(here) /\ dirs'[here].db = db /\ dirs'[here].files = dirs[here].files
  BY <1>1, <1>2, <1>4, <1>5, IndexAmended
<1>7. QED BY <1>1, <1>4, <1>6

LEMMA PublishIndexEffect ==
  ASSUME TypeOK, NEW p \in Processes, PublishIndex(p), Exists(Here(at[p].key))
  PROVE  /\ p \in building /\ at[p] # None /\ building' = building \ {p}
         /\ UNCHANGED <<canonical, intents, job, at, budget>>
         /\ Amends(Here(at[p].key))
         /\ dirs'[Here(at[p].key)].db # None
         /\ dirs'[Here(at[p].key)].db.root = canonical[at[p].path]
         /\ dirs'[Here(at[p].key)].db.of = Project[canonical[at[p].path]]
         /\ dirs'[Here(at[p].key)].files = dirs[Here(at[p].key)].files
<1> DEFINE here == Here(at[p].key)
           db == [root |-> canonical[at[p].path], of |-> Project[canonical[at[p].path]]]
<1>1. /\ p \in building /\ at[p] # None /\ building' = building \ {p}
      /\ UNCHANGED <<canonical, intents, job, at, budget>>
      /\ dirs' = [dirs EXCEPT ![here].db = db]
  BY DEF PublishIndex, TypeOK
<1>2. here \in Places /\ at[p].path \in Roots
  BY <1>1, LeasedPlaces
<1>3. db \in [root : Roots, of : STRING]
  <2>1. canonical[at[p].path] \in Roots
    BY <1>2 DEF TypeOK
  <2>2. QED BY <2>1, RootsAssumption
<1>4. db # None /\ db.root = canonical[at[p].path] /\ db.of = Project[canonical[at[p].path]]
  BY <1>3, RecordsAssumption
<1> HIDE DEF db
<1>5. dirs \in [Places -> Directory \cup {None}]
  BY DEF TypeOK
<1>6. dirs' = [dirs EXCEPT ![here] = [dirs[here] EXCEPT !.db = db]]
  BY <1>1, <1>2, <1>5
<1>7. Amends(here) /\ dirs'[here].db = db /\ dirs'[here].files = dirs[here].files
  BY <1>2, <1>3, <1>6, IndexAmended
<1>8. QED BY <1>1, <1>4, <1>7

LEMMA ClearIndexEffect ==
  ASSUME TypeOK, NEW p \in Processes, ClearIndex(p), Exists(Here(at[p].key))
  PROVE  /\ p \in building /\ at[p] # None /\ building' = building \ {p}
         /\ UNCHANGED <<canonical, intents, job, at, budget>>
         /\ Amends(Here(at[p].key))
         /\ dirs'[Here(at[p].key)].db = None
         /\ dirs'[Here(at[p].key)].files = dirs[Here(at[p].key)].files
<1> DEFINE here == Here(at[p].key)
<1>1. /\ p \in building /\ at[p] # None /\ building' = building \ {p}
      /\ UNCHANGED <<canonical, intents, job, at, budget>>
      /\ dirs' = [dirs EXCEPT ![here].db = None]
  BY DEF ClearIndex, TypeOK
<1>2. here \in Places /\ dirs \in [Places -> Directory \cup {None}]
  BY <1>1, LeasedPlaces DEF TypeOK
<1>3. dirs' = [dirs EXCEPT ![here] = [dirs[here] EXCEPT !.db = None]]
  BY <1>1, <1>2
<1>4. QED BY <1>1, <1>2, <1>3, IndexAmended

LEMMA EndCommandEffect ==
  ASSUME TypeOK, NEW p \in Processes, EndCommand(p)
  PROVE  /\ ~Busy(p) /\ building' = building \ {p}
         /\ UNCHANGED <<canonical, dirs, intents, job, budget>>
         /\ at' \in [Processes -> Resolved \cup {None}]
         /\ at'[p] = None /\ \A q \in Processes : q # p => at'[q] = at[q]
BY DEF EndCommand, TypeOK

LEMMA KillEffect ==
  ASSUME TypeOK, Kill
  PROVE  /\ job # None /\ job' = None /\ MayStop /\ building' = building \ {job.process}
         /\ job.pc # "failed"
         /\ UNCHANGED <<canonical, dirs, intents>>
         /\ budget' \in [faults : Nat, remounts : Nat, overlaps : Nat]
         /\ at' \in [Processes -> Resolved \cup {None}]
         /\ at'[job.process] = None
         /\ \A q \in Processes : q # job.process => at'[q] = at[q]
<1>1. /\ job # None /\ job' = None /\ MayStop /\ building' = building \ {job.process}
      /\ job.pc # "failed" /\ UNCHANGED <<canonical, dirs, intents>>
      /\ job.process \in Processes /\ Spend("faults")
      /\ at' = [at EXCEPT ![job.process] = None]
  BY JobsAreTyped DEF Kill
<1>2. budget' \in [faults : Nat, remounts : Nat, overlaps : Nat]
  BY <1>1 DEF Spend, TypeOK
<1>3. QED BY <1>1, <1>2 DEF TypeOK

\* A target that was quarantined is put back.
LEMMA FileOperationFailsEffect ==
  ASSUME TypeOK, FileOperationFails, job # None /\ job.pc = "rename" => job.trash # None
  PROVE  /\ job # None /\ MayStop
         /\ SameRequest /\ job'.pc = "failed" /\ job'.next = job.next
         /\ job'.owner = job.owner /\ job'.source = job.source /\ job'.trash = job.trash
         /\ UNCHANGED <<canonical, intents, at, building>>
         /\ budget' \in [faults : Nat, remounts : Nat, overlaps : Nat]
         /\ \/ job.pc # "rename" /\ UNCHANGED dirs
            \/ /\ job.pc = "rename" /\ dirs'[Here(job.key)] = job.trash
               /\ dirs' \in [Places -> Directory \cup {None}]
               /\ \A other \in Places : other # Here(job.key) => dirs'[other] = dirs[other]
<1>1. /\ job # None /\ MayStop /\ UNCHANGED <<canonical, intents, at, building>>
      /\ Fails("io") /\ job \in Jobs /\ Here(job.key) \in Places /\ "io" \in Causes
      /\ job.trash \in Directory \cup {None}
      /\ dirs' = IF job.pc = "rename"
                 THEN [dirs EXCEPT ![Here(job.key)] = job.trash] ELSE dirs
  BY JobsAreTyped DEF FileOperationFails, Causes
<1>2. budget' \in [faults : Nat, remounts : Nat, overlaps : Nat]
  BY DEF FileOperationFails, Spend, TypeOK
<1>3. /\ SameRequest /\ job'.pc = "failed" /\ job'.next = job.next
      /\ job'.owner = job.owner /\ job'.source = job.source /\ job'.trash = job.trash
  BY <1>1, JobFails
<1>4. \/ job.pc # "rename" /\ UNCHANGED dirs
      \/ /\ job.pc = "rename" /\ dirs'[Here(job.key)] = job.trash
         /\ dirs' \in [Places -> Directory \cup {None}]
         /\ \A other \in Places : other # Here(job.key) => dirs'[other] = dirs[other]
  BY <1>1 DEF TypeOK
<1>5. QED BY <1>1, <1>2, <1>3, <1>4

LEMMA RemountEffect ==
  ASSUME TypeOK, NEW root \in Roots, Remount(root)
  PROVE  /\ job = None /\ UNCHANGED <<dirs, intents, job, at, building>>
         /\ budget' \in [faults : Nat, remounts : Nat, overlaps : Nat]
         /\ canonical' \in [Roots -> Roots]
         /\ \A other \in Roots : \/ canonical'[other] = canonical[other]
                                 \/ Project[canonical'[other]] = Project[other]
<1>1. /\ job = None /\ UNCHANGED <<dirs, intents, job, at, building>> /\ Spend("remounts")
  BY DEF Remount
<1>2. PICK target \in Targets[root] : canonical' = [canonical EXCEPT ![root] = target]
  BY DEF Remount
<1>3. target \in Roots /\ Project[target] = Project[root]
  BY <1>2, RootsAssumption
<1>4. canonical \in [Roots -> Roots]
  BY DEF TypeOK
<1>5. budget' \in [faults : Nat, remounts : Nat, overlaps : Nat]
  BY <1>1 DEF Spend, TypeOK
<1>6. QED BY <1>1, <1>2, <1>3, <1>4, <1>5

LEMMA CollectEffect ==
  ASSUME TypeOK, NEW key \in Roots, Collect(key)
  PROVE  /\ job = None /\ ~IsLeased(key) /\ HasIndex(Here(key))
         /\ UNCHANGED <<canonical, intents, job, at, building>>
         /\ budget' \in [faults : Nat, remounts : Nat, overlaps : Nat]
         /\ dirs' \in [Places -> Directory \cup {None}]
         /\ dirs'[Here(key)] = None
         /\ \A other \in Places : other # Here(key) => dirs'[other] = dirs[other]
<1>1. /\ job = None /\ ~IsLeased(key) /\ HasIndex(Here(key))
      /\ UNCHANGED <<canonical, intents, job, at, building>> /\ Spend("faults")
      /\ dirs' = [dirs EXCEPT ![Here(key)] = None] /\ Here(key) \in Places
  BY PlacesAreTyped DEF Collect
<1>2. budget' \in [faults : Nat, remounts : Nat, overlaps : Nat]
  BY <1>1 DEF Spend, TypeOK
<1>3. QED BY <1>1, <1>2 DEF TypeOK

(***************************************************************************)
(* Every step keeps the types.                                             *)
(***************************************************************************)
TypedDirs == [Places -> Directory \cup {None}]

\* The directories that the steps of a resolution need are there.
LEMMA WhatIsThere ==
  ASSUME TypeOK, PinInv
  PROVE  /\ job # None /\ job.pc \in TargetPCs => Exists(Here(job.key))
         /\ job # None /\ job.pc \in MovePCs =>
              /\ job.source \in Places /\ Exists(job.source) /\ HasIndex(job.source)
              /\ job.source # Here(job.key)
         /\ job # None /\ job.pc = "rename" => job.trash # None
         /\ \A p \in Processes : at[p] # None => Exists(Here(at[p].key))
<1>1. job # None => job.source \in Places \cup {None}
  BY JobsAreTyped
<1>2. QED BY <1>1 DEF PinInv, LeasesHold, TargetInv, MoveInv, HasIndex

LEMMA TypeStep ==
  ASSUME TypeOK, PinInv, [Next]_vars
  PROVE  TypeOK'
<1> USE DEF TypedDirs
<1>1. /\ canonical \in [Roots -> Roots] /\ dirs \in TypedDirs
      /\ intents \subseteq Intents /\ job \in Jobs \cup {None}
      /\ at \in [Processes -> Resolved \cup {None}]
      /\ budget \in [faults : Nat, remounts : Nat, overlaps : Nat]
      /\ building \subseteq {p \in Processes : at[p] # None}
  BY DEF TypeOK
<1>2. /\ job # None /\ job.pc \in TargetPCs => Exists(Here(job.key))
      /\ job # None /\ job.pc \in MovePCs =>
           /\ job.source \in Places /\ Exists(job.source)
           /\ job.source # Here(job.key)
      /\ job # None /\ job.pc = "rename" => job.trash # None
      /\ \A p \in Processes : at[p] # None => Exists(Here(at[p].key))
  BY WhatIsThere
<1> HIDE DEF TypedDirs
<1>3. ASSUME canonical' \in [Roots -> Roots], dirs' \in TypedDirs,
             intents' \subseteq Intents, job' \in Jobs \cup {None},
             at' \in [Processes -> Resolved \cup {None}],
             budget' \in [faults : Nat, remounts : Nat, overlaps : Nat],
             building' \subseteq Processes,
             \A p \in building' : at'[p] # None
      PROVE  TypeOK'
  BY <1>3 DEF TypeOK, TypedDirs
<1>4. ASSUME SameRequest \/ job' = None, Elsewhere, dirs' \in TypedDirs,
             intents' \subseteq Intents
      PROVE  TypeOK'
  BY <1>1, <1>3, <1>4 DEF SameRequest, Elsewhere
<1>5. ASSUME NEW place, Amends(place)
      PROVE  dirs' \in TypedDirs
  BY <1>5 DEF Amends, TypedDirs
<1>6. ASSUME NEW p \in Processes, NEW root \in Requested,
             NEW kind \in {"resolve", "legacy"}, Begin(p, root, kind)
      PROVE  TypeOK'
  <2>1. /\ UNCHANGED <<canonical, dirs, intents, at, building>> /\ job' \in Jobs
        /\ budget' \in [faults : Nat, remounts : Nat, overlaps : Nat]
    BY <1>6, BeginEffect
  <2>2. QED BY <1>1, <1>3, <2>1
<1>7. CASE MakeTarget
  <2>1. SameRequest /\ Elsewhere /\ dirs' \in TypedDirs /\ UNCHANGED intents
    BY <1>7, MakeTargetEffect DEF TypedDirs
  <2>2. QED BY <1>1, <1>4, <2>1
<1>8. CASE ChooseSource
  <2>1. SameRequest /\ Elsewhere /\ UNCHANGED <<dirs, intents>>
    BY <1>8, ChooseSourceEffect
  <2>2. QED BY <1>1, <1>4, <2>1
<1>9. CASE PlanMove
  <2>1. job # None /\ job.pc = "plan"
    BY <1>9 DEF PlanMove, At
  <2>2. job.source \in Places /\ Exists(job.source) /\ Exists(Here(job.key))
    BY <1>2, <2>1 DEF TargetPCs, MovePCs
  <2>3. /\ SameRequest /\ Elsewhere /\ Issued(job.source)
        /\ \/ UNCHANGED intents
           \/ /\ job'.owner \in Manifest
              /\ intents' = intents \cup {[key |-> job.key, gen |-> dirs'[job.source].gen,
                                           owner |-> job'.owner]}
    BY <1>9, <2>2, PlanMoveEffect
  <2>4. dirs' \in TypedDirs /\ dirs'[job.source].gen \in Tokens
    BY <2>3 DEF Issued, TypedDirs
  <2>5. intents' \subseteq Intents
    BY <1>1, <2>1, <2>3, <2>4, JobsAreTyped DEF Intents
  <2>6. QED BY <1>4, <2>3, <2>4, <2>5
<1>10. CASE QuarantineTarget
  <2>1. SameRequest /\ Elsewhere /\ dirs' \in TypedDirs /\ UNCHANGED intents
    BY <1>10, QuarantineTargetEffect DEF TypedDirs
  <2>2. QED BY <1>1, <1>4, <2>1
<1>11. CASE RenameSource
  <2>1. job # None /\ job.pc = "rename"
    BY <1>11 DEF RenameSource, At
  <2>2. job.source \in Places /\ job.source # Here(job.key)
    BY <1>2, <2>1 DEF MovePCs
  <2>3. SameRequest /\ Elsewhere /\ dirs' \in TypedDirs /\ UNCHANGED intents
    BY <1>11, <2>2, RenameSourceEffect DEF TypedDirs
  <2>4. QED BY <1>1, <1>4, <2>3
<1>12. CASE InstallAfterMove
  <2>1. Exists(Here(job.key))
    BY <1>2, <1>12 DEF InstallAfterMove, At, TargetPCs
  <2>2. SameRequest /\ Elsewhere /\ UNCHANGED <<dirs, intents>>
    BY <1>12, <2>1, InstallAfterMoveEffect DEF Installs
  <2>3. QED BY <1>1, <1>4, <2>2
<1>13. CASE WriteIntent
  <2>1. job # None /\ Exists(Here(job.key))
    BY <1>2, <1>13 DEF WriteIntent, At, TargetPCs
  <2>2. /\ SameRequest /\ Elsewhere /\ Issued(Here(job.key))
        /\ intents' = intents \cup {[key |-> job.key, owner |-> job.owner,
                                     gen |-> dirs'[Here(job.key)].gen]}
    BY <1>13, <2>1, WriteIntentEffect
  <2>3. dirs' \in TypedDirs /\ dirs'[Here(job.key)].gen \in Tokens
    BY <2>2 DEF Issued, TypedDirs
  <2>4. intents' \subseteq Intents
    BY <1>1, <2>1, <2>2, <2>3, JobsAreTyped DEF Intents
  <2>5. QED BY <1>4, <2>2, <2>3, <2>4
<1>14. CASE WriteManifest
  <2>1. Exists(Here(job.key))
    BY <1>2, <1>14 DEF WriteManifest, At, TargetPCs
  <2>2. SameRequest /\ Elsewhere /\ dirs' \in TypedDirs /\ UNCHANGED intents
    BY <1>14, <2>1, WriteManifestEffect DEF TypedDirs
  <2>3. QED BY <1>1, <1>4, <2>2
<1>15. CASE CleanUpIntents
  <2>1. SameRequest /\ Elsewhere /\ UNCHANGED dirs /\ intents' \subseteq intents
    BY <1>15, CleanUpIntentsEffect
  <2>2. QED BY <1>1, <1>4, <2>1
<1>16. CASE SweepIntents
  <2>1. SameRequest /\ Elsewhere /\ UNCHANGED dirs /\ intents' \subseteq intents
    BY <1>16, SweepIntentsEffect
  <2>2. QED BY <1>1, <1>4, <2>1
<1>17. CASE OwnTarget
  <2>1. Exists(Here(job.key))
    BY <1>2, <1>17 DEF OwnTarget, At, TargetPCs
  <2>2. SameRequest /\ Elsewhere /\ UNCHANGED <<dirs, intents>>
    BY <1>17, <2>1, OwnTargetEffect DEF Installs
  <2>3. QED BY <1>1, <1>4, <2>2
<1>18. CASE TakeLease
  <2>1. Leased /\ UNCHANGED <<dirs, building>>
    BY <1>18 DEF TakeLease
  <2>2. /\ job' = None /\ UNCHANGED <<canonical, intents, budget>>
        /\ at' \in [Processes -> Resolved \cup {None}]
        /\ at'[job.process] # None
        /\ \A p \in Processes : p # job.process => at'[p] = at[p]
    BY <2>1, LeasedEffect
  <2>3. QED BY <1>1, <1>3, <2>1, <2>2
<1>19. CASE TakeLeaseAndRebuildLock
  <2>1. job # None /\ Exists(Here(job.key))
    BY <1>2, <1>19 DEF TakeLeaseAndRebuildLock, Leased, At, TargetPCs
  <2>2. Leased /\ building' = building \cup {job.process} /\ dirs' \in TypedDirs
    BY <1>5, <1>19, <2>1, TakeLeaseAndRebuildLockEffect
  <2>3. /\ job' = None /\ UNCHANGED <<canonical, intents, budget>>
        /\ at' \in [Processes -> Resolved \cup {None}]
        /\ at'[job.process] # None
        /\ \A p \in Processes : p # job.process => at'[p] = at[p]
    BY <2>2, LeasedEffect
  <2>4. job.process \in Processes
    BY <2>1, JobsAreTyped
  <2>5. QED BY <1>1, <1>3, <2>2, <2>3, <2>4
<1>20. CASE Fail
  <2>1. job' = None /\ UNCHANGED <<dirs, intents>> /\ Elsewhere
    BY <1>20 DEF Fail, environment, Elsewhere
  <2>2. QED BY <1>1, <1>4, <2>1
<1>21. ASSUME NEW p \in Processes, OpenIndex(p) PROVE TypeOK'
  <2>1. UNCHANGED <<intents, job>> /\ Elsewhere /\ dirs' \in TypedDirs
    BY <1>5, <1>21, OpenIndexEffect
  <2>2. QED BY <1>1, <1>3, <2>1 DEF Elsewhere
<1>22. ASSUME NEW p \in Processes, PublishIndex(p) PROVE TypeOK'
  <2>1. Exists(Here(at[p].key))
    BY <1>1, <1>2, <1>22 DEF PublishIndex
  <2>2. /\ UNCHANGED <<canonical, intents, job, at, budget>> /\ dirs' \in TypedDirs
        /\ building' = building \ {p}
    BY <1>5, <1>22, <2>1, PublishIndexEffect
  <2>3. QED BY <1>1, <1>3, <2>2
<1>23. ASSUME NEW p \in Processes, ClearIndex(p) PROVE TypeOK'
  <2>1. Exists(Here(at[p].key))
    BY <1>1, <1>2, <1>23 DEF ClearIndex
  <2>2. /\ UNCHANGED <<canonical, intents, job, at, budget>> /\ dirs' \in TypedDirs
        /\ building' = building \ {p}
    BY <1>5, <1>23, <2>1, ClearIndexEffect
  <2>3. QED BY <1>1, <1>3, <2>2
<1>24. ASSUME NEW p \in Processes, EndCommand(p) PROVE TypeOK'
  <2>1. /\ UNCHANGED <<canonical, dirs, intents, job, budget>>
        /\ at' \in [Processes -> Resolved \cup {None}] /\ building' = building \ {p}
        /\ \A q \in Processes : q # p => at'[q] = at[q]
    BY <1>24, EndCommandEffect
  <2>2. QED BY <1>1, <1>3, <2>1
<1>25. CASE Kill
  <2>1. /\ job' = None /\ UNCHANGED <<canonical, dirs, intents>>
        /\ budget' \in [faults : Nat, remounts : Nat, overlaps : Nat]
        /\ at' \in [Processes -> Resolved \cup {None}]
        /\ building' = building \ {job.process}
        /\ \A q \in Processes : q # job.process => at'[q] = at[q]
    BY <1>25, KillEffect
  <2>2. QED BY <1>1, <1>3, <2>1
<1>26. CASE FileOperationFails
  <2>1. /\ SameRequest /\ UNCHANGED <<canonical, intents, at, building>>
        /\ budget' \in [faults : Nat, remounts : Nat, overlaps : Nat]
        /\ UNCHANGED dirs \/ dirs' \in TypedDirs
    BY <1>2, <1>26, FileOperationFailsEffect DEF TypedDirs
  <2>2. QED BY <1>1, <1>3, <2>1 DEF SameRequest
<1>27. ASSUME NEW root \in Roots, Remount(root) PROVE TypeOK'
  <2>1. /\ UNCHANGED <<dirs, intents, job, at, building>>
        /\ budget' \in [faults : Nat, remounts : Nat, overlaps : Nat]
        /\ canonical' \in [Roots -> Roots]
    BY <1>27, RemountEffect
  <2>2. QED BY <1>1, <1>3, <2>1
<1>28. ASSUME NEW key \in Roots, Collect(key) PROVE TypeOK'
  <2>1. /\ UNCHANGED <<canonical, intents, job, at, building>>
        /\ budget' \in [faults : Nat, remounts : Nat, overlaps : Nat]
        /\ dirs' \in TypedDirs
    BY <1>28, CollectEffect DEF TypedDirs
  <2>2. QED BY <1>1, <1>3, <2>1
<1>29. CASE UNCHANGED vars
  BY <1>1, <1>3, <1>29 DEF vars
<1>30. QED BY <1>6, <1>7, <1>8, <1>9, <1>10, <1>11, <1>12, <1>13, <1>14, <1>15,
              <1>16, <1>17, <1>18, <1>19, <1>20, <1>21, <1>22, <1>23, <1>24,
              <1>25, <1>26, <1>27, <1>28, <1>29 DEF Next, Resolve

(***************************************************************************)
(* Commands keep their directories.                                        *)
(***************************************************************************)
LEMMA FreeKeys ==
  ASSUME NEW key, ~IsLeased(key)
  PROVE  \A p \in Processes : at[p] # None => at[p].key # key
BY DEF IsLeased, Leases

\* A place where nothing that a lease needs gets lost.
LeavesLeased(place) ==
  /\ dirs'[place] # None
  /\ dirs[place].owner # None =>
       /\ dirs'[place].owner # None
       /\ Identities(dirs[place].owner) \subseteq Identities(dirs'[place].owner)
  /\ dirs[place].files => dirs'[place].files

LEMMA LeasesStep ==
  ASSUME TypeOK, PinInv, [Next]_vars
  PROVE  LeasesHold'
<1>1. LeasesHold /\ TargetInv /\ MoveInv /\ PinnedInv /\ OwnerInv
  BY DEF PinInv
<1>2. /\ job # None /\ job.pc \in TargetPCs => Exists(Here(job.key))
      /\ job # None /\ job.pc \in MovePCs =>
           /\ job.source \in Places /\ Exists(job.source)
           /\ job.source # Here(job.key)
      /\ job # None /\ job.pc = "rename" => job.trash # None
      /\ \A p \in Processes : at[p] # None => Exists(Here(at[p].key))
  BY WhatIsThere
<1>3. \A p \in Processes : at[p] # None =>
        at[p].key \in Roots /\ Here(at[p].key) \in Places
  BY LeasedPlaces
<1>4. building \subseteq {p \in Processes : at[p] # None}
  BY DEF TypeOK
<1>5. job # None => job.process \in Processes /\ job.key \in Roots /\ Here(job.key) \in Places
  BY JobsAreTyped
<1>6. \A key, other \in Roots : Here(key) = Here(other) => key = other
  BY PlacesAreTyped
\* Processes that keep what they have.
<1>7. ASSUME NEW p \in Processes, at'[p] = at[p], p \in building' => p \in building,
             at[p] # None => LeavesLeased(Here(at[p].key))
      PROVE  at'[p] # None =>
               LET place == Here(at'[p].key)
               IN  /\ dirs'[place] # None /\ dirs'[place].owner # None
                   /\ at'[p].path \in Identities(dirs'[place].owner)
                   /\ p \in building' => dirs'[place].files
  BY <1>1, <1>7 DEF LeasesHold, LeavesLeased, Exists
<1>8. ASSUME UNCHANGED at, building' \subseteq building,
             \A p \in Processes : at[p] # None => LeavesLeased(Here(at[p].key))
      PROVE  LeasesHold'
  BY <1>7, <1>8 DEF LeasesHold, Exists
<1>9. ASSUME UNCHANGED <<dirs, at, building>>
      PROVE  LeasesHold'
  BY <1>1, <1>9 DEF LeasesHold, Exists
<1>10. ASSUME NEW place, Issued(place)
       PROVE  \A other \in Places : Exists(other) => LeavesLeased(other)
  BY <1>10 DEF Issued, LeavesLeased, Exists
<1>11. ASSUME NEW place, Amends(place), dirs[place].files => dirs'[place].files
       PROVE  \A other \in Places : Exists(other) => LeavesLeased(other)
  BY <1>11 DEF Amends, LeavesLeased, Exists
<1>12. ASSUME UNCHANGED <<at, building>>, NEW places \in SUBSET Places,
              \A p \in Processes : at[p] # None => Here(at[p].key) \notin places,
              \A other \in Places : other \notin places => dirs'[other] = dirs[other]
       PROVE  LeasesHold'
  <2>1. \A p \in Processes : at[p] # None => LeavesLeased(Here(at[p].key))
    BY <1>2, <1>3, <1>12 DEF LeavesLeased, Exists
  <2>2. QED BY <1>8, <1>12, <2>1
<1>13. CASE MakeTarget
  <2>1. /\ Elsewhere
        /\ \A other \in Places : other # Here(job.key) => dirs'[other] = dirs[other]
        /\ dirs'[Here(job.key)] = IF Exists(Here(job.key)) THEN dirs[Here(job.key)]
                                  ELSE EmptyDirectory
    BY <1>13, MakeTargetEffect
  <2>2. \A p \in Processes : at[p] # None => LeavesLeased(Here(at[p].key))
    BY <1>2, <1>3, <2>1 DEF LeavesLeased, Exists
  <2>3. QED BY <1>8, <2>1, <2>2 DEF Elsewhere
<1>14. CASE ChooseSource
  BY <1>9, <1>14, ChooseSourceEffect DEF Elsewhere
<1>15. CASE PlanMove
  <2>1. job # None /\ job.pc = "plan"
    BY <1>15 DEF PlanMove, At
  <2>2. job.source \in Places /\ Exists(job.source) /\ Exists(Here(job.key))
    BY <1>2, <2>1 DEF TargetPCs, MovePCs
  <2>3. Elsewhere /\ Issued(job.source)
    BY <1>15, <2>2, PlanMoveEffect
  <2>4. QED BY <1>2, <1>3, <1>8, <1>10, <2>3 DEF Elsewhere
<1>16. CASE QuarantineTarget
  <2>1. /\ job # None /\ job.pc = "quarantine" /\ Elsewhere
        /\ \A other \in Places : other # Here(job.key) => dirs'[other] = dirs[other]
    BY <1>16, QuarantineTargetEffect
  <2>2. ~IsLeased(job.key)
    BY <1>1, <2>1 DEF MoveInv
  <2>3. \A p \in Processes : at[p] # None => Here(at[p].key) # Here(job.key)
    BY <1>3, <1>5, <1>6, <2>1, <2>2, FreeKeys
  <2>4. {Here(job.key)} \in SUBSET Places
    BY <1>5, <2>1
  <2>5. QED BY <1>12, <2>1, <2>3, <2>4 DEF Elsewhere
<1>17. CASE RenameSource
  <2>1. job # None /\ job.pc = "rename"
    BY <1>17 DEF RenameSource, At
  <2>2. job.source \in Places /\ job.source # Here(job.key)
    BY <1>2, <2>1 DEF MovePCs
  <2>3. /\ Elsewhere
        /\ \A other \in Places :
             other # Here(job.key) /\ other # job.source => dirs'[other] = dirs[other]
    BY <1>17, <2>2, RenameSourceEffect
  <2>4. /\ ~IsLeased(job.key)
        /\ InNewBase(job.source) => ~IsLeased(job.source[2])
    BY <1>1, <2>1 DEF MoveInv, MovePCs
  <2>5. \A p \in Processes : at[p] # None => Here(at[p].key) # Here(job.key)
    BY <1>3, <1>5, <1>6, <2>1, <2>4, FreeKeys
  <2>6. \A p \in Processes : at[p] # None => Here(at[p].key) # job.source
    BY <1>3, <2>2, <2>4, FreeKeys, PlacesAreTyped
  <2> DEFINE moved == {Here(job.key), job.source}
  <2>7. moved \in SUBSET Places
    BY <1>5, <2>1, <2>2
  <2>8. QED BY <1>12, <2>3, <2>5, <2>6, <2>7 DEF Elsewhere
<1>18. CASE InstallAfterMove
  <2>1. Exists(Here(job.key))
    BY <1>2, <1>18 DEF InstallAfterMove, At, TargetPCs
  <2>2. QED BY <1>9, <1>18, <2>1, InstallAfterMoveEffect DEF Installs, Elsewhere
<1>19. CASE WriteIntent
  <2>1. Exists(Here(job.key))
    BY <1>2, <1>19 DEF WriteIntent, At, TargetPCs
  <2>2. Elsewhere /\ Issued(Here(job.key))
    BY <1>19, <2>1, WriteIntentEffect
  <2>3. QED BY <1>2, <1>3, <1>8, <1>10, <2>2 DEF Elsewhere
<1>20. CASE WriteManifest
  <2>1. job # None /\ job.pc = "manifest"
    BY <1>20 DEF WriteManifest, At
  <2>2. Exists(Here(job.key))
    BY <1>2, <2>1 DEF TargetPCs
  <2> DEFINE here == Here(job.key)
  <2>3. /\ Elsewhere
        /\ \A other \in Places : other # here => dirs'[other] = dirs[other]
        /\ dirs'[here] # None /\ dirs'[here].owner = job.owner
        /\ dirs'[here].files = dirs[here].files
    BY <1>20, <2>2, WriteManifestEffect
  <2>4. job.owner # None
    BY <2>1, JobsAreTyped, RecordsAssumption
  <2>5. dirs[here].owner # None =>
          Identities(dirs[here].owner) \subseteq Identities(job.owner)
    BY <1>1, <2>1 DEF OwnerInv
  <2>6. \A p \in Processes : at[p] # None => LeavesLeased(Here(at[p].key))
    BY <1>2, <1>3, <2>3, <2>4, <2>5 DEF LeavesLeased, Exists
  <2>7. QED BY <1>8, <2>3, <2>6 DEF Elsewhere
<1>21. CASE CleanUpIntents
  BY <1>9, <1>21, CleanUpIntentsEffect DEF Elsewhere
<1>22. CASE SweepIntents
  BY <1>9, <1>22, SweepIntentsEffect DEF Elsewhere
<1>23. CASE OwnTarget
  <2>1. Exists(Here(job.key))
    BY <1>2, <1>23 DEF OwnTarget, At, TargetPCs
  <2>2. QED BY <1>9, <1>23, <2>1, OwnTargetEffect DEF Installs, Elsewhere
<1>24. ASSUME Leased, building' \subseteq building \cup {job.process},
              \A other \in Places : Exists(other) => LeavesLeased(other),
              job.process \in building' =>
                job.process \in building \/ dirs'[Here(job.key)].files
       PROVE  LeasesHold'
  <2>1. /\ job # None /\ job.pc = "lease"
        /\ at'[job.process] # None /\ at'[job.process].path = job.want.raw
        /\ at'[job.process].key = job.key
        /\ \A p \in Processes : p # job.process => at'[p] = at[p]
    BY <1>24, LeasedEffect
  <2>2. /\ Exists(Here(job.key)) /\ dirs[Here(job.key)].owner # None
        /\ job.want.raw \in Identities(dirs[Here(job.key)].owner)
    BY <1>1, <1>2, <2>1 DEF OwnerInv, TargetPCs
  <2>3. LeavesLeased(Here(job.key))
    BY <1>5, <1>24, <2>1, <2>2
  <2>4. job.process \in building' => dirs'[Here(job.key)].files
    <3>1. job.process \in building =>
            at[job.process] # None /\ at[job.process].key = job.key
      BY <1>1, <1>4, <2>1 DEF PinnedInv
    <3>2. job.process \in building => dirs[Here(job.key)].files
      BY <1>1, <1>5, <2>1, <3>1 DEF LeasesHold
    <3>3. QED BY <1>24, <2>3, <3>2 DEF LeavesLeased
  <2>5. \A p \in Processes : p # job.process /\ at[p] # None => LeavesLeased(Here(at[p].key))
    BY <1>2, <1>3, <1>24
  <2>6. \A p \in Processes : p # job.process /\ at'[p] # None =>
          LET place == Here(at'[p].key)
          IN  /\ dirs'[place] # None /\ dirs'[place].owner # None
              /\ at'[p].path \in Identities(dirs'[place].owner)
              /\ p \in building' => dirs'[place].files
    BY <1>7, <1>24, <2>1, <2>5
  <2>7. LET place == Here(job.key)
        IN  /\ dirs'[place] # None /\ dirs'[place].owner # None
            /\ job.want.raw \in Identities(dirs'[place].owner)
    BY <2>2, <2>3 DEF LeavesLeased
  <2>8. QED BY <2>1, <2>4, <2>6, <2>7 DEF LeasesHold, Exists
<1>25. CASE TakeLease
  <2>1. \A other \in Places : Exists(other) => LeavesLeased(other)
    BY <1>25 DEF TakeLease, LeavesLeased, Exists
  <2>2. QED BY <1>24, <1>25, <2>1 DEF TakeLease
<1>26. CASE TakeLeaseAndRebuildLock
  <2>1. Exists(Here(job.key))
    BY <1>2, <1>26 DEF TakeLeaseAndRebuildLock, Leased, At, TargetPCs
  <2>2. /\ Leased /\ building' = building \cup {job.process}
        /\ Amends(Here(job.key)) /\ dirs'[Here(job.key)].files
    BY <1>26, <2>1, TakeLeaseAndRebuildLockEffect
  <2>3. QED BY <1>11, <1>24, <2>2
<1>27. CASE Fail
  BY <1>9, <1>27 DEF Fail, environment
<1>28. ASSUME NEW p \in Processes, OpenIndex(p) PROVE LeasesHold'
  <2>1. /\ Elsewhere /\ Amends(Here(at[p].key))
        /\ dirs'[Here(at[p].key)].files = dirs[Here(at[p].key)].files
    BY <1>28, OpenIndexEffect
  <2>2. QED BY <1>2, <1>3, <1>8, <1>11, <2>1 DEF Elsewhere
<1>29. ASSUME NEW p \in Processes, PublishIndex(p) PROVE LeasesHold'
  <2>1. Exists(Here(at[p].key))
    BY <1>2, <1>4, <1>29 DEF PublishIndex
  <2>2. /\ UNCHANGED at /\ Amends(Here(at[p].key)) /\ building' = building \ {p}
        /\ dirs'[Here(at[p].key)].files = dirs[Here(at[p].key)].files
    BY <1>29, <2>1, PublishIndexEffect
  <2>3. QED BY <1>2, <1>3, <1>8, <1>11, <2>2
<1>30. ASSUME NEW p \in Processes, ClearIndex(p) PROVE LeasesHold'
  <2>1. Exists(Here(at[p].key))
    BY <1>2, <1>4, <1>30 DEF ClearIndex
  <2>2. /\ UNCHANGED at /\ Amends(Here(at[p].key)) /\ building' = building \ {p}
        /\ dirs'[Here(at[p].key)].files = dirs[Here(at[p].key)].files
    BY <1>30, <2>1, ClearIndexEffect
  <2>3. QED BY <1>2, <1>3, <1>8, <1>11, <2>2
<1>31. ASSUME NEW q, building' = building \ {q}, UNCHANGED dirs,
              at'[q] = None, \A p \in Processes : p # q => at'[p] = at[p]
       PROVE  LeasesHold'
  BY <1>1, <1>31 DEF LeasesHold, Exists
<1>32. ASSUME NEW p \in Processes, EndCommand(p) PROVE LeasesHold'
  BY <1>31, <1>32, EndCommandEffect
<1>33. CASE Kill
  BY <1>31, <1>33, KillEffect
<1>34. CASE FileOperationFails
  <2>1. /\ job # None /\ UNCHANGED <<at, building>>
        /\ \/ job.pc # "rename" /\ UNCHANGED dirs
           \/ /\ job.pc = "rename"
              /\ \A other \in Places : other # Here(job.key) => dirs'[other] = dirs[other]
    BY <1>2, <1>34, FileOperationFailsEffect
  <2>2. CASE UNCHANGED dirs
    BY <1>9, <2>1, <2>2
  <2>3. CASE /\ job.pc = "rename"
             /\ \A other \in Places : other # Here(job.key) => dirs'[other] = dirs[other]
    <3>1. ~IsLeased(job.key)
      BY <1>1, <2>1, <2>3 DEF MoveInv
    <3>2. \A p \in Processes : at[p] # None => Here(at[p].key) # Here(job.key)
      BY <1>3, <1>5, <1>6, <2>1, <3>1, FreeKeys
    <3>3. {Here(job.key)} \in SUBSET Places
      BY <1>5, <2>1
    <3>4. QED BY <1>12, <2>1, <2>3, <3>2, <3>3
  <2>4. QED BY <2>1, <2>2, <2>3
<1>35. ASSUME NEW key \in Roots, Collect(key) PROVE LeasesHold'
  <2>1. /\ ~IsLeased(key) /\ UNCHANGED <<at, building>>
        /\ \A other \in Places : other # Here(key) => dirs'[other] = dirs[other]
    BY <1>35, CollectEffect
  <2>2. \A p \in Processes : at[p] # None => Here(at[p].key) # Here(key)
    BY <1>3, <1>6, <2>1, FreeKeys
  <2>3. {Here(key)} \in SUBSET Places
    BY PlacesAreTyped
  <2>4. QED BY <1>12, <2>1, <2>2, <2>3
<1>36. ASSUME NEW p \in Processes, NEW root \in Requested,
              NEW kind \in {"resolve", "legacy"}, Begin(p, root, kind)
       PROVE  LeasesHold'
  BY <1>9, <1>36, BeginEffect
<1>37. ASSUME NEW root \in Roots, Remount(root) PROVE LeasesHold'
  BY <1>9, <1>37, RemountEffect
<1>38. CASE UNCHANGED vars
  BY <1>9, <1>38 DEF vars
<1>39. QED BY <1>13, <1>14, <1>15, <1>16, <1>17, <1>18, <1>19, <1>20, <1>21,
              <1>22, <1>23, <1>25, <1>26, <1>27, <1>28, <1>29, <1>30, <1>32,
              <1>33, <1>34, <1>35, <1>36, <1>37, <1>38 DEF Next, Resolve

(***************************************************************************)
(* What a resolution relies on stays true while it runs.                   *)
(***************************************************************************)
ResolutionInv == TargetInv /\ MoveInv /\ PinnedInv /\ OwnerInv

LEMMA BeginRelies ==
  ASSUME TypeOK, PinInv, NEW p \in Processes, NEW root \in Requested,
         NEW kind \in {"resolve", "legacy"}, Begin(p, root, kind)
  PROVE  ResolutionInv'
<1>1. /\ job = None /\ UNCHANGED <<canonical, dirs, intents, at, building>>
      /\ at[p] # None => root = at[p].path
      /\ job' # None /\ job'.process = p
      /\ job'.want.raw = root /\ Identities(job'.want) = {canonical[root], root}
      /\ job'.next = "lease"
      /\ Identities(job'.want) \subseteq Identities(job'.carried)
      /\ \/ /\ job'.pc \in {"failed", "target"}
            /\ job'.pc = "target" /\ at[p] # None
                 => LET pinned == Here(at[p].key)
                    IN  \/ ~Exists(pinned) \/ dirs[pinned].owner = None
                        \/ Known(pinned) \cap {canonical[root], root} = {}
         \/ LET pinned == Here(at[p].key)
            IN  /\ at[p] # None /\ Exists(pinned) /\ job'.key = at[p].key
                /\ Identities(job'.owner) = Known(pinned) \cup Identities(job'.carried)
                /\ job'.pc \in {"intent", "cleanup"}
  BY BeginEffect
<1>2. at[p] # None =>
        LET pinned == Here(at[p].key)
        IN  /\ Exists(pinned) /\ dirs[pinned].owner # None
            /\ root \in Identities(dirs[pinned].owner)
            /\ Identities(dirs[pinned].owner) \subseteq Known(pinned)
  BY <1>1 DEF PinInv, LeasesHold, Known, InManifest
<1>3. CASE job'.pc = "failed"
  BY <1>1, <1>3 DEF ResolutionInv, TargetInv, MoveInv, PinnedInv, OwnerInv, TargetPCs, MovePCs
<1>4. CASE job'.pc = "target"
  <2>1. at[p] = None
    BY <1>1, <1>2, <1>4
  <2>2. QED BY <1>1, <1>4, <2>1
            DEF ResolutionInv, TargetInv, MoveInv, PinnedInv, OwnerInv, TargetPCs, MovePCs
<1>5. CASE job'.pc \in {"intent", "cleanup"}
  <2> DEFINE pinned == Here(at[p].key)
  <2>1. /\ at[p] # None /\ Exists(pinned) /\ job'.key = at[p].key
        /\ Identities(job'.owner) = Known(pinned) \cup Identities(job'.carried)
    BY <1>1, <1>5
  <2>2. /\ dirs'[Here(job'.key)] = dirs[pinned] /\ dirs[pinned].owner # None
        /\ root \in Identities(dirs[pinned].owner)
        /\ Identities(dirs[pinned].owner) \subseteq Identities(job'.owner)
        /\ root \in Identities(job'.owner)
    BY <1>1, <1>2, <2>1
  <2>3. TargetInv' /\ MoveInv' /\ PinnedInv'
    BY <1>1, <1>5, <2>1, <2>2 DEF TargetInv, MoveInv, PinnedInv, MovePCs, Exists
  <2>4. OwnerInv'
    BY <1>1, <1>5, <2>2 DEF OwnerInv
  <2>5. QED BY <2>3, <2>4 DEF ResolutionInv
<1>6. QED BY <1>1, <1>3, <1>4, <1>5

LEMMA ResolveRelies ==
  ASSUME TypeOK, PinInv, Resolve
  PROVE  ResolutionInv'
<1>1. TargetInv /\ MoveInv /\ PinnedInv /\ OwnerInv
  BY DEF PinInv
<1>2. /\ job # None /\ job.pc \in TargetPCs => Exists(Here(job.key))
      /\ job # None /\ job.pc \in MovePCs =>
           /\ job.source \in Places /\ Exists(job.source) /\ HasIndex(job.source)
           /\ job.source # Here(job.key)
      /\ job # None /\ job.pc = "rename" => job.trash # None
  BY WhatIsThere
<1>3. job # None => /\ job.key \in Roots /\ Here(job.key) \in Places
                    /\ job.next \in {"lease", "sweep"}
                    /\ job.want.raw \in Identities(job.want)
  BY JobsAreTyped DEF Identities
<1>4. ASSUME job' = None PROVE ResolutionInv'
  BY <1>4 DEF ResolutionInv, TargetInv, MoveInv, PinnedInv, OwnerInv
<1>5. ASSUME job # None, SameRequest, UNCHANGED at, job.pc # "failed"
      PROVE  PinnedInv'
  BY <1>1, <1>5 DEF PinnedInv, SameRequest
<1>6. ASSUME job # None, SameRequest, UNCHANGED at, job.pc # "failed",
             job'.pc \in {"target", "choose", "own", "install", "sweep", "failed"},
             job'.pc \in TargetPCs => dirs'[Here(job.key)] # None,
             job'.pc = "sweep" => dirs'[Here(job.key)].owner # None,
             job'.next = "lease" /\ job'.pc = "sweep" =>
               job.want.raw \in Identities(dirs'[Here(job.key)].owner)
      PROVE  ResolutionInv'
  <2>1. TargetInv' /\ MoveInv' /\ OwnerInv'
    BY <1>6 DEF TargetInv, MoveInv, OwnerInv, SameRequest, MovePCs, Exists
  <2>2. QED BY <1>5, <1>6, <2>1 DEF ResolutionInv
<1>7. ASSUME job # None, SameRequest, UNCHANGED at, job.pc # "failed",
             job'.pc \in {"intent", "manifest", "cleanup", "lease"},
             dirs'[Here(job.key)] # None,
             job'.pc = "lease" => job'.next = "lease",
             job'.pc \in {"intent", "manifest"} =>
               /\ dirs'[Here(job.key)].owner # None =>
                    Identities(dirs'[Here(job.key)].owner) \subseteq Identities(job'.owner)
               /\ job'.next = "lease" => job.want.raw \in Identities(job'.owner),
             job'.pc \in {"cleanup", "lease"} =>
               /\ dirs'[Here(job.key)].owner # None
               /\ job'.next = "lease" =>
                    job.want.raw \in Identities(dirs'[Here(job.key)].owner)
      PROVE  ResolutionInv'
  <2>1. TargetInv' /\ MoveInv' /\ OwnerInv'
    BY <1>7 DEF TargetInv, MoveInv, OwnerInv, SameRequest, MovePCs, Exists
  <2>2. QED BY <1>5, <1>7, <2>1 DEF ResolutionInv
<1>8. ASSUME NEW desired, NEW next \in {"lease", "sweep"}, Installs(desired, next),
             job # None, job.pc # "failed", Exists(Here(job.key)),
             next = "lease" => job.want.raw \in Identities(desired)
      PROVE  ResolutionInv'
  <2>1. SameRequest /\ UNCHANGED <<dirs, at>>
    BY <1>8 DEF Installs, Elsewhere
  <2>2. \/ job'.pc = "failed"
        \/ /\ job'.pc = "intent" /\ job'.next = next
           /\ Identities(job'.owner) = Identities(desired) \cup InManifest(Here(job.key))
        \/ /\ job'.pc = "cleanup" /\ job'.next = next
           /\ dirs[Here(job.key)].owner # None
           /\ Identities(desired) \subseteq InManifest(Here(job.key))
    BY <1>8 DEF Installs
  <2>3. CASE job'.pc = "failed"
    BY <1>6, <1>8, <2>1, <2>3 DEF TargetPCs
  <2>4. CASE /\ job'.pc = "intent" /\ job'.next = next
             /\ Identities(job'.owner) = Identities(desired) \cup InManifest(Here(job.key))
    BY <1>7, <1>8, <2>1, <2>4 DEF InManifest, Exists
  <2>5. CASE /\ job'.pc = "cleanup" /\ job'.next = next
             /\ dirs[Here(job.key)].owner # None
             /\ Identities(desired) \subseteq InManifest(Here(job.key))
    BY <1>7, <1>8, <2>1, <2>5 DEF InManifest, Exists
  <2>6. QED BY <2>2, <2>3, <2>4, <2>5
<1>9. ASSUME job # None, SameRequest, UNCHANGED at, job.pc # "failed",
             job'.pc \in MovePCs, job'.source # None, job'.source # Here(job.key),
             dirs'[job'.source] # None, dirs'[job'.source].db # None,
             InNewBase(job'.source) => ~IsLeased(job'.source[2]),
             job'.pc \in TargetPCs => dirs'[Here(job.key)] # None,
             job'.pc = "rename" => job'.trash # None /\ dirs'[Here(job.key)] = None,
             job'.pc = "plan" /\ job.kind = "resolve" => ~IsLeased(job.key),
             job'.pc \in {"quarantine", "rename"} => ~IsLeased(job.key)
      PROVE  ResolutionInv'
  <2>1. TargetInv' /\ OwnerInv'
    BY <1>9 DEF TargetInv, OwnerInv, SameRequest, MovePCs, Exists
  <2>2. MoveInv'
    BY <1>9 DEF MoveInv, SameRequest, MovePCs, HasIndex, Exists, InNewBase, IsLeased, Leases
  <2>3. QED BY <1>5, <1>9, <2>1, <2>2 DEF ResolutionInv
<1>10. CASE MakeTarget
  <2>1. /\ job # None /\ job.pc = "target" /\ SameRequest /\ job'.pc = "choose"
        /\ Elsewhere
        /\ dirs'[Here(job.key)] = IF Exists(Here(job.key)) THEN dirs[Here(job.key)]
                                  ELSE EmptyDirectory
    BY <1>10, MakeTargetEffect
  <2>2. EmptyDirectory # None
    BY EmptyIsTyped, RecordsAssumption
  <2>3. QED BY <1>6, <2>1, <2>2 DEF Elsewhere, Exists
<1>11. CASE ChooseSource
  <2>1. /\ job # None /\ job.pc = "choose" /\ SameRequest /\ UNCHANGED dirs /\ Elsewhere
        /\ \/ job'.pc \in {"own", "failed"}
           \/ /\ job'.pc = "plan"
              /\ job'.source \in Places /\ HasIndex(job'.source)
              /\ job'.source # Here(job.key)
              /\ InNewBase(job'.source) => ~IsLeased(job'.source[2])
              /\ job.kind = "resolve" => ~IsLeased(job.key)
    BY <1>11, ChooseSourceEffect
  <2>2. Exists(Here(job.key))
    BY <1>2, <2>1 DEF TargetPCs
  <2>3. CASE job'.pc \in {"own", "failed"}
    BY <1>6, <2>1, <2>2, <2>3 DEF Exists, Elsewhere
  <2>4. CASE job'.pc = "plan"
    <3>1. /\ job'.source \in Places /\ dirs'[job'.source] # None
          /\ dirs'[job'.source].db # None /\ job'.source # None
      BY <2>1, <2>4, RecordsAssumption DEF HasIndex, Exists
    <3>2. QED BY <1>9, <2>1, <2>2, <2>4, <3>1 DEF Exists, Elsewhere, MovePCs
  <2>5. QED BY <2>1, <2>3, <2>4
<1>12. CASE PlanMove
  <2>1. job # None /\ job.pc = "plan"
    BY <1>12 DEF PlanMove, At
  <2>2. job.source \in Places /\ Exists(job.source) /\ Exists(Here(job.key))
    BY <1>2, <2>1 DEF TargetPCs, MovePCs
  <2>3. /\ SameRequest /\ job'.source = job.source /\ Issued(job.source) /\ Elsewhere
        /\ \/ job'.pc = "failed"
           \/ job'.pc = "quarantine" /\ (job.kind = "legacy" => ~IsLeased(job.key))
    BY <1>12, <2>2, PlanMoveEffect
  <2>4. /\ dirs'[job.source] # None /\ dirs'[job.source].db # None
        /\ dirs'[Here(job.key)] # None
    BY <1>2, <1>3, <2>1, <2>2, <2>3 DEF Issued, HasIndex, Exists, MovePCs
  <2>5. /\ job.source # None /\ job.source # Here(job.key)
        /\ InNewBase(job.source) => ~IsLeased(job.source[2])
        /\ job.kind = "resolve" => ~IsLeased(job.key)
    BY <1>1, <2>1 DEF MoveInv, MovePCs
  <2>6. job.kind \in {"resolve", "legacy"}
    BY <2>1, JobsAreTyped
  <2>7. CASE job'.pc = "failed"
    BY <1>6, <2>1, <2>3, <2>4, <2>7 DEF Elsewhere
  <2>8. CASE job'.pc = "quarantine"
    BY <1>9, <2>1, <2>3, <2>4, <2>5, <2>6, <2>8 DEF Elsewhere, MovePCs
  <2>9. QED BY <2>3, <2>7, <2>8
<1>13. CASE QuarantineTarget
  <2>1. /\ job # None /\ job.pc = "quarantine" /\ SameRequest /\ Elsewhere
        /\ job'.pc = "rename" /\ job'.source = job.source
        /\ job'.trash = dirs[Here(job.key)] /\ dirs'[Here(job.key)] = None
        /\ \A other \in Places : other # Here(job.key) => dirs'[other] = dirs[other]
    BY <1>13, QuarantineTargetEffect
  <2>2. /\ job.source # None /\ job.source # Here(job.key)
        /\ InNewBase(job.source) => ~IsLeased(job.source[2])
        /\ ~IsLeased(job.key)
    BY <1>1, <2>1 DEF MoveInv, MovePCs
  <2>3. /\ dirs[Here(job.key)] # None
        /\ dirs'[job.source] # None /\ dirs'[job.source].db # None
    BY <1>2, <2>1 DEF TargetPCs, MovePCs, HasIndex, Exists
  <2>4. "rename" \notin TargetPCs
    BY DEF TargetPCs
  <2>5. QED BY <1>9, <2>1, <2>2, <2>3, <2>4 DEF Elsewhere, MovePCs
<1>14. CASE RenameSource
  <2>1. job # None /\ job.pc = "rename"
    BY <1>14 DEF RenameSource, At
  <2>2. job.source \in Places /\ job.source # Here(job.key) /\ dirs[job.source] # None
    BY <1>2, <2>1 DEF MovePCs, Exists
  <2>3. /\ SameRequest /\ Elsewhere /\ job'.pc = "install"
        /\ dirs'[Here(job.key)] = dirs[job.source]
    BY <1>14, <2>2, RenameSourceEffect
  <2>4. QED BY <1>6, <2>1, <2>2, <2>3 DEF Elsewhere
<1>15. CASE InstallAfterMove
  <2>1. job # None /\ job.pc = "install"
    BY <1>15 DEF InstallAfterMove, At
  <2>2. Exists(Here(job.key))
    BY <1>2, <2>1 DEF TargetPCs
  <2>3. QED BY <1>8, <1>15, <2>1, <2>2, InstallAfterMoveEffect
<1>16. CASE WriteIntent
  <2>1. job # None /\ job.pc = "intent"
    BY <1>16 DEF WriteIntent, At
  <2>2. Exists(Here(job.key))
    BY <1>2, <2>1 DEF TargetPCs
  <2>3. /\ SameRequest /\ Elsewhere /\ Issued(Here(job.key)) /\ job'.pc = "manifest"
        /\ job'.owner = job.owner /\ job'.next = job.next
    BY <1>16, <2>2, WriteIntentEffect
  <2>4. /\ dirs'[Here(job.key)] # None
        /\ dirs'[Here(job.key)].owner = dirs[Here(job.key)].owner
    BY <2>3 DEF Issued
  <2>5. /\ dirs[Here(job.key)].owner # None =>
             Identities(dirs[Here(job.key)].owner) \subseteq Identities(job.owner)
        /\ job.next = "lease" => job.want.raw \in Identities(job.owner)
    BY <1>1, <2>1 DEF OwnerInv
  <2>6. QED BY <1>7, <2>1, <2>3, <2>4, <2>5 DEF Elsewhere
<1>17. CASE WriteManifest
  <2>1. job # None /\ job.pc = "manifest"
    BY <1>17 DEF WriteManifest, At
  <2>2. Exists(Here(job.key))
    BY <1>2, <2>1 DEF TargetPCs
  <2>3. /\ SameRequest /\ Elsewhere /\ job'.pc = "cleanup"
        /\ job'.owner = job.owner /\ job'.next = job.next
        /\ dirs'[Here(job.key)] # None /\ dirs'[Here(job.key)].owner = job.owner
    BY <1>17, <2>2, WriteManifestEffect
  <2>4. job.next = "lease" => job.want.raw \in Identities(job.owner)
    BY <1>1, <2>1 DEF OwnerInv
  <2>5. job.owner # None
    BY <2>1, JobsAreTyped, RecordsAssumption
  <2>6. QED BY <1>7, <2>1, <2>3, <2>4, <2>5 DEF Elsewhere
<1>18. CASE CleanUpIntents
  <2>1. /\ job # None /\ job.pc = "cleanup" /\ SameRequest /\ Elsewhere
        /\ job'.pc = job.next /\ job'.next = job.next /\ UNCHANGED dirs
    BY <1>18, CleanUpIntentsEffect
  <2>2. /\ dirs'[Here(job.key)] # None /\ dirs'[Here(job.key)].owner # None
        /\ job.next = "lease" => job.want.raw \in Identities(dirs'[Here(job.key)].owner)
    BY <1>1, <1>2, <2>1 DEF OwnerInv, TargetPCs, Exists
  <2>3. CASE job.next = "lease"
    BY <1>7, <2>1, <2>2, <2>3 DEF Elsewhere
  <2>4. CASE job.next = "sweep"
    BY <1>6, <2>1, <2>2, <2>4 DEF Elsewhere
  <2>5. QED BY <1>3, <2>1, <2>3, <2>4
<1>19. CASE SweepIntents
  <2>1. /\ job # None /\ job.pc = "sweep" /\ SameRequest /\ Elsewhere
        /\ job'.pc = "own" /\ UNCHANGED dirs
    BY <1>19, SweepIntentsEffect
  <2>2. dirs'[Here(job.key)] # None
    BY <1>2, <2>1 DEF TargetPCs, Exists
  <2>3. QED BY <1>6, <2>1, <2>2 DEF Elsewhere
<1>20. CASE OwnTarget
  <2>1. job # None /\ job.pc = "own"
    BY <1>20 DEF OwnTarget, At
  <2>2. Exists(Here(job.key)) /\ job.want.raw \in Identities(job.carried)
    BY <1>1, <1>2, <1>3, <2>1 DEF TargetPCs, PinnedInv
  <2>3. QED BY <1>8, <1>20, <2>1, <2>2, OwnTargetEffect
<1>21. CASE TakeLease \/ TakeLeaseAndRebuildLock \/ Fail
  BY <1>4, <1>21 DEF TakeLease, TakeLeaseAndRebuildLock, Leased, Fail
<1>22. QED BY <1>10, <1>11, <1>12, <1>13, <1>14, <1>15, <1>16, <1>17, <1>18,
              <1>19, <1>20, <1>21 DEF Resolve

LEMMA WorldRelies ==
  ASSUME TypeOK, PinInv,
         \/ \E p \in Processes : \/ OpenIndex(p) \/ PublishIndex(p)
                                 \/ ClearIndex(p) \/ EndCommand(p)
         \/ Kill \/ FileOperationFails
         \/ \E root \in Roots : Remount(root)
         \/ \E key \in Roots : Collect(key)
         \/ UNCHANGED vars
  PROVE  ResolutionInv'
<1>1. LeasesHold /\ TargetInv /\ MoveInv /\ PinnedInv /\ OwnerInv
  BY DEF PinInv
<1>2. /\ job # None /\ job.pc \in TargetPCs => Exists(Here(job.key))
      /\ job # None /\ job.pc \in MovePCs =>
           /\ job.source \in Places /\ Exists(job.source) /\ HasIndex(job.source)
           /\ job.source # Here(job.key)
      /\ job # None /\ job.pc = "rename" => job.trash # None
      /\ \A p \in Processes : at[p] # None => Exists(Here(at[p].key))
  BY WhatIsThere
<1>3. job # None => Here(job.key) \in Places
  BY JobsAreTyped
<1>4. ASSUME job' = None PROVE ResolutionInv'
  BY <1>4 DEF ResolutionInv, TargetInv, MoveInv, PinnedInv, OwnerInv
<1>5. ASSUME NEW p \in Processes, at[p] # None, Amends(Here(at[p].key)), UNCHANGED <<job, at>>
      PROVE  ResolutionInv'
  <2>1. \A place \in Places : Exists(place) =>
          dirs'[place] # None /\ dirs'[place].owner = dirs[place].owner
    BY <1>5 DEF Amends, Exists
  <2>2. TargetInv' /\ PinnedInv'
    <3>1. job # None /\ job.pc = "rename" => dirs'[Here(job.key)] = None
      <4>1. SUFFICES ASSUME job # None, job.pc = "rename"
                     PROVE  dirs'[Here(job.key)] = None
        OBVIOUS
      <4>2. ~IsLeased(job.key) /\ dirs[Here(job.key)] = None
        BY <1>1, <4>1 DEF MoveInv, TargetInv, Exists
      <4>3. Here(job.key) # Here(at[p].key)
        BY <1>2, <1>5, <4>2 DEF Exists
      <4>4. QED BY <1>3, <1>5, <4>1, <4>2, <4>3 DEF Amends
    <3>2. QED BY <1>1, <1>2, <1>3, <1>5, <2>1, <3>1 DEF TargetInv, PinnedInv, Exists
  <2>3. OwnerInv'
    <3>1. job # None /\ job.pc \in {"intent", "manifest", "cleanup", "sweep", "lease"} =>
            dirs'[Here(job.key)].owner = dirs[Here(job.key)].owner
      BY <1>2, <1>3, <2>1 DEF TargetPCs
    <3>2. QED BY <1>1, <1>5, <3>1 DEF OwnerInv
  <2>4. MoveInv'
    <3>1. job # None /\ job.pc \in MovePCs => job.source # Here(at[p].key)
      <4>1. SUFFICES ASSUME job # None, job.pc \in MovePCs, job.source = Here(at[p].key)
                     PROVE  FALSE
        OBVIOUS
      <4>2. ~IsLeased(job.source[2])
        BY <1>1, <4>1 DEF MoveInv, InNewBase, Here
      <4>3. job.source[2] = at[p].key
        BY <4>1 DEF Here
      <4>4. QED BY <1>5, <4>2, <4>3, FreeKeys
    <3>2. job # None /\ job.pc \in MovePCs => dirs'[job.source] = dirs[job.source]
      BY <1>2, <1>5, <3>1 DEF Amends
    <3>3. QED BY <1>1, <1>5, <3>2 DEF MoveInv, HasIndex, Exists, IsLeased, Leases
  <2>5. QED BY <2>2, <2>3, <2>4 DEF ResolutionInv
<1>6. ASSUME NEW p \in Processes, OpenIndex(p) PROVE ResolutionInv'
  <2>1. at[p] # None /\ Amends(Here(at[p].key)) /\ UNCHANGED <<job, at>>
    BY <1>6, OpenIndexEffect DEF Elsewhere
  <2>2. QED BY <1>5, <2>1
<1>7. \A p \in building : p \in Processes /\ at[p] # None /\ Exists(Here(at[p].key))
  BY <1>2 DEF TypeOK
<1>8. ASSUME NEW p \in Processes, PublishIndex(p) PROVE ResolutionInv'
  <2>1. Exists(Here(at[p].key))
    BY <1>7, <1>8 DEF PublishIndex
  <2>2. at[p] # None /\ Amends(Here(at[p].key)) /\ UNCHANGED <<job, at>>
    BY <1>8, <2>1, PublishIndexEffect
  <2>3. QED BY <1>5, <2>2
<1>9. ASSUME NEW p \in Processes, ClearIndex(p) PROVE ResolutionInv'
  <2>1. Exists(Here(at[p].key))
    BY <1>7, <1>9 DEF ClearIndex
  <2>2. at[p] # None /\ Amends(Here(at[p].key)) /\ UNCHANGED <<job, at>>
    BY <1>9, <2>1, ClearIndexEffect
  <2>3. QED BY <1>5, <2>2
<1>10. ASSUME NEW p \in Processes, EndCommand(p) PROVE ResolutionInv'
  <2>1. /\ UNCHANGED <<dirs, job>> /\ at'[p] = None
        /\ \A q \in Processes : q # p => at'[q] = at[q]
    BY <1>10, EndCommandEffect
  <2>2. \A q \in Processes : at'[q] # None => at'[q] = at[q] /\ at[q] # None
    BY <2>1
  <2>3. TargetInv' /\ OwnerInv'
    BY <1>1, <2>1 DEF TargetInv, OwnerInv, Exists
  <2>4. PinnedInv'
    BY <1>1, <2>1, <2>2, JobsAreTyped DEF PinnedInv
  <2>5. MoveInv'
    BY <1>1, <2>1, <2>2 DEF MoveInv, HasIndex, Exists, IsLeased, Leases
  <2>6. QED BY <2>3, <2>4, <2>5 DEF ResolutionInv
<1>11. CASE Kill
  BY <1>4, <1>11, KillEffect
<1>12. CASE FileOperationFails
  <2>1. /\ job # None /\ SameRequest /\ job'.pc = "failed"
    BY <1>2, <1>12, FileOperationFailsEffect
  <2>2. QED BY <1>1, <2>1 DEF SameRequest, ResolutionInv, TargetInv, MoveInv, PinnedInv,
                              OwnerInv, TargetPCs, MovePCs
<1>13. ASSUME NEW root \in Roots, Remount(root) PROVE ResolutionInv'
  BY <1>4, <1>13, RemountEffect
<1>14. ASSUME NEW key \in Roots, Collect(key) PROVE ResolutionInv'
  BY <1>4, <1>14, CollectEffect
<1>15. CASE UNCHANGED vars
  <2>1. UNCHANGED <<dirs, job, at>>
    BY <1>15 DEF vars
  <2>2. QED BY <1>1, <2>1 DEF ResolutionInv, TargetInv, MoveInv, PinnedInv, OwnerInv,
                              Exists, HasIndex, IsLeased, Leases
<1>16. QED BY <1>6, <1>8, <1>9, <1>10, <1>11, <1>12, <1>13, <1>14, <1>15

LEMMA PinStep ==
  ASSUME TypeOK, PinInv, [Next]_vars
  PROVE  PinInv'
<1>1. LeasesHold'
  BY LeasesStep
<1>2. ResolutionInv'
  BY BeginRelies, ResolveRelies, WorldRelies DEF Next
<1>3. QED BY <1>1, <1>2 DEF PinInv, ResolutionInv

(***************************************************************************)
(* No step mixes projects.                                                 *)
(***************************************************************************)
LEMMA KnownLeads ==
  ASSUME TypeOK, DirectoriesApart, IntentsApart, NEW place \in Places, Exists(place)
  PROVE  /\ \A root \in Known(place) : Project[root] = Project[place[2]]
         /\ \A root \in InManifest(place) : Project[root] = Project[place[2]]
<1>1. \A root \in InManifest(place) : Project[root] = Project[place[2]]
  BY DEF DirectoriesApart, Sound, LeadsTo, InManifest
<1>2. \A intent \in OwnIntents(place) : intent \in intents /\ intent.key = place[2]
  BY DEF OwnIntents, GenerationIntents, Here
<1>3. \A root \in Named(OwnIntents(place)) : Project[root] = Project[place[2]]
  BY <1>2 DEF Named, IntentsApart, LeadsTo
<1>4. QED BY <1>1, <1>3 DEF Known

\* The parts that a step leaves alone.
LEMMA ApartFrame ==
  ASSUME ApartInv
  PROVE  /\ UNCHANGED canonical => CanonicalApart'
         /\ UNCHANGED dirs => DirectoriesApart'
         /\ intents' \subseteq intents => IntentsApart'
         /\ UNCHANGED at => LeasesApart'
         /\ UNCHANGED job => ResolutionApart'
         /\ job' = None => ResolutionApart'
BY DEF ApartInv, CanonicalApart, DirectoriesApart, IntentsApart, LeasesApart,
       ResolutionApart, LeadsTo, Exists, Sound

LEMMA RequestApart ==
  ASSUME ApartInv, job # None, SameRequest,
         LeadsTo(job'.owner, job.key),
         job'.source # None => Project[job'.source[2]] = Project[job.key],
         job'.pc = "rename" => Sound(job'.trash, job.key)
  PROVE  ResolutionApart'
BY DEF ApartInv, ResolutionApart, SameRequest, LeadsTo, Sound

LEMMA BeginApart ==
  ASSUME TypeOK, PinInv, ApartInv, NEW p \in Processes, NEW root \in Requested,
         NEW kind \in {"resolve", "legacy"}, Begin(p, root, kind)
  PROVE  ApartInv'
<1> DEFINE pinned == Here(at[p].key)
           canon  == canonical[root]
<1>1. /\ job = None /\ UNCHANGED <<canonical, dirs, intents, at, building>>
      /\ at[p] # None => root = at[p].path /\ kind = "resolve"
      /\ job' # None /\ job'.source = None /\ job'.trash = None
      /\ Identities(job'.want) = {canon, root}
      /\ Identities(job'.carried)
           = {canon, root} \cup IF Exists(Here(canon)) THEN Named(OwnIntents(Here(canon)))
                                ELSE {}
      /\ \/ /\ job'.pc \in {"failed", "target"}
            /\ job'.norm = canon /\ job'.key = canon /\ job'.owner = job'.carried
         \/ /\ at[p] # None /\ Exists(pinned) /\ job'.key = at[p].key
            /\ job'.norm \in Known(pinned)
            /\ Identities(job'.owner) = Known(pinned) \cup Identities(job'.carried)
            /\ job'.pc \in {"intent", "cleanup"}
  BY BeginEffect
<1>2. root \in Roots /\ canon \in Roots /\ Project[canon] = Project[root]
  BY RootsAssumption DEF TypeOK, ApartInv, CanonicalApart
<1>3. /\ LeadsTo(job'.want, canon) /\ LeadsTo(job'.carried, canon)
  <2>1. Exists(Here(canon)) => \A other \in Named(OwnIntents(Here(canon))) :
                                 Project[other] = Project[canon]
    BY <1>2, KnownLeads, PlacesAreTyped DEF ApartInv, Known
  <2>2. QED BY <1>1, <1>2, <2>1 DEF LeadsTo
<1>4. ResolutionApart'
  <2>1. CASE /\ job'.pc \in {"failed", "target"}
             /\ job'.norm = canon /\ job'.key = canon /\ job'.owner = job'.carried
    BY <1>1, <1>3, <2>1 DEF ResolutionApart, LeadsTo, Sound
  <2>2. CASE /\ at[p] # None /\ Exists(pinned) /\ job'.key = at[p].key
             /\ job'.norm \in Known(pinned)
             /\ Identities(job'.owner) = Known(pinned) \cup Identities(job'.carried)
             /\ job'.pc \in {"intent", "cleanup"}
    <3>1. pinned \in Places /\ pinned[2] = at[p].key
      BY <2>2, LeasedPlaces, PlacesAreTyped
    <3>2. \A other \in Known(pinned) : Project[other] = Project[at[p].key]
      BY <2>2, <3>1, KnownLeads DEF ApartInv
    <3>3. Project[canon] = Project[at[p].key]
      BY <1>1, <1>2, <2>2 DEF ApartInv, LeasesApart
    <3>4. /\ LeadsTo(job'.want, at[p].key) /\ LeadsTo(job'.carried, at[p].key)
          /\ LeadsTo(job'.owner, at[p].key) /\ Project[job'.norm] = Project[at[p].key]
      BY <1>3, <2>2, <3>2, <3>3 DEF LeadsTo
    <3>5. QED BY <1>1, <2>2, <3>4 DEF ResolutionApart, LeadsTo, Sound
  <2>3. QED BY <1>1, <2>1, <2>2
<1>5. QED BY <1>1, <1>4, ApartFrame DEF ApartInv

LEMMA ResolveApart ==
  ASSUME TypeOK, PinInv, ApartInv, Resolve
  PROVE  ApartInv'
<1>1. TargetInv /\ MoveInv /\ PinnedInv /\ OwnerInv
  BY DEF PinInv
<1>2. /\ job # None /\ job.pc \in TargetPCs => Exists(Here(job.key))
      /\ job # None /\ job.pc \in MovePCs =>
           /\ job.source \in Places /\ Exists(job.source) /\ HasIndex(job.source)
           /\ job.source # Here(job.key)
      /\ job # None /\ job.pc = "rename" => job.trash # None
  BY WhatIsThere
<1>3. job # None =>
        /\ job.key \in Roots /\ Here(job.key) \in Places /\ Here(job.key)[2] = job.key
        /\ job.want.raw \in Identities(job.want)
        /\ job.want.norm \in Identities(job.want)
  BY JobsAreTyped, PlacesAreTyped DEF Identities
<1>4. job # None =>
        /\ LeadsTo(job.want, job.key) /\ LeadsTo(job.carried, job.key)
        /\ LeadsTo(job.owner, job.key) /\ Project[job.norm] = Project[job.key]
        /\ job.source # None => Project[job.source[2]] = Project[job.key]
        /\ job.pc = "rename" => Sound(job.trash, job.key)
  BY DEF ApartInv, ResolutionApart
<1>5. \A place \in Places : Exists(place) => Sound(dirs[place], place[2])
  BY DEF ApartInv, DirectoriesApart
<1>6. ASSUME NEW place \in Places, Exists(place)
      PROVE  /\ \A root \in Known(place) : Project[root] = Project[place[2]]
             /\ \A root \in InManifest(place) : Project[root] = Project[place[2]]
  BY <1>6, KnownLeads DEF ApartInv
<1>7. ASSUME Elsewhere, DirectoriesApart', IntentsApart', ResolutionApart'
      PROVE  ApartInv'
  BY <1>7, ApartFrame DEF ApartInv, Elsewhere
<1>8. ASSUME NEW place \in Places, Exists(place), Issued(place)
      PROVE  DirectoriesApart'
  <2>1. ASSUME NEW other \in Places, dirs'[other] # None
        PROVE  Sound(dirs'[other], other[2])
    BY <1>5, <1>8, <2>1 DEF Issued, Exists, Sound
  <2>2. QED BY <2>1 DEF DirectoriesApart, Exists, Sound, LeadsTo
<1>9. ASSUME NEW desired, NEW next, Installs(desired, next), job # None,
             Exists(Here(job.key)), LeadsTo(desired, job.key)
      PROVE  ApartInv'
  <2>1. SameRequest /\ job'.source = job.source /\ Elsewhere /\ UNCHANGED <<dirs, intents>>
    BY <1>9 DEF Installs
  <2>2. /\ job'.pc # "rename"
        /\ \/ job'.owner = job.owner
           \/ Identities(job'.owner) = Identities(desired) \cup InManifest(Here(job.key))
           \/ Identities(job'.owner) = InManifest(Here(job.key))
    BY <1>9 DEF Installs, InManifest
  <2>3. LeadsTo(job'.owner, job.key)
    BY <1>3, <1>4, <1>6, <1>9, <2>2 DEF LeadsTo
  <2>4. ResolutionApart'
    BY <1>4, <1>9, <2>1, <2>2, <2>3, RequestApart
  <2>5. QED BY <1>7, <2>1, <2>4, ApartFrame
<1>10. CASE MakeTarget
  <2>1. /\ job # None /\ SameRequest /\ job'.pc = "choose" /\ Elsewhere /\ UNCHANGED intents
        /\ job'.owner = job.owner /\ job'.source = job.source
        /\ dirs' \in [Places -> Directory \cup {None}]
        /\ \A other \in Places : other # Here(job.key) => dirs'[other] = dirs[other]
        /\ dirs'[Here(job.key)] = IF Exists(Here(job.key)) THEN dirs[Here(job.key)]
                                  ELSE EmptyDirectory
    BY <1>10, MakeTargetEffect
  <2>2. ResolutionApart'
    BY <1>4, <2>1, RequestApart
  <2>3. Sound(EmptyDirectory, job.key)
    BY DEF Sound, EmptyDirectory
  <2>4. DirectoriesApart'
    <3>1. ASSUME NEW place \in Places, dirs'[place] # None
          PROVE  Sound(dirs'[place], place[2])
      BY <1>3, <1>5, <2>1, <2>3, <3>1 DEF Exists
    <3>2. QED BY <3>1 DEF DirectoriesApart, Exists, Sound, LeadsTo
  <2>5. QED BY <1>7, <2>1, <2>2, <2>4, ApartFrame
<1>11. CASE ChooseSource
  <2>1. /\ job # None /\ job.pc = "choose" /\ SameRequest /\ job'.owner = job.owner
        /\ UNCHANGED <<dirs, intents>> /\ Elsewhere
        /\ \/ /\ job'.pc \in {"own", "failed"}
              /\ job'.source \in {job.source, Here(job.key)}
           \/ /\ job'.pc = "plan"
              /\ job'.source \in Places /\ HasIndex(job'.source)
              /\ \/ job'.source[2] = job.want.raw
                 \/ dirs[job'.source].db.root \in {job.want.norm, job.want.raw}
                 \/ Known(job'.source) \cap Identities(job.want) # {}
    BY <1>11, ChooseSourceEffect
  <2>2. CASE job'.pc = "plan"
    <3>1. Exists(job'.source) /\ dirs[job'.source].db # None
      BY <2>1, <2>2 DEF HasIndex
    <3>2. Project[job'.source[2]] = Project[job.key]
      <4>1. CASE job'.source[2] = job.want.raw
        BY <1>3, <1>4, <2>1, <4>1 DEF LeadsTo
      <4>2. CASE dirs[job'.source].db.root \in {job.want.norm, job.want.raw}
        <5>1. Project[dirs[job'.source].db.root] = Project[job'.source[2]]
          BY <1>5, <2>1, <2>2, <3>1 DEF Sound
        <5>2. QED BY <1>3, <1>4, <2>1, <4>2, <5>1 DEF LeadsTo
      <4>3. CASE Known(job'.source) \cap Identities(job.want) # {}
        <5>1. \A root \in Known(job'.source) : Project[root] = Project[job'.source[2]]
          BY <1>6, <2>1, <2>2, <3>1
        <5>2. QED BY <1>4, <2>1, <4>3, <5>1 DEF LeadsTo
      <4>4. QED BY <2>1, <2>2, <4>1, <4>2, <4>3
    <3>3. LeadsTo(job'.owner, job.key)
      BY <1>4, <2>1
    <3>4. job'.pc # "rename"
      BY <2>2
    <3>5. ResolutionApart'
      BY <2>1, <3>2, <3>3, <3>4, RequestApart
    <3>6. QED BY <1>7, <2>1, <3>5, ApartFrame
  <2>3. CASE job'.pc # "plan"
    <3>1. ResolutionApart'
      BY <1>3, <1>4, <2>1, <2>3, RequestApart
    <3>2. QED BY <1>7, <2>1, <3>1, ApartFrame
  <2>4. QED BY <2>2, <2>3
<1>12. CASE PlanMove
  <2>1. job # None /\ job.pc = "plan"
    BY <1>12 DEF PlanMove, At
  <2>2. job.source \in Places /\ Exists(job.source) /\ Exists(Here(job.key))
    BY <1>2, <2>1 DEF TargetPCs, MovePCs
  <2>3. /\ SameRequest /\ job'.source = job.source /\ Issued(job.source) /\ Elsewhere
        /\ \/ job'.pc = "failed" /\ job'.owner = job.owner /\ UNCHANGED intents
           \/ /\ job'.pc = "quarantine"
              /\ intents' = intents \cup {[key |-> job.key, gen |-> dirs'[job.source].gen,
                                           owner |-> job'.owner]}
              /\ \E authorized \in Manifest :
                   /\ authorized = job.want \/ Identities(authorized) = Known(job.source)
                   /\ \A other \in GenerationIntents(job.source) :
                        Overlaps(authorized, other.owner)
                   /\ Identities(job'.owner)
                        = Identities(authorized) \cup Identities(job.carried)
                            \cup Named(GenerationIntents(job.source))
                            \cup InManifest(Here(job.key))
    BY <1>12, <2>2, PlanMoveEffect
  <2>4. DirectoriesApart'
    BY <1>8, <2>2, <2>3
  <2>5. job.source # None
    BY <2>2, RecordsAssumption
  <2>6. CASE job'.pc = "failed" /\ job'.owner = job.owner /\ UNCHANGED intents
    <3>1. ResolutionApart'
      BY <1>4, <2>1, <2>3, <2>6, RequestApart
    <3>2. QED BY <1>7, <2>3, <2>4, <2>6, <3>1, ApartFrame
  <2>7. CASE job'.pc = "quarantine"
    <3>1. PICK authorized \in Manifest :
            /\ authorized = job.want \/ Identities(authorized) = Known(job.source)
            /\ \A other \in GenerationIntents(job.source) :
                 Overlaps(authorized, other.owner)
            /\ Identities(job'.owner)
                 = Identities(authorized) \cup Identities(job.carried)
                     \cup Named(GenerationIntents(job.source))
                     \cup InManifest(Here(job.key))
      BY <2>3, <2>7
    <3>2. LeadsTo(authorized, job.key)
      <4>1. \A root \in Known(job.source) : Project[root] = Project[job.source[2]]
        BY <1>6, <2>2
      <4>2. Project[job.source[2]] = Project[job.key]
        BY <1>4, <2>1, <2>5
      <4>3. QED BY <1>4, <2>1, <3>1, <4>1, <4>2 DEF LeadsTo
    <3>3. ASSUME NEW other \in GenerationIntents(job.source)
          PROVE  LeadsTo(other.owner, job.key)
      <4>1. other \in intents /\ Overlaps(authorized, other.owner)
        BY <3>1, <3>3 DEF GenerationIntents
      <4>2. LeadsTo(other.owner, other.key)
        BY <4>1 DEF ApartInv, IntentsApart
      <4>3. QED BY <3>2, <4>1, <4>2 DEF LeadsTo, Overlaps
    <3>4. \A root \in Named(GenerationIntents(job.source)) : Project[root] = Project[job.key]
      BY <3>3 DEF Named, LeadsTo
    <3>5. \A root \in InManifest(Here(job.key)) : Project[root] = Project[job.key]
      BY <1>3, <1>6, <2>1, <2>2
    <3>6. LeadsTo(job'.owner, job.key)
      BY <1>4, <2>1, <3>1, <3>2, <3>4, <3>5 DEF LeadsTo
    <3>7. ResolutionApart'
      BY <1>4, <2>1, <2>3, <2>7, <3>6, RequestApart
    <3>8. IntentsApart'
      <4>1. \A intent \in intents' : LeadsTo(intent.owner, intent.key)
        BY <2>3, <2>7, <3>6 DEF ApartInv, IntentsApart
      <4>2. QED BY <4>1 DEF IntentsApart, LeadsTo
    <3>9. QED BY <1>7, <2>3, <2>4, <3>7, <3>8
  <2>8. QED BY <2>3, <2>6, <2>7
<1>13. CASE QuarantineTarget
  <2>1. /\ job # None /\ job.pc = "quarantine" /\ SameRequest /\ Elsewhere /\ UNCHANGED intents
        /\ job'.pc = "rename" /\ job'.source = job.source /\ job'.owner = job.owner
        /\ job'.trash = dirs[Here(job.key)]
        /\ dirs'[Here(job.key)] = None
        /\ \A other \in Places : other # Here(job.key) => dirs'[other] = dirs[other]
    BY <1>13, QuarantineTargetEffect
  <2>2. Sound(dirs[Here(job.key)], job.key)
    BY <1>2, <1>3, <1>5, <2>1 DEF TargetPCs
  <2>3. ResolutionApart'
    BY <1>4, <2>1, <2>2, RequestApart
  <2>4. DirectoriesApart'
    <3>1. ASSUME NEW place \in Places, dirs'[place] # None
          PROVE  Sound(dirs'[place], place[2])
      BY <1>5, <2>1, <3>1 DEF Exists
    <3>2. QED BY <3>1 DEF DirectoriesApart, Exists, Sound, LeadsTo
  <2>5. QED BY <1>7, <2>1, <2>3, <2>4, ApartFrame
<1>14. CASE RenameSource
  <2>1. job # None /\ job.pc = "rename"
    BY <1>14 DEF RenameSource, At
  <2>2. job.source \in Places /\ job.source # Here(job.key) /\ Exists(job.source)
    BY <1>2, <2>1 DEF MovePCs
  <2>3. /\ SameRequest /\ Elsewhere /\ job'.pc = "install" /\ UNCHANGED intents
        /\ job'.source = job.source /\ job'.owner = job.owner
        /\ dirs'[Here(job.key)] = dirs[job.source] /\ dirs'[job.source] = None
        /\ \A other \in Places :
             other # Here(job.key) /\ other # job.source => dirs'[other] = dirs[other]
    BY <1>14, <2>2, RenameSourceEffect
  <2>4. ResolutionApart'
    BY <1>4, <2>1, <2>3, RequestApart
  <2>5. Sound(dirs[job.source], job.key)
    <3>1. Sound(dirs[job.source], job.source[2])
      BY <1>5, <2>2
    <3>2. Project[job.source[2]] = Project[job.key]
      BY <1>4, <2>1, <2>2, RecordsAssumption
    <3>3. QED BY <3>1, <3>2 DEF Sound, LeadsTo
  <2>6. DirectoriesApart'
    <3>1. ASSUME NEW place \in Places, dirs'[place] # None
          PROVE  Sound(dirs'[place], place[2])
      BY <1>3, <1>5, <2>1, <2>3, <2>5, <3>1 DEF Exists
    <3>2. QED BY <3>1 DEF DirectoriesApart, Exists, Sound, LeadsTo
  <2>7. QED BY <1>7, <2>3, <2>4, <2>6, ApartFrame
<1>15. CASE InstallAfterMove
  <2>1. job # None /\ job.pc = "install"
    BY <1>15 DEF InstallAfterMove, At
  <2>2. Exists(Here(job.key))
    BY <1>2, <2>1 DEF TargetPCs
  <2>3. QED BY <1>4, <1>9, <1>15, <2>1, <2>2, InstallAfterMoveEffect
<1>16. CASE WriteIntent
  <2>1. job # None /\ job.pc = "intent"
    BY <1>16 DEF WriteIntent, At
  <2>2. Exists(Here(job.key))
    BY <1>2, <2>1 DEF TargetPCs
  <2>3. /\ SameRequest /\ Elsewhere /\ Issued(Here(job.key)) /\ job'.pc = "manifest"
        /\ job'.owner = job.owner /\ job'.source = job.source
        /\ intents' = intents \cup {[key |-> job.key, owner |-> job.owner,
                                     gen |-> dirs'[Here(job.key)].gen]}
    BY <1>16, <2>2, WriteIntentEffect
  <2>4. ResolutionApart'
    BY <1>4, <2>1, <2>3, RequestApart
  <2>5. IntentsApart'
    <3>1. \A intent \in intents' : LeadsTo(intent.owner, intent.key)
      BY <1>4, <2>1, <2>3 DEF ApartInv, IntentsApart
    <3>2. QED BY <3>1 DEF IntentsApart, LeadsTo
  <2>6. DirectoriesApart'
    BY <1>3, <1>8, <2>1, <2>2, <2>3
  <2>7. QED BY <1>7, <2>3, <2>4, <2>5, <2>6
<1>17. CASE WriteManifest
  <2>1. job # None /\ job.pc = "manifest"
    BY <1>17 DEF WriteManifest, At
  <2>2. Exists(Here(job.key))
    BY <1>2, <2>1 DEF TargetPCs
  <2>3. /\ SameRequest /\ Elsewhere /\ job'.pc = "cleanup" /\ UNCHANGED intents
        /\ job'.owner = job.owner /\ job'.source = job.source
        /\ dirs'[Here(job.key)].owner = job.owner
        /\ dirs'[Here(job.key)].db = dirs[Here(job.key)].db
        /\ \A other \in Places : other # Here(job.key) => dirs'[other] = dirs[other]
    BY <1>17, <2>2, WriteManifestEffect
  <2>4. ResolutionApart'
    BY <1>4, <2>1, <2>3, RequestApart
  <2>5. Sound(dirs'[Here(job.key)], job.key)
    BY <1>3, <1>4, <1>5, <2>1, <2>2, <2>3 DEF Sound
  <2>6. DirectoriesApart'
    <3>1. ASSUME NEW place \in Places, dirs'[place] # None
          PROVE  Sound(dirs'[place], place[2])
      BY <1>3, <1>5, <2>1, <2>3, <2>5, <3>1 DEF Exists
    <3>2. QED BY <3>1 DEF DirectoriesApart, Exists, Sound, LeadsTo
  <2>7. QED BY <1>7, <2>3, <2>4, <2>6, ApartFrame
<1>18. CASE CleanUpIntents
  <2>1. /\ job # None /\ SameRequest /\ Elsewhere /\ UNCHANGED dirs
        /\ job'.pc = job.next /\ job'.owner = job.owner /\ job'.source = job.source
        /\ intents' \subseteq intents
    BY <1>18, CleanUpIntentsEffect
  <2>2. job.next # "rename"
    BY <2>1, JobsAreTyped
  <2>3. ResolutionApart'
    BY <1>4, <2>1, <2>2, RequestApart
  <2>4. QED BY <1>7, <2>1, <2>3, ApartFrame
<1>19. CASE SweepIntents
  <2>1. /\ job # None /\ SameRequest /\ Elsewhere /\ UNCHANGED dirs
        /\ job'.pc = "own" /\ job'.owner = job.owner /\ job'.source = job.source
        /\ intents' \subseteq intents
    BY <1>19, SweepIntentsEffect
  <2>2. ResolutionApart'
    BY <1>4, <2>1, RequestApart
  <2>3. QED BY <1>7, <2>1, <2>2, ApartFrame
<1>20. CASE OwnTarget
  <2>1. job # None /\ job.pc = "own"
    BY <1>20 DEF OwnTarget, At
  <2>2. Exists(Here(job.key))
    BY <1>2, <2>1 DEF TargetPCs
  <2>3. QED BY <1>4, <1>9, <1>20, <2>1, <2>2, OwnTargetEffect
<1>21. ASSUME Leased, DirectoriesApart' PROVE ApartInv'
  <2>1. /\ job # None /\ job' = None /\ UNCHANGED <<canonical, intents>>
        /\ at'[job.process] # None /\ at'[job.process].path = job.want.raw
        /\ at'[job.process].key = job.key /\ at'[job.process].norm = job.norm
        /\ \A p \in Processes : p # job.process => at'[p] = at[p]
    BY <1>21, LeasedEffect
  <2>2. Project[job.want.raw] = Project[job.key]
    BY <1>3, <1>4, <2>1 DEF LeadsTo
  <2>3. LeasesApart'
    BY <1>4, <2>1, <2>2 DEF ApartInv, LeasesApart
  <2>4. QED BY <1>21, <2>1, <2>3, ApartFrame DEF ApartInv
<1>22. CASE TakeLease
  BY <1>21, <1>22, ApartFrame DEF TakeLease
<1>23. CASE TakeLeaseAndRebuildLock
  <2>1. job # None /\ Exists(Here(job.key))
    BY <1>2, <1>23 DEF TakeLeaseAndRebuildLock, Leased, At, TargetPCs
  <2>2. /\ Leased /\ Amends(Here(job.key))
        /\ dirs'[Here(job.key)].db = dirs[Here(job.key)].db
    BY <1>23, <2>1, TakeLeaseAndRebuildLockEffect
  <2>3. DirectoriesApart'
    BY <1>5, <2>1, <2>2 DEF Amends, DirectoriesApart, Exists, Sound, LeadsTo
  <2>4. QED BY <1>21, <2>2, <2>3
<1>24. CASE Fail
  <2>1. Elsewhere /\ UNCHANGED <<dirs, intents>> /\ job' = None
    BY <1>24 DEF Fail, environment, Elsewhere
  <2>2. QED BY <1>7, <2>1, ApartFrame
<1>25. QED BY <1>10, <1>11, <1>12, <1>13, <1>14, <1>15, <1>16, <1>17, <1>18,
              <1>19, <1>20, <1>22, <1>23, <1>24 DEF Resolve

LEMMA ApartStep ==
  ASSUME TypeOK, PinInv, ApartInv, [Next]_vars
  PROVE  ApartInv'
<1>1. \A place \in Places : Exists(place) => Sound(dirs[place], place[2])
  BY DEF ApartInv, DirectoriesApart
<1>2. \A p \in Processes : at[p] # None =>
        /\ Project[at[p].path] = Project[at[p].key]
        /\ Project[at[p].norm] = Project[at[p].key]
        /\ Here(at[p].key) \in Places /\ Here(at[p].key)[2] = at[p].key
        /\ Exists(Here(at[p].key)) /\ at[p].path \in Roots
  BY LeasedPlaces, PlacesAreTyped, WhatIsThere DEF ApartInv, LeasesApart
<1>3. \A root \in Roots : Project[canonical[root]] = Project[root]
  BY DEF ApartInv, CanonicalApart
<1>4. \A p \in building : p \in Processes /\ at[p] # None /\ Exists(Here(at[p].key))
  BY <1>2 DEF TypeOK
\* Commands change the index of their directory only.
<1>5. ASSUME NEW p \in Processes, at[p] # None, Amends(Here(at[p].key)),
             UNCHANGED <<canonical, intents, job, at>>,
             LET db == dirs'[Here(at[p].key)].db
             IN  db # None => /\ db.of = Project[at[p].key]
                              /\ Project[db.root] = Project[at[p].key]
      PROVE  ApartInv'
  <2>1. ASSUME NEW place \in Places, dirs'[place] # None
        PROVE  Sound(dirs'[place], place[2])
    <3>1. CASE place = Here(at[p].key)
      BY <1>1, <1>2, <1>5, <3>1 DEF Amends, Sound
    <3>2. CASE place # Here(at[p].key)
      BY <1>1, <1>5, <2>1, <3>2 DEF Amends, Exists
    <3>3. QED BY <3>1, <3>2
  <2>2. DirectoriesApart'
    BY <2>1 DEF DirectoriesApart, Exists, Sound, LeadsTo
  <2>3. QED BY <1>5, <2>2, ApartFrame DEF ApartInv
<1>6. ASSUME NEW p \in Processes, OpenIndex(p) PROVE ApartInv'
  <2> DEFINE here == Here(at[p].key)
  <2>1. /\ at[p] # None /\ Amends(here) /\ UNCHANGED <<canonical, intents, job, at>>
        /\ Exists(here) /\ dirs[here].db # None
        /\ dirs'[here].db.root = at[p].norm /\ dirs'[here].db.of = dirs[here].db.of
    BY <1>6, OpenIndexEffect DEF Elsewhere
  <2>2. dirs[here].db.of = Project[at[p].key]
    BY <1>1, <1>2, <2>1 DEF Sound
  <2>3. QED BY <1>2, <1>5, <2>1, <2>2
<1>7. ASSUME NEW p \in Processes, PublishIndex(p) PROVE ApartInv'
  <2> DEFINE here == Here(at[p].key)
  <2>1. Exists(here)
    BY <1>4, <1>7 DEF PublishIndex
  <2>2. /\ at[p] # None /\ Amends(here) /\ UNCHANGED <<canonical, intents, job, at>>
        /\ dirs'[here].db.root = canonical[at[p].path]
        /\ dirs'[here].db.of = Project[canonical[at[p].path]]
    BY <1>7, <2>1, PublishIndexEffect
  <2>3. Project[canonical[at[p].path]] = Project[at[p].key]
    BY <1>2, <1>3, <2>2
  <2>4. QED BY <1>5, <2>2, <2>3
<1>8. ASSUME NEW p \in Processes, ClearIndex(p) PROVE ApartInv'
  <2>1. Exists(Here(at[p].key))
    BY <1>4, <1>8 DEF ClearIndex
  <2>2. /\ at[p] # None /\ Amends(Here(at[p].key))
        /\ UNCHANGED <<canonical, intents, job, at>>
        /\ dirs'[Here(at[p].key)].db = None
    BY <1>8, <2>1, ClearIndexEffect
  <2>3. QED BY <1>5, <2>2
<1>9. ASSUME NEW q, UNCHANGED <<canonical, dirs, intents>>, UNCHANGED job \/ job' = None,
             at'[q] = None, \A p \in Processes : p # q => at'[p] = at[p]
      PROVE  ApartInv'
  <2>1. LeasesApart'
    BY <1>9 DEF ApartInv, LeasesApart
  <2>2. QED BY <1>9, <2>1, ApartFrame DEF ApartInv
<1>10. ASSUME NEW p \in Processes, EndCommand(p) PROVE ApartInv'
  BY <1>9, <1>10, EndCommandEffect
<1>11. CASE Kill
  BY <1>9, <1>11, KillEffect
<1>12. CASE FileOperationFails
  <2>1. job # None /\ job.pc = "rename" => job.trash # None
    BY WhatIsThere
  <2>2. /\ job # None /\ SameRequest /\ job'.pc = "failed"
        /\ job'.owner = job.owner /\ job'.source = job.source
        /\ UNCHANGED <<canonical, intents, at>>
        /\ \/ UNCHANGED dirs
           \/ /\ job.pc = "rename" /\ dirs'[Here(job.key)] = job.trash
              /\ \A other \in Places : other # Here(job.key) => dirs'[other] = dirs[other]
    BY <1>12, <2>1, FileOperationFailsEffect
  <2>3. ResolutionApart'
    BY <2>2, RequestApart DEF ApartInv, ResolutionApart
  <2>4. CASE UNCHANGED dirs
    BY <2>2, <2>3, <2>4, ApartFrame DEF ApartInv
  <2>5. CASE /\ job.pc = "rename" /\ dirs'[Here(job.key)] = job.trash
             /\ \A other \in Places : other # Here(job.key) => dirs'[other] = dirs[other]
    <3>1. Sound(job.trash, job.key) /\ Here(job.key)[2] = job.key
      BY <2>2, <2>5, JobsAreTyped, PlacesAreTyped DEF ApartInv, ResolutionApart
    <3>2. ASSUME NEW place \in Places, dirs'[place] # None
          PROVE  Sound(dirs'[place], place[2])
      BY <1>1, <2>5, <3>1, <3>2 DEF Exists
    <3>3. DirectoriesApart'
      BY <3>2 DEF DirectoriesApart, Exists, Sound, LeadsTo
    <3>4. QED BY <2>2, <2>3, <3>3, ApartFrame DEF ApartInv
  <2>6. QED BY <2>2, <2>4, <2>5
<1>13. ASSUME NEW root \in Roots, Remount(root) PROVE ApartInv'
  <2>1. /\ UNCHANGED <<dirs, intents, job, at>>
        /\ \A other \in Roots : \/ canonical'[other] = canonical[other]
                                \/ Project[canonical'[other]] = Project[other]
    BY <1>13, RemountEffect
  <2>2. CanonicalApart'
    BY <1>3, <2>1 DEF CanonicalApart
  <2>3. QED BY <2>1, <2>2, ApartFrame DEF ApartInv
<1>14. ASSUME NEW key \in Roots, Collect(key) PROVE ApartInv'
  <2>1. /\ UNCHANGED <<canonical, intents, job, at>> /\ dirs'[Here(key)] = None
        /\ \A other \in Places : other # Here(key) => dirs'[other] = dirs[other]
    BY <1>14, CollectEffect
  <2>2. ASSUME NEW place \in Places, dirs'[place] # None
        PROVE  Sound(dirs'[place], place[2])
    BY <1>1, <2>1, <2>2 DEF Exists
  <2>3. DirectoriesApart'
    BY <2>2 DEF DirectoriesApart, Exists, Sound, LeadsTo
  <2>4. QED BY <2>1, <2>3, ApartFrame DEF ApartInv
<1>15. CASE UNCHANGED vars
  BY <1>15, ApartFrame DEF ApartInv, vars
<1>16. QED BY <1>6, <1>7, <1>8, <1>10, <1>11, <1>12, <1>13, <1>14, <1>15,
              BeginApart, ResolveApart DEF Next

(***************************************************************************)
(* What a step does to the directories and their intents.                  *)
(***************************************************************************)
SameBut(place) == \A other \in Places : other # place => dirs'[other] = dirs[other]

Quiet ==
  /\ UNCHANGED <<dirs, intents>>
  /\ job' # None => job' = job \/ job'.pc # "rename"

Creates(place) ==
  /\ place \in Places /\ ~Exists(place) /\ dirs'[place] = EmptyDirectory
  /\ SameBut(place) /\ UNCHANGED intents
  /\ job' # None => job'.pc # "rename"

\* A directory gets a marker if it has none, and an intent if it is the target
\* or has an index.
Marks(place) ==
  /\ place \in Places /\ Exists(place) /\ Issued(place)
  /\ job # None /\ job' # None /\ job'.pc # "rename"
  /\ \/ UNCHANGED intents
     \/ /\ place = Here(job.key) \/ HasIndex(place)
        /\ intents' = intents \cup {[key |-> job.key, gen |-> dirs'[place].gen,
                                     owner |-> job'.owner]}

Trashes(place) ==
  /\ place \in Places /\ Exists(place) /\ dirs'[place] = None
  /\ SameBut(place) /\ UNCHANGED intents
  /\ job # None /\ job.pc = "quarantine" /\ place = Here(job.key)
  /\ job' # None /\ job'.pc = "rename" /\ job'.trash = dirs[place] /\ job'.key = job.key

Renames(source, place) ==
  /\ source \in Places /\ place \in Places /\ source # place
  /\ HasIndex(source) /\ ~Exists(place)
  /\ dirs'[place] = dirs[source] /\ dirs'[source] = None
  /\ \A other \in Places : other # place /\ other # source => dirs'[other] = dirs[other]
  /\ UNCHANGED intents
  /\ job' # None => job'.pc # "rename"

\* Files change, the index among them, and are never less.
Edits(place) ==
  /\ place \in Places /\ Exists(place) /\ Amends(place)
  /\ dirs'[place].db # None => dirs'[place].files \/ dirs[place].db # None
  /\ dirs[place].files => dirs'[place].files
  /\ UNCHANGED intents
  /\ job' = job \/ job' = None

Writes(place, owner) ==
  /\ place \in Places /\ Exists(place) /\ dirs'[place] # None
  /\ SameBut(place) /\ UNCHANGED intents
  /\ dirs'[place].owner = owner /\ dirs'[place].gen = dirs[place].gen
  /\ dirs'[place].db = dirs[place].db /\ dirs'[place].files = dirs[place].files
  /\ owner # None
  /\ dirs[place].owner # None => Identities(dirs[place].owner) \subseteq Identities(owner)
  /\ job' # None => job'.pc # "rename"

\* Intents that the owner being installed covers are removed.
Drops(place) ==
  /\ place \in Places /\ Exists(place) /\ UNCHANGED dirs /\ intents' \subseteq intents
  /\ job # None /\ job.pc \in {"cleanup", "sweep"} /\ place = Here(job.key)
  /\ \A intent \in intents \ intents' :
       /\ intent.gen = dirs[place].gen
       /\ Identities(intent.owner) \subseteq Identities(job.owner)
  /\ job' # None => job'.pc # "rename"

PutsBack(place) ==
  /\ place \in Places /\ ~Exists(place)
  /\ job # None /\ job.pc = "rename" /\ place = Here(job.key)
  /\ dirs'[place] = job.trash /\ SameBut(place) /\ UNCHANGED intents
  /\ job' # None => job'.pc # "rename"

Collects(key) ==
  /\ key \in Roots /\ Collect(key) /\ dirs'[Here(key)] = None
  /\ SameBut(Here(key)) /\ UNCHANGED intents /\ job' = None

LEMMA StepKinds ==
  ASSUME TypeOK, PinInv, [Next]_vars
  PROVE  \/ Quiet
         \/ \E place \in Places : \/ Creates(place) \/ Marks(place) \/ Trashes(place)
                                  \/ Edits(place) \/ Drops(place) \/ PutsBack(place)
         \/ \E source, place \in Places : Renames(source, place)
         \/ \E place \in Places, owner \in Manifest : Writes(place, owner)
         \/ \E key \in Roots : Collects(key)
<1>1. /\ job # None /\ job.pc \in TargetPCs => Exists(Here(job.key))
      /\ job # None /\ job.pc \in MovePCs =>
           /\ job.source \in Places /\ Exists(job.source) /\ HasIndex(job.source)
           /\ job.source # Here(job.key)
      /\ job # None /\ job.pc = "rename" => job.trash # None
      /\ \A p \in Processes : at[p] # None => Exists(Here(at[p].key))
  BY WhatIsThere
<1>2. job # None => Here(job.key) \in Places /\ job.owner \in Manifest
                    /\ job.next \in {"lease", "sweep"}
  BY JobsAreTyped
<1>3. job # None /\ job.pc = "rename" => ~Exists(Here(job.key))
  BY DEF PinInv, TargetInv
<1>4. \A p \in building : p \in Processes /\ at[p] # None /\ Exists(Here(at[p].key))
  BY <1>1 DEF TypeOK
<1>5. \A p \in Processes : at[p] # None => Here(at[p].key) \in Places
  BY LeasedPlaces
<1>6. ASSUME NEW p \in Processes, NEW root \in Requested,
             NEW kind \in {"resolve", "legacy"}, Begin(p, root, kind)
      PROVE  Quiet
  <2>1. /\ UNCHANGED <<dirs, intents>>
        /\ job'.pc \in {"failed", "target"} \/ job'.pc = "intent" \/ job'.pc = "cleanup"
    BY <1>6, BeginEffect
  <2>2. QED BY <2>1 DEF Quiet
<1>7. CASE MakeTarget
  <2>1. /\ job # None /\ job'.pc = "choose" /\ UNCHANGED intents
        /\ dirs' \in [Places -> Directory \cup {None}]
        /\ \A other \in Places : other # Here(job.key) => dirs'[other] = dirs[other]
        /\ dirs'[Here(job.key)] = IF Exists(Here(job.key)) THEN dirs[Here(job.key)]
                                  ELSE EmptyDirectory
    BY <1>7, MakeTargetEffect
  <2>2. CASE ~Exists(Here(job.key))
    BY <1>2, <2>1, <2>2 DEF Creates, SameBut
  <2>3. CASE Exists(Here(job.key))
    <3>1. UNCHANGED dirs
      <4>1. dirs \in [Places -> Directory \cup {None}]
        BY DEF TypeOK
      <4>2. \A other \in Places : dirs'[other] = dirs[other]
        BY <2>1, <2>3
      <4>3. QED BY <2>1, <4>1, <4>2
    <3>2. QED BY <2>1, <3>1 DEF Quiet
  <2>4. QED BY <2>2, <2>3
<1>8. CASE ChooseSource
  <2>1. UNCHANGED <<dirs, intents>> /\ job'.pc \in {"own", "failed", "plan"}
    BY <1>8, ChooseSourceEffect
  <2>2. QED BY <2>1 DEF Quiet
<1>9. CASE PlanMove
  <2>1. job # None /\ job.pc = "plan"
    BY <1>9 DEF PlanMove, At
  <2>2. /\ job.source \in Places /\ Exists(job.source) /\ Exists(Here(job.key))
        /\ HasIndex(job.source)
    BY <1>1, <2>1 DEF TargetPCs, MovePCs
  <2>3. /\ job' # None /\ Issued(job.source) /\ job'.pc \in {"failed", "quarantine"}
        /\ \/ UNCHANGED intents
           \/ intents' = intents \cup {[key |-> job.key, gen |-> dirs'[job.source].gen,
                                        owner |-> job'.owner]}
    BY <1>9, <2>2, PlanMoveEffect DEF SameRequest
  <2>4. Marks(job.source)
    BY <2>1, <2>2, <2>3 DEF Marks
  <2>5. QED BY <2>2, <2>4
<1>10. CASE QuarantineTarget
  <2>1. /\ job # None /\ job.pc = "quarantine" /\ UNCHANGED intents
        /\ job' # None /\ job'.pc = "rename" /\ job'.trash = dirs[Here(job.key)]
        /\ job'.key = job.key
        /\ dirs'[Here(job.key)] = None
        /\ \A other \in Places : other # Here(job.key) => dirs'[other] = dirs[other]
    BY <1>10, QuarantineTargetEffect DEF SameRequest
  <2>2. Trashes(Here(job.key))
    BY <1>1, <1>2, <2>1 DEF Trashes, SameBut, TargetPCs
  <2>3. QED BY <1>2, <2>1, <2>2
<1>11. CASE RenameSource
  <2>1. job # None /\ job.pc = "rename"
    BY <1>11 DEF RenameSource, At
  <2>2. job.source \in Places /\ job.source # Here(job.key) /\ HasIndex(job.source)
    BY <1>1, <2>1 DEF MovePCs
  <2>3. /\ job'.pc = "install" /\ UNCHANGED intents
        /\ dirs'[Here(job.key)] = dirs[job.source] /\ dirs'[job.source] = None
        /\ \A other \in Places :
             other # Here(job.key) /\ other # job.source => dirs'[other] = dirs[other]
    BY <1>11, <2>2, RenameSourceEffect
  <2>4. Renames(job.source, Here(job.key))
    BY <1>2, <1>3, <2>1, <2>2, <2>3 DEF Renames
  <2>5. QED BY <1>2, <2>1, <2>2, <2>4
<1>12. CASE InstallAfterMove
  <2>1. Exists(Here(job.key))
    BY <1>1, <1>12 DEF InstallAfterMove, At, TargetPCs
  <2>2. Installs(job.owner, "sweep")
    BY <1>12, <2>1, InstallAfterMoveEffect
  <2>3. QED BY <2>2 DEF Installs, Quiet
<1>13. CASE WriteIntent
  <2>1. job # None /\ Exists(Here(job.key))
    BY <1>1, <1>13 DEF WriteIntent, At, TargetPCs
  <2>2. /\ job' # None /\ Issued(Here(job.key)) /\ job'.pc = "manifest"
        /\ job'.owner = job.owner
        /\ intents' = intents \cup {[key |-> job.key, owner |-> job.owner,
                                     gen |-> dirs'[Here(job.key)].gen]}
    BY <1>13, <2>1, WriteIntentEffect DEF SameRequest
  <2>3. Marks(Here(job.key))
    BY <1>2, <2>1, <2>2 DEF Marks
  <2>4. QED BY <1>2, <2>1, <2>3
<1>14. CASE WriteManifest
  <2>1. job # None /\ job.pc = "manifest"
    BY <1>14 DEF WriteManifest, At
  <2>2. Exists(Here(job.key))
    BY <1>1, <2>1 DEF TargetPCs
  <2>3. /\ job'.pc = "cleanup" /\ UNCHANGED intents
        /\ \A other \in Places : other # Here(job.key) => dirs'[other] = dirs[other]
        /\ LET here == Here(job.key)
           IN  /\ dirs'[here] # None /\ dirs'[here].owner = job.owner
               /\ dirs'[here].db = dirs[here].db /\ dirs'[here].gen = dirs[here].gen
               /\ dirs'[here].files = dirs[here].files
    BY <1>14, <2>2, WriteManifestEffect
  <2>4. dirs[Here(job.key)].owner # None =>
          Identities(dirs[Here(job.key)].owner) \subseteq Identities(job.owner)
    BY <2>1 DEF PinInv, OwnerInv
  <2>5. job.owner # None
    BY <1>2, <2>1, RecordsAssumption
  <2>6. Writes(Here(job.key), job.owner)
    BY <1>2, <2>1, <2>2, <2>3, <2>4, <2>5 DEF Writes, SameBut
  <2>7. QED BY <1>2, <2>1, <2>6
<1>15. CASE CleanUpIntents
  <2>1. /\ job # None /\ job.pc = "cleanup" /\ UNCHANGED dirs
        /\ job'.pc \in {"lease", "sweep"}
        /\ intents' = intents \ Covered(OwnIntents(Here(job.key)))
    BY <1>2, <1>15, CleanUpIntentsEffect
  <2>2. \A intent \in intents \ intents' :
          /\ intent.gen = dirs[Here(job.key)].gen
          /\ Identities(intent.owner) \subseteq Identities(job.owner)
    BY <2>1 DEF Covered, OwnIntents, GenerationIntents
  <2>3. Drops(Here(job.key))
    BY <1>1, <1>2, <2>1, <2>2 DEF Drops, TargetPCs
  <2>4. QED BY <1>2, <2>1, <2>3
<1>16. CASE SweepIntents
  <2>1. /\ job # None /\ job.pc = "sweep" /\ UNCHANGED dirs /\ job'.pc = "own"
        /\ intents' = intents \ Covered(GenerationIntents(Here(job.key)))
    BY <1>16, SweepIntentsEffect
  <2>2. \A intent \in intents \ intents' :
          /\ intent.gen = dirs[Here(job.key)].gen
          /\ Identities(intent.owner) \subseteq Identities(job.owner)
    BY <2>1 DEF Covered, GenerationIntents
  <2>3. Drops(Here(job.key))
    BY <1>1, <1>2, <2>1, <2>2 DEF Drops, TargetPCs
  <2>4. QED BY <1>2, <2>1, <2>3
<1>17. CASE OwnTarget
  <2>1. Exists(Here(job.key))
    BY <1>1, <1>17 DEF OwnTarget, At, TargetPCs
  <2>2. Installs(job.carried, "lease")
    BY <1>17, <2>1, OwnTargetEffect
  <2>3. QED BY <2>2 DEF Installs, Quiet
<1>18. CASE TakeLease
  BY <1>18 DEF TakeLease, Leased, Quiet
<1>19. CASE TakeLeaseAndRebuildLock
  <2>1. job # None /\ Exists(Here(job.key))
    BY <1>1, <1>19 DEF TakeLeaseAndRebuildLock, Leased, At, TargetPCs
  <2>2. /\ job' = None /\ UNCHANGED intents /\ Amends(Here(job.key))
        /\ dirs'[Here(job.key)].files
        /\ dirs'[Here(job.key)].db = dirs[Here(job.key)].db
    BY <1>19, <2>1, TakeLeaseAndRebuildLockEffect DEF Leased
  <2>3. Edits(Here(job.key))
    BY <1>2, <2>1, <2>2 DEF Edits
  <2>4. QED BY <1>2, <2>1, <2>3
<1>20. CASE Fail
  BY <1>20 DEF Fail, Quiet
<1>21. ASSUME NEW p \in Processes, OpenIndex(p) PROVE \E place \in Places : Edits(place)
  <2>1. /\ at[p] # None /\ UNCHANGED <<intents, job>>
        /\ Amends(Here(at[p].key))
        /\ Exists(Here(at[p].key)) /\ dirs[Here(at[p].key)].db # None
        /\ dirs'[Here(at[p].key)].files = dirs[Here(at[p].key)].files
    BY <1>21, OpenIndexEffect
  <2>2. Edits(Here(at[p].key))
    BY <1>5, <2>1 DEF Edits
  <2>3. QED BY <1>5, <2>1, <2>2
<1>22. ASSUME NEW p \in Processes, PublishIndex(p) PROVE \E place \in Places : Edits(place)
  <2>1. Exists(Here(at[p].key))
    BY <1>4, <1>22 DEF PublishIndex
  <2>2. /\ p \in building /\ at[p] # None /\ UNCHANGED <<intents, job>>
        /\ Amends(Here(at[p].key))
        /\ dirs'[Here(at[p].key)].files = dirs[Here(at[p].key)].files
    BY <1>22, <2>1, PublishIndexEffect
  <2>3. dirs[Here(at[p].key)].files
    BY <2>2 DEF PinInv, LeasesHold
  <2>4. Edits(Here(at[p].key))
    BY <1>5, <2>1, <2>2, <2>3 DEF Edits
  <2>5. QED BY <1>5, <2>2, <2>4
<1>23. ASSUME NEW p \in Processes, ClearIndex(p) PROVE \E place \in Places : Edits(place)
  <2>1. Exists(Here(at[p].key))
    BY <1>4, <1>23 DEF ClearIndex
  <2>2. /\ at[p] # None /\ UNCHANGED <<intents, job>> /\ Amends(Here(at[p].key))
        /\ dirs'[Here(at[p].key)].db = None
        /\ dirs'[Here(at[p].key)].files = dirs[Here(at[p].key)].files
    BY <1>23, <2>1, ClearIndexEffect
  <2>3. Edits(Here(at[p].key))
    BY <1>5, <2>1, <2>2 DEF Edits
  <2>4. QED BY <1>5, <2>2, <2>3
<1>24. ASSUME NEW p \in Processes, EndCommand(p) PROVE Quiet
  BY <1>24 DEF EndCommand, Quiet
<1>25. CASE Kill
  BY <1>25 DEF Kill, Quiet
<1>26. CASE FileOperationFails
  <2>1. /\ job # None /\ job'.pc = "failed" /\ UNCHANGED intents
        /\ \/ UNCHANGED dirs
           \/ /\ job.pc = "rename" /\ dirs'[Here(job.key)] = job.trash
              /\ \A other \in Places : other # Here(job.key) => dirs'[other] = dirs[other]
    BY <1>1, <1>26, FileOperationFailsEffect
  <2>2. CASE UNCHANGED dirs
    BY <2>1, <2>2 DEF Quiet
  <2>3. CASE /\ job.pc = "rename" /\ dirs'[Here(job.key)] = job.trash
             /\ \A other \in Places : other # Here(job.key) => dirs'[other] = dirs[other]
    <3>1. PutsBack(Here(job.key))
      BY <1>2, <1>3, <2>1, <2>3 DEF PutsBack, SameBut
    <3>2. QED BY <1>2, <2>1, <3>1
  <2>4. QED BY <2>1, <2>2, <2>3
<1>27. ASSUME NEW root \in Roots, Remount(root) PROVE Quiet
  BY <1>27 DEF Remount, Quiet
<1>28. ASSUME NEW key \in Roots, Collect(key) PROVE Collects(key)
  <2>1. /\ job = None /\ UNCHANGED <<intents, job>> /\ dirs'[Here(key)] = None
        /\ \A other \in Places : other # Here(key) => dirs'[other] = dirs[other]
    BY <1>28, CollectEffect
  <2>2. QED BY <1>28, <2>1 DEF Collects, SameBut
<1>29. CASE UNCHANGED vars
  BY <1>29 DEF vars, Quiet
<1>30. QED BY <1>6, <1>7, <1>8, <1>9, <1>10, <1>11, <1>12, <1>13, <1>14, <1>15,
              <1>16, <1>17, <1>18, <1>19, <1>20, <1>21, <1>22, <1>23, <1>24,
              <1>25, <1>26, <1>27, <1>28, <1>29 DEF Next, Resolve

(***************************************************************************)
(* Indexes, markers and stray intents.                                     *)
(***************************************************************************)
LEMMA EmptyIsEmpty ==
  /\ EmptyDirectory.db = None /\ EmptyDirectory.owner = None
  /\ EmptyDirectory.gen = None /\ EmptyDirectory.files = FALSE
  /\ EmptyDirectory # None
<1>1. EmptyDirectory # None
  BY EmptyIsTyped, RecordsAssumption
<1>2. QED BY <1>1 DEF EmptyDirectory

LEMMA IntentsHaveMarkers ==
  ASSUME TypeOK
  PROVE  \A intent \in intents : intent.gen # None /\ intent.gen \in TokensInUse
BY RecordsAssumption DEF TypeOK, Intents, TokensInUse

LEMMA IndexesStep ==
  ASSUME TypeOK, PinInv, IndexesAreFiles, [Next]_vars
  PROVE  IndexesAreFiles'
<1>1. /\ \A place \in Places : Exists(place) /\ dirs[place].db # None => dirs[place].files
      /\ job # None /\ job.pc = "rename" /\ job.trash.db # None => job.trash.files
  BY DEF IndexesAreFiles, HasIndex
<1>2. ASSUME \A place \in Places :
               dirs'[place] # None /\ dirs'[place].db # None => dirs'[place].files,
             job' # None /\ job'.pc = "rename" /\ job'.trash.db # None => job'.trash.files
      PROVE  IndexesAreFiles'
  BY <1>2 DEF IndexesAreFiles, HasIndex, Exists
<1>3. CASE Quiet
  BY <1>1, <1>2, <1>3 DEF Quiet, Exists
<1>4. ASSUME NEW place \in Places, Creates(place) PROVE IndexesAreFiles'
  BY <1>1, <1>2, <1>4, EmptyIsEmpty DEF Creates, SameBut, Exists
<1>5. ASSUME NEW place \in Places, Marks(place) PROVE IndexesAreFiles'
  BY <1>1, <1>2, <1>5 DEF Marks, Issued, Exists
<1>6. ASSUME NEW place \in Places, Trashes(place) PROVE IndexesAreFiles'
  BY <1>1, <1>2, <1>6 DEF Trashes, SameBut, Exists
<1>7. ASSUME NEW source \in Places, NEW place \in Places, Renames(source, place)
      PROVE  IndexesAreFiles'
  BY <1>1, <1>2, <1>7 DEF Renames, HasIndex, Exists
<1>8. ASSUME NEW place \in Places, Edits(place) PROVE IndexesAreFiles'
  BY <1>1, <1>2, <1>8 DEF Edits, Amends, Exists
<1>9. ASSUME NEW place \in Places, NEW owner, Writes(place, owner) PROVE IndexesAreFiles'
  BY <1>1, <1>2, <1>9 DEF Writes, SameBut, Exists
<1>10. ASSUME NEW place \in Places, Drops(place) PROVE IndexesAreFiles'
  BY <1>1, <1>2, <1>10 DEF Drops, Exists
<1>11. ASSUME NEW place \in Places, PutsBack(place) PROVE IndexesAreFiles'
  BY <1>1, <1>2, <1>11 DEF PutsBack, SameBut, Exists
<1>12. ASSUME NEW key \in Roots, Collects(key) PROVE IndexesAreFiles'
  BY <1>1, <1>2, <1>12 DEF Collects, SameBut, Exists
<1>13. QED BY StepKinds, <1>3, <1>4, <1>5, <1>6, <1>7, <1>8, <1>9, <1>10, <1>11, <1>12

LEMMA GenerationsStep ==
  ASSUME TypeOK, PinInv, GenerationsDiffer, [Next]_vars
  PROVE  GenerationsDiffer'
<1>1. /\ \A place, other \in Places :
           Exists(place) /\ Exists(other) /\ dirs[place].gen = dirs[other].gen
             /\ dirs[place].gen # None => place = other
      /\ job # None /\ job.pc = "rename" /\ job.trash.gen # None =>
           \A place \in Places : Exists(place) => dirs[place].gen # job.trash.gen
  BY DEF GenerationsDiffer
<1>2. ASSUME \A place, other \in Places :
               dirs'[place] # None /\ dirs'[other] # None
                 /\ dirs'[place].gen = dirs'[other].gen
                 /\ dirs'[place].gen # None => place = other,
             job' # None /\ job'.pc = "rename" /\ job'.trash.gen # None =>
               \A place \in Places : dirs'[place] # None => dirs'[place].gen # job'.trash.gen
      PROVE  GenerationsDiffer'
  BY <1>2 DEF GenerationsDiffer, Exists
\* Most steps leave the markers alone or lose some.
<1>3. ASSUME \A place \in Places : dirs'[place] # None =>
               \/ dirs'[place].gen = None
               \/ Exists(place) /\ dirs'[place].gen = dirs[place].gen,
             job' # None => job' = job \/ job'.pc # "rename"
      PROVE  GenerationsDiffer'
  BY <1>1, <1>2, <1>3
<1>4. CASE Quiet
  BY <1>3, <1>4 DEF Quiet, Exists
<1>5. ASSUME NEW place \in Places, Creates(place) PROVE GenerationsDiffer'
  BY <1>3, <1>5, EmptyIsEmpty DEF Creates, SameBut, Exists
<1>6. ASSUME NEW place \in Places, Marks(place) PROVE GenerationsDiffer'
  <2>1. \A other \in Places : Exists(other) /\ dirs[other].gen # None
                                => dirs[other].gen \in TokensInUse
    BY DEF TokensInUse
  <2>2. CASE dirs[place].gen # None
    BY <1>3, <1>6, <2>2 DEF Marks, Issued, Exists
  <2>3. CASE dirs[place].gen = None
    <3>1. \A other \in Places : other # place /\ dirs'[other] # None =>
            dirs'[other] = dirs[other] /\ dirs'[other].gen # dirs'[place].gen
      BY <1>6, <2>1, <2>3, RecordsAssumption DEF Marks, Issued, Exists
    <3>2. QED BY <1>1, <1>2, <1>6, <3>1 DEF Marks, Exists
  <2>4. QED BY <2>2, <2>3
<1>7. ASSUME NEW place \in Places, Trashes(place) PROVE GenerationsDiffer'
  BY <1>1, <1>2, <1>7 DEF Trashes, SameBut, Exists
<1>8. ASSUME NEW source \in Places, NEW place \in Places, Renames(source, place)
      PROVE  GenerationsDiffer'
  BY <1>1, <1>2, <1>8 DEF Renames, HasIndex, Exists
<1>9. ASSUME NEW place \in Places, Edits(place) PROVE GenerationsDiffer'
  BY <1>3, <1>9 DEF Edits, Amends, Exists
<1>10. ASSUME NEW place \in Places, NEW owner, Writes(place, owner)
       PROVE  GenerationsDiffer'
  BY <1>3, <1>10 DEF Writes, SameBut, Exists
<1>11. ASSUME NEW place \in Places, Drops(place) PROVE GenerationsDiffer'
  BY <1>3, <1>11 DEF Drops, Exists
<1>12. ASSUME NEW place \in Places, PutsBack(place) PROVE GenerationsDiffer'
  BY <1>1, <1>2, <1>12 DEF PutsBack, SameBut, Exists
<1>13. ASSUME NEW key \in Roots, Collects(key) PROVE GenerationsDiffer'
  BY <1>3, <1>13 DEF Collects, SameBut, Exists
<1>14. QED BY StepKinds, <1>4, <1>5, <1>6, <1>7, <1>8, <1>9, <1>10, <1>11, <1>12, <1>13

LEMMA StraysStep ==
  ASSUME TypeOK, PinInv, IndexesAreFiles, GenerationsDiffer, StrayIntents, [Next]_vars
  PROVE  StrayIntents'
<1>1. /\ \A place \in Places : Exists(place) =>
           \A intent \in intents : intent.gen = dirs[place].gen =>
             place = Here(intent.key) \/ dirs[place].files
      /\ job # None /\ job.pc = "rename" =>
           \A intent \in intents : intent.gen = job.trash.gen =>
             intent.key = job.key \/ job.trash.files
  BY DEF StrayIntents
<1>2. ASSUME \A place \in Places : dirs'[place] # None =>
               \A intent \in intents' : intent.gen = dirs'[place].gen =>
                 place = Here(intent.key) \/ dirs'[place].files,
             job' # None /\ job'.pc = "rename" =>
               \A intent \in intents' : intent.gen = job'.trash.gen =>
                 intent.key = job'.key \/ job'.trash.files
      PROVE  StrayIntents'
  BY <1>2 DEF StrayIntents, Exists
<1>3. \A intent \in intents : intent.gen # None /\ intent.gen \in TokensInUse
  BY IntentsHaveMarkers
<1>4. ASSUME \A place \in Places : dirs'[place] # None =>
               \/ dirs'[place].gen = None
               \/ /\ Exists(place) /\ dirs'[place].gen = dirs[place].gen
                  /\ dirs[place].files => dirs'[place].files,
             intents' \subseteq intents,
             job' # None => job' = job \/ job'.pc # "rename"
      PROVE  StrayIntents'
  BY <1>1, <1>2, <1>3, <1>4
<1>5. CASE Quiet
  BY <1>4, <1>5 DEF Quiet, Exists
<1>6. ASSUME NEW place \in Places, Creates(place) PROVE StrayIntents'
  BY <1>4, <1>6, EmptyIsEmpty DEF Creates, SameBut, Exists
<1>7. ASSUME NEW place \in Places, Marks(place) PROVE StrayIntents'
  <2>1. \A other \in Places : other # place /\ dirs'[other] # None =>
          /\ Exists(other) /\ dirs'[other] = dirs[other]
          /\ dirs'[other].gen # dirs'[place].gen
    <3>1. \A other \in Places : other # place => dirs'[other] = dirs[other]
      BY <1>7 DEF Marks, Issued
    <3>2. GenerationsDiffer'
      BY GenerationsStep
    <3>3. dirs'[place] # None /\ dirs'[place].gen # None
      BY <1>7, RecordsAssumption DEF Marks, Issued
    <3>4. QED BY <3>1, <3>2, <3>3 DEF GenerationsDiffer, Exists
  <2>2. /\ dirs'[place].files = dirs[place].files
        /\ dirs[place].gen # None => dirs'[place].gen = dirs[place].gen
        /\ dirs[place].gen = None => dirs'[place].gen \notin TokensInUse
    BY <1>7 DEF Marks, Issued
  <2>3. \A intent \in intents : intent.gen = dirs'[place].gen =>
          place = Here(intent.key) \/ dirs'[place].files
    BY <1>1, <1>3, <1>7, <2>2 DEF Marks
  <2>4. ASSUME NEW intent \in intents' \ intents
        PROVE  /\ intent.gen = dirs'[place].gen
               /\ place = Here(intent.key) \/ dirs'[place].files
    <3>1. /\ place = Here(job.key) \/ HasIndex(place)
          /\ intent = [key |-> job.key, gen |-> dirs'[place].gen, owner |-> job'.owner]
      BY <1>7, <2>4 DEF Marks
    <3>2. HasIndex(place) => dirs[place].files
      BY DEF IndexesAreFiles
    <3>3. QED BY <2>2, <3>1, <3>2
  <2>5. \A other \in Places : dirs'[other] # None =>
          \A intent \in intents' : intent.gen = dirs'[other].gen =>
            other = Here(intent.key) \/ dirs'[other].files
    BY <1>1, <2>1, <2>3, <2>4
  <2>6. job'.pc # "rename"
    BY <1>7 DEF Marks
  <2>7. QED BY <1>2, <2>5, <2>6
<1>8. ASSUME NEW place \in Places, Trashes(place) PROVE StrayIntents'
  <2>1. \A intent \in intents : intent.gen = dirs[place].gen =>
          intent.key = job.key \/ dirs[place].files
    <3>1. /\ Exists(place) /\ place = Here(job.key) /\ job # None
      BY <1>8 DEF Trashes
    <3>2. \A intent \in intents : intent.key \in Roots
      BY DEF TypeOK, Intents
    <3>3. QED BY <1>1, <3>1, <3>2, PlacesAreTyped, JobsAreTyped
  <2>2. QED BY <1>1, <1>2, <1>8, <2>1 DEF Trashes, SameBut, Exists
<1>9. ASSUME NEW source \in Places, NEW place \in Places, Renames(source, place)
      PROVE  StrayIntents'
  <2>1. dirs[source].files
    BY <1>9 DEF Renames, IndexesAreFiles
  <2>2. QED BY <1>1, <1>2, <1>9, <2>1 DEF Renames, HasIndex, Exists
<1>10. ASSUME NEW place \in Places, Edits(place) PROVE StrayIntents'
  BY <1>4, <1>10 DEF Edits, Amends, Exists
<1>11. ASSUME NEW place \in Places, NEW owner, Writes(place, owner)
       PROVE  StrayIntents'
  BY <1>4, <1>11 DEF Writes, SameBut, Exists
<1>12. ASSUME NEW place \in Places, Drops(place) PROVE StrayIntents'
  BY <1>4, <1>12 DEF Drops, Exists
<1>13. ASSUME NEW place \in Places, PutsBack(place) PROVE StrayIntents'
  <2>1. \A intent \in intents : intent.gen = job.trash.gen =>
          place = Here(intent.key) \/ job.trash.files
    BY <1>1, <1>13 DEF PutsBack
  <2>2. QED BY <1>1, <1>2, <1>13, <2>1 DEF PutsBack, SameBut, Exists
<1>14. ASSUME NEW key \in Roots, Collects(key) PROVE StrayIntents'
  BY <1>4, <1>14 DEF Collects, SameBut, Exists
<1>15. QED BY StepKinds, <1>5, <1>6, <1>7, <1>8, <1>9, <1>10, <1>11, <1>12, <1>13, <1>14

(***************************************************************************)
(* What a resolution records, and when it drops it.                        *)
(***************************************************************************)
RecordingInv == CarriedInv /\ CoveredInv /\ InstalledFirst

\* Steps of commands and of the world do not touch it.
LEMMA RecordingFrame ==
  ASSUME TypeOK, PinInv, RecordingInv,
         \/ job' = None
         \/ job' # None /\ job'.pc = "failed"
         \/ /\ job' = job /\ UNCHANGED intents
            /\ \A place \in Places :
                 /\ dirs'[place] = None <=> dirs[place] = None
                 /\ dirs'[place].gen = dirs[place].gen
                 /\ dirs'[place].owner = dirs[place].owner
  PROVE  RecordingInv'
<1>1. CASE job' = None
  BY <1>1 DEF RecordingInv, CarriedInv, CoveredInv, InstalledFirst
<1>2. CASE job' # None /\ job'.pc = "failed"
  BY <1>2 DEF RecordingInv, CarriedInv, CoveredInv, InstalledFirst
<1>3. CASE /\ job' = job /\ job # None /\ UNCHANGED intents
           /\ \A place \in Places :
                /\ dirs'[place] = None <=> dirs[place] = None
                /\ dirs'[place].gen = dirs[place].gen
                /\ dirs'[place].owner = dirs[place].owner
  <2>1. /\ Here(job.key) \in Places
        /\ job.pc \in {"quarantine", "rename"} => job.source \in Places
    BY <1>3, JobsAreTyped, WhatIsThere DEF MovePCs
  <2>2. /\ dirs'[Here(job.key)] = None <=> dirs[Here(job.key)] = None
        /\ dirs'[Here(job.key)].gen = dirs[Here(job.key)].gen
        /\ dirs'[Here(job.key)].owner = dirs[Here(job.key)].owner
        /\ job.pc \in {"quarantine", "rename"} =>
             dirs'[job.source].gen = dirs[job.source].gen
    BY <1>3, <2>1
  <2>3. CarriedInv'
    BY <1>3, <2>2 DEF RecordingInv, CarriedInv, CoversAll, CoversOwn, Exists
  <2>4. CoveredInv' /\ InstalledFirst'
    BY <1>3, <2>2 DEF RecordingInv, CoveredInv, InstalledFirst, CoversOwn
  <2>5. QED BY <2>3, <2>4 DEF RecordingInv
<1>4. QED BY <1>1, <1>2, <1>3

\* What has to be shown after a step, by where it leads.
LEMMA RecordingLooks ==
  ASSUME job' # None, job'.pc \in {"target", "choose", "plan", "own"},
         dirs'[Here(job'.key)] # None =>
           \A intent \in intents' :
             intent.gen = dirs'[Here(job'.key)].gen /\ intent.key = job'.key =>
               Identities(intent.owner) \subseteq Identities(job'.carried)
  PROVE  RecordingInv'
BY DEF RecordingInv, CarriedInv, CoveredInv, InstalledFirst, CoversOwn, Exists

LEMMA RecordingWrites ==
  ASSUME job' # None, job'.pc \in {"install", "intent", "manifest", "cleanup"},
         \A intent \in intents' :
           intent.gen = dirs'[Here(job'.key)].gen /\ intent.key = job'.key =>
             Identities(intent.owner) \subseteq Identities(job'.owner),
         ~CutShortInUse /\ job'.pc = "cleanup" =>
           Identities(job'.owner) \subseteq Identities(dirs'[Here(job'.key)].owner)
  PROVE  RecordingInv'
BY DEF RecordingInv, CarriedInv, CoveredInv, InstalledFirst, CoversOwn

LEMMA RecordingEnds ==
  ASSUME job' # None, job'.pc \in {"sweep", "lease"},
         \A intent \in intents' :
           ~(intent.gen = dirs'[Here(job'.key)].gen /\ intent.key = job'.key),
         ~CutShortInUse /\ job'.pc = "sweep" =>
           Identities(job'.owner) \subseteq Identities(dirs'[Here(job'.key)].owner)
  PROVE  RecordingInv'
BY DEF RecordingInv, CarriedInv, CoveredInv, InstalledFirst

LEMMA NamedOwners ==
  ASSUME NEW key, NEW intent \in intents, intent.gen = dirs[Here(key)].gen, intent.key = key
  PROVE  /\ intent \in OwnIntents(Here(key))
         /\ Identities(intent.owner) \subseteq Named(OwnIntents(Here(key)))
BY DEF OwnIntents, GenerationIntents, Named

LEMMA BeginRecords ==
  ASSUME TypeOK, PinInv, InUseIsInstalled, NEW p \in Processes, NEW root \in Requested,
         NEW kind \in {"resolve", "legacy"}, Begin(p, root, kind)
  PROVE  RecordingInv'
<1> DEFINE pinned == Here(at[p].key)
           canon  == canonical[root]
<1>1. /\ job = None /\ UNCHANGED <<canonical, dirs, intents, at, building>>
      /\ job' # None
      /\ Identities(job'.carried)
           = {canon, root} \cup IF Exists(Here(canon)) THEN Named(OwnIntents(Here(canon)))
                                ELSE {}
      /\ \/ job'.pc \in {"failed", "target"} /\ job'.key = canon
         \/ /\ at[p] # None /\ Exists(pinned) /\ job'.key = at[p].key
            /\ Identities(job'.owner) = Known(pinned) \cup Identities(job'.carried)
            /\ \/ job'.pc = "intent"
               \/ job'.pc = "cleanup" /\ Identities(job'.owner) = Known(pinned)
  BY BeginEffect
<1>2. CASE job'.pc = "failed"
  BY <1>1, <1>2 DEF RecordingInv, CarriedInv, CoveredInv, InstalledFirst
<1>3. CASE job'.pc = "target"
  <2>1. Exists(Here(canon)) =>
          \A intent \in intents : intent.gen = dirs[Here(canon)].gen /\ intent.key = canon =>
            Identities(intent.owner) \subseteq Identities(job'.carried)
    BY <1>1, NamedOwners
  <2>2. job'.key = canon
    BY <1>1, <1>3
  <2>3. QED BY <1>1, <1>3, <2>1, <2>2, RecordingLooks DEF Exists
<1>4. CASE job'.pc \in {"intent", "cleanup"}
  <2>1. /\ at[p] # None /\ Exists(pinned) /\ job'.key = at[p].key
        /\ Known(pinned) \subseteq Identities(job'.owner)
        /\ job'.pc = "cleanup" => Identities(job'.owner) = Known(pinned)
    BY <1>1, <1>4
  <2>2. \A intent \in intents : intent.gen = dirs[pinned].gen /\ intent.key = at[p].key =>
          /\ intent \in OwnIntents(pinned)
          /\ Identities(intent.owner) \subseteq Known(pinned)
    BY NamedOwners DEF Known
  <2>3. ~CutShortInUse => Known(pinned) \subseteq Identities(dirs[pinned].owner)
    <3>1. SUFFICES ASSUME ~CutShortInUse
                   PROVE  Known(pinned) \subseteq Identities(dirs[pinned].owner)
      OBVIOUS
    <3>2. CoversOwn(dirs[pinned].owner, at[p].key)
      BY <1>1, <2>1, <3>1 DEF InUseIsInstalled
    <3>3. \A intent \in OwnIntents(pinned) :
            /\ intent \in intents /\ intent.gen = dirs[pinned].gen /\ intent.key = at[p].key
      BY <2>1, LeasedPlaces, DirectoriesAreTyped DEF OwnIntents, GenerationIntents, Here
    <3>4. Named(OwnIntents(pinned)) \subseteq Identities(dirs[pinned].owner)
      BY <3>2, <3>3 DEF Named, CoversOwn
    <3>5. dirs[pinned].owner # None
      BY <2>1 DEF PinInv, LeasesHold
    <3>6. QED BY <3>4, <3>5 DEF Known, InManifest
  <2>4. QED BY <1>1, <1>4, <2>1, <2>2, <2>3, RecordingWrites
<1>5. QED BY <1>1, <1>2, <1>3, <1>4

LEMMA InstallRecords ==
  ASSUME TypeOK, job # None, Exists(Here(job.key)), NEW desired, NEW next \in {"lease", "sweep"},
         Installs(desired, next), CoversOwn(desired, job.key)
  PROVE  RecordingInv'
<1>1. /\ SameRequest /\ UNCHANGED <<dirs, intents>>
      /\ \/ job'.pc = "failed"
         \/ /\ job'.pc = "intent"
            /\ Identities(job'.owner) = Identities(desired) \cup InManifest(Here(job.key))
         \/ /\ job'.pc = "cleanup"
            /\ dirs[Here(job.key)].owner # None
            /\ job'.owner = dirs[Here(job.key)].owner
            /\ Identities(desired) \subseteq InManifest(Here(job.key))
  BY DEF Installs
<1>2. CASE job'.pc = "failed"
  BY <1>2 DEF RecordingInv, CarriedInv, CoveredInv, InstalledFirst
<1>3. CASE job'.pc # "failed"
  <2>1. Identities(desired) \subseteq Identities(job'.owner)
    BY <1>1, <1>3 DEF InManifest
  <2>2. \A intent \in intents' :
          intent.gen = dirs'[Here(job'.key)].gen /\ intent.key = job'.key =>
            Identities(intent.owner) \subseteq Identities(job'.owner)
    BY <1>1, <2>1 DEF CoversOwn, SameRequest
  <2>3. job'.pc = "cleanup" =>
          Identities(job'.owner) \subseteq Identities(dirs'[Here(job'.key)].owner)
    BY <1>1 DEF SameRequest
  <2>4. job' # None /\ job'.pc \in {"intent", "cleanup"}
    BY <1>1, <1>3 DEF SameRequest
  <2>5. QED BY <2>2, <2>3, <2>4, RecordingWrites
<1>4. QED BY <1>2, <1>3

\* The plan of a move says all that the directories at both ends say.
LEMMA PlanRecords ==
  ASSUME TypeOK, PinInv, StrayIntents, RecordingInv, PlanMove
  PROVE  RecordingInv'
<1> DEFINE source == job.source
           here   == Here(job.key)
<1>1. job # None /\ job.pc = "plan"
  BY DEF PlanMove, At
<1>2. /\ source \in Places /\ Exists(source) /\ Exists(here)
      /\ source # here /\ here \in Places
  BY <1>1, WhatIsThere, JobsAreTyped DEF TargetPCs, MovePCs
<1>3. /\ SameRequest /\ job'.source = source /\ Issued(source)
      /\ \/ job'.pc = "failed"
         \/ /\ job'.pc = "quarantine"
            /\ intents' = intents \cup {[key |-> job.key, gen |-> dirs'[source].gen,
                                         owner |-> job'.owner]}
            /\ ~dirs[here].files
            /\ \E authorized \in Manifest :
                 Identities(job'.owner)
                   = Identities(authorized) \cup Identities(job.carried)
                       \cup Named(GenerationIntents(source)) \cup InManifest(here)
  BY <1>2, PlanMoveEffect
<1>4. CASE job'.pc = "failed"
  BY <1>4 DEF RecordingInv, CarriedInv, CoveredInv, InstalledFirst
<1>5. CASE job'.pc = "quarantine"
  <2>1. /\ Identities(job.carried) \subseteq Identities(job'.owner)
        /\ Named(GenerationIntents(source)) \subseteq Identities(job'.owner)
        /\ InManifest(here) \subseteq Identities(job'.owner)
    BY <1>3, <1>5
  <2> DEFINE new == [key |-> job.key, gen |-> dirs'[source].gen, owner |-> job'.owner]
  <2>2. intents' = intents \cup {new} /\ new.gen = dirs'[source].gen /\ new.owner = job'.owner
    BY <1>3, <1>5
  <2> HIDE DEF new
  <2>3. \A intent \in intents : intent.gen \in TokensInUse
    BY IntentsHaveMarkers
  <2>4. \A intent \in intents' : intent.gen = dirs'[source].gen =>
          Identities(intent.owner) \subseteq Identities(job'.owner)
    <3>1. ASSUME NEW intent \in intents, intent.gen = dirs'[source].gen
          PROVE  Identities(intent.owner) \subseteq Identities(job'.owner)
      <4>1. intent.gen = dirs[source].gen
        BY <1>3, <2>3, <3>1 DEF Issued
      <4>2. Identities(intent.owner) \subseteq Named(GenerationIntents(source))
        BY <4>1 DEF Named, GenerationIntents
      <4>3. QED BY <2>1, <4>2
    <3>2. QED BY <2>2, <3>1
  <2>5. dirs'[here] = dirs[here]
    BY <1>2, <1>3 DEF Issued
  <2>6. \A intent \in intents' : intent.gen = dirs'[here].gen =>
          Identities(intent.owner) \subseteq Identities(job'.owner)
    <3>1. ASSUME NEW intent \in intents, intent.gen = dirs[here].gen
          PROVE  Identities(intent.owner) \subseteq Identities(job'.owner)
      <4>1. here = Here(intent.key)
        BY <1>2, <1>3, <1>5, <3>1 DEF StrayIntents
      <4>2. intent.key = job.key
        BY <4>1 DEF Here
      <4>3. CoversOwn(job.carried, job.key)
        BY <1>1, <1>2 DEF RecordingInv, CarriedInv
      <4>4. Identities(intent.owner) \subseteq Identities(job.carried)
        BY <3>1, <4>2, <4>3 DEF CoversOwn
      <4>5. QED BY <2>1, <4>4
    <3>2. QED BY <2>2, <2>5, <3>1
  <2>7. dirs'[here].owner # None => Identities(dirs'[here].owner) \subseteq Identities(job'.owner)
    BY <2>1, <2>5 DEF InManifest
  <2>8. \E intent \in intents' : intent.gen = dirs'[source].gen /\ intent.owner = job'.owner
    BY <2>2
  <2>9. job' # None /\ Here(job'.key) = here /\ job'.source = source
    BY <1>3 DEF SameRequest
  <2> HIDE DEF here, source
  <2>10. CarriedInv'
    BY <1>5, <2>4, <2>6, <2>7, <2>8, <2>9 DEF CarriedInv, CoversAll
  <2>11. CoveredInv' /\ InstalledFirst'
    BY <1>5 DEF CoveredInv, InstalledFirst
  <2>12. QED BY <2>10, <2>11 DEF RecordingInv
<1>6. QED BY <1>3, <1>4, <1>5

LEMMA ResolveRecords ==
  ASSUME TypeOK, PinInv, StrayIntents, RecordingInv, Resolve
  PROVE  RecordingInv'
<1>1. /\ job # None /\ job.pc \in TargetPCs => Exists(Here(job.key))
      /\ job # None /\ job.pc \in MovePCs =>
           /\ job.source \in Places /\ Exists(job.source)
           /\ job.source # Here(job.key)
  BY WhatIsThere
<1>2. job # None => Here(job.key) \in Places /\ job.next \in {"lease", "sweep"}
  BY JobsAreTyped
<1>3. \A intent \in intents : intent.gen # None /\ intent.gen \in TokensInUse
  BY IntentsHaveMarkers
<1>4. CASE MakeTarget
  <2>1. /\ job # None /\ job.pc = "target" /\ SameRequest /\ job'.pc = "choose"
        /\ UNCHANGED intents
        /\ dirs'[Here(job.key)] = IF Exists(Here(job.key)) THEN dirs[Here(job.key)]
                                  ELSE EmptyDirectory
    BY <1>4, MakeTargetEffect
  <2>2. CASE Exists(Here(job.key))
    <3>1. CoversOwn(job.carried, job.key)
      BY <2>1, <2>2 DEF RecordingInv, CarriedInv
    <3>2. QED BY <2>1, <2>2, <3>1, RecordingLooks DEF CoversOwn, SameRequest
  <2>3. CASE ~Exists(Here(job.key))
    <3>1. dirs'[Here(job.key)].gen = None
      BY <2>1, <2>3, EmptyIsEmpty
    <3>2. QED BY <1>3, <2>1, <3>1, RecordingLooks DEF SameRequest
  <2>4. QED BY <2>2, <2>3
<1>5. CASE ChooseSource
  <2>1. /\ job # None /\ job.pc = "choose" /\ SameRequest
        /\ UNCHANGED <<dirs, intents>> /\ job'.pc \in {"own", "failed", "plan"}
    BY <1>5, ChooseSourceEffect
  <2>2. CoversOwn(job.carried, job.key)
    BY <1>1, <2>1 DEF RecordingInv, CarriedInv, TargetPCs
  <2>3. CASE job'.pc = "failed"
    BY <2>3 DEF RecordingInv, CarriedInv, CoveredInv, InstalledFirst
  <2>4. CASE job'.pc # "failed"
    BY <2>1, <2>2, <2>4, RecordingLooks DEF CoversOwn, SameRequest
  <2>5. QED BY <2>3, <2>4
<1>6. CASE PlanMove
  BY <1>6, PlanRecords
<1>7. CASE QuarantineTarget
  <2>1. /\ job # None /\ job.pc = "quarantine" /\ SameRequest /\ job'.pc = "rename"
        /\ UNCHANGED intents /\ job'.owner = job.owner /\ job'.source = job.source
        /\ \A other \in Places : other # Here(job.key) => dirs'[other] = dirs[other]
    BY <1>7, QuarantineTargetEffect
  <2>2. dirs'[job.source] = dirs[job.source]
    BY <1>1, <2>1 DEF MovePCs
  <2>3. CoversAll(job.owner, job.source)
    BY <2>1 DEF RecordingInv, CarriedInv
  <2>4. CarriedInv'
    BY <2>1, <2>2, <2>3 DEF CarriedInv, CoversAll
  <2>5. QED BY <2>1, <2>4 DEF RecordingInv, CoveredInv, InstalledFirst
<1>8. CASE RenameSource
  <2>1. job # None /\ job.pc = "rename"
    BY <1>8 DEF RenameSource, At
  <2>2. job.source \in Places /\ job.source # Here(job.key)
    BY <1>1, <2>1 DEF MovePCs
  <2>3. /\ SameRequest /\ job'.pc = "install" /\ UNCHANGED intents
        /\ job'.owner = job.owner /\ dirs'[Here(job.key)] = dirs[job.source]
    BY <1>8, <2>2, RenameSourceEffect
  <2>4. CoversAll(job.owner, job.source)
    BY <2>1 DEF RecordingInv, CarriedInv
  <2>5. QED BY <2>3, <2>4, RecordingWrites DEF CoversAll, SameRequest
<1>9. CASE InstallAfterMove
  <2>1. job # None /\ job.pc = "install"
    BY <1>9 DEF InstallAfterMove, At
  <2>2. Exists(Here(job.key)) /\ CoversOwn(job.owner, job.key)
    BY <1>1, <2>1 DEF TargetPCs, RecordingInv, CoveredInv
  <2>3. Installs(job.owner, "sweep")
    BY <1>9, <2>2, InstallAfterMoveEffect
  <2>4. QED BY <2>1, <2>2, <2>3, InstallRecords
<1>10. CASE WriteIntent
  <2>1. job # None /\ job.pc = "intent"
    BY <1>10 DEF WriteIntent, At
  <2>2. Exists(Here(job.key)) /\ CoversOwn(job.owner, job.key)
    BY <1>1, <2>1 DEF TargetPCs, RecordingInv, CoveredInv
  <2>3. /\ SameRequest /\ Issued(Here(job.key)) /\ job'.pc = "manifest"
        /\ job'.owner = job.owner
        /\ intents' = intents \cup {[key |-> job.key, owner |-> job.owner,
                                     gen |-> dirs'[Here(job.key)].gen]}
    BY <1>10, <2>2, WriteIntentEffect
  <2>4. \A intent \in intents : intent.gen = dirs'[Here(job.key)].gen =>
          intent.gen = dirs[Here(job.key)].gen
    BY <1>3, <2>3 DEF Issued
  <2>5. \A intent \in intents' :
          intent.gen = dirs'[Here(job.key)].gen /\ intent.key = job.key =>
            Identities(intent.owner) \subseteq Identities(job.owner)
    BY <2>2, <2>3, <2>4 DEF CoversOwn
  <2>6. QED BY <2>3, <2>5, RecordingWrites DEF SameRequest
<1>11. CASE WriteManifest
  <2>1. job # None /\ job.pc = "manifest"
    BY <1>11 DEF WriteManifest, At
  <2>2. Exists(Here(job.key)) /\ CoversOwn(job.owner, job.key)
    BY <1>1, <2>1 DEF TargetPCs, RecordingInv, CoveredInv
  <2>3. /\ SameRequest /\ job'.pc = "cleanup" /\ UNCHANGED intents
        /\ job'.owner = job.owner
        /\ dirs'[Here(job.key)].owner = job.owner
        /\ dirs'[Here(job.key)].gen = dirs[Here(job.key)].gen
    BY <1>11, <2>2, WriteManifestEffect
  <2>4. QED BY <2>2, <2>3, RecordingWrites DEF CoversOwn, SameRequest
<1>12. CASE CleanUpIntents
  <2>1. /\ job # None /\ job.pc = "cleanup" /\ SameRequest /\ UNCHANGED dirs
        /\ job'.pc = job.next /\ job'.owner = job.owner
        /\ intents' = intents \ Covered(OwnIntents(Here(job.key)))
    BY <1>12, CleanUpIntentsEffect
  <2>2. CoversOwn(job.owner, job.key)
    BY <2>1 DEF RecordingInv, CoveredInv
  <2>3. ASSUME NEW intent \in intents', intent.gen = dirs[Here(job.key)].gen,
               intent.key = job.key
        PROVE  FALSE
    <3>1. intent \in intents /\ Identities(intent.owner) \subseteq Identities(job.owner)
      BY <2>1, <2>2, <2>3 DEF CoversOwn
    <3>2. intent \in OwnIntents(Here(job.key))
      BY <2>3, <3>1, NamedOwners
    <3>3. intent \in Covered(OwnIntents(Here(job.key)))
      BY <3>1, <3>2 DEF Covered
    <3>4. QED BY <2>1, <3>3
  <2>4. ~CutShortInUse =>
          Identities(job.owner) \subseteq Identities(dirs[Here(job.key)].owner)
    BY <2>1 DEF RecordingInv, InstalledFirst
  <2>5. QED BY <1>2, <2>1, <2>3, <2>4, RecordingEnds DEF SameRequest
<1>13. CASE SweepIntents
  <2>1. /\ job # None /\ job.pc = "sweep" /\ SameRequest /\ UNCHANGED dirs
        /\ job'.pc = "own" /\ intents' \subseteq intents
    BY <1>13, SweepIntentsEffect
  <2>2. \A intent \in intents :
          ~(intent.gen = dirs[Here(job.key)].gen /\ intent.key = job.key)
    BY <2>1 DEF RecordingInv, CoveredInv
  <2>3. QED BY <2>1, <2>2, RecordingLooks DEF SameRequest
<1>14. CASE OwnTarget
  <2>1. job # None /\ job.pc = "own"
    BY <1>14 DEF OwnTarget, At
  <2>2. Exists(Here(job.key)) /\ CoversOwn(job.carried, job.key)
    BY <1>1, <2>1 DEF TargetPCs, RecordingInv, CarriedInv
  <2>3. Installs(job.carried, "lease")
    BY <1>14, <2>2, OwnTargetEffect
  <2>4. QED BY <2>1, <2>2, <2>3, InstallRecords
<1>15. CASE TakeLease \/ TakeLeaseAndRebuildLock \/ Fail
  BY <1>15, RecordingFrame DEF TakeLease, TakeLeaseAndRebuildLock, Leased, Fail
<1>16. QED BY <1>4, <1>5, <1>6, <1>7, <1>8, <1>9, <1>10, <1>11, <1>12, <1>13,
              <1>14, <1>15 DEF Resolve

LEMMA RecordingStep ==
  ASSUME TypeOK, PinInv, StrayIntents, RecordingInv, InUseIsInstalled, [Next]_vars
  PROVE  RecordingInv'
<1>1. \A p \in building : p \in Processes /\ at[p] # None /\ Exists(Here(at[p].key))
  BY WhatIsThere DEF TypeOK
<1>2. ASSUME NEW p \in Processes, at[p] # None, Exists(Here(at[p].key)),
             Amends(Here(at[p].key)), UNCHANGED <<intents, job>>
      PROVE  RecordingInv'
  <2>1. \A place \in Places :
          /\ dirs'[place] = None <=> dirs[place] = None
          /\ dirs'[place].gen = dirs[place].gen
          /\ dirs'[place].owner = dirs[place].owner
    BY <1>2 DEF Amends, Exists
  <2>2. QED BY <1>2, <2>1, RecordingFrame
<1>3. ASSUME NEW p \in Processes, OpenIndex(p) PROVE RecordingInv'
  BY <1>2, <1>3, OpenIndexEffect
<1>4. ASSUME NEW p \in Processes, PublishIndex(p) PROVE RecordingInv'
  <2>1. Exists(Here(at[p].key))
    BY <1>1, <1>4 DEF PublishIndex
  <2>2. QED BY <1>2, <1>4, <2>1, PublishIndexEffect
<1>5. ASSUME NEW p \in Processes, ClearIndex(p) PROVE RecordingInv'
  <2>1. Exists(Here(at[p].key))
    BY <1>1, <1>5 DEF ClearIndex
  <2>2. QED BY <1>2, <1>5, <2>1, ClearIndexEffect
<1>6. ASSUME NEW p \in Processes, EndCommand(p) PROVE RecordingInv'
  BY <1>6, RecordingFrame DEF EndCommand
<1>7. CASE Kill
  BY <1>7, RecordingFrame DEF Kill
<1>8. CASE FileOperationFails
  <2>1. job # None /\ job.pc = "rename" => job.trash # None
    BY WhatIsThere
  <2>2. job' # None /\ job'.pc = "failed"
    BY <1>8, <2>1, FileOperationFailsEffect DEF SameRequest
  <2>3. QED BY <2>2, RecordingFrame
<1>9. ASSUME NEW root \in Roots, Remount(root) PROVE RecordingInv'
  BY <1>9, RecordingFrame DEF Remount
<1>10. ASSUME NEW key \in Roots, Collect(key) PROVE RecordingInv'
  BY <1>10, RecordingFrame DEF Collect
<1>11. CASE UNCHANGED vars
  BY <1>11, RecordingFrame DEF vars
<1>12. QED BY <1>3, <1>4, <1>5, <1>6, <1>7, <1>8, <1>9, <1>10, <1>11,
              BeginRecords, ResolveRecords DEF Next

(***************************************************************************)
(* The manifests of directories in use.                                    *)
(***************************************************************************)
LEMMA InUseStep ==
  ASSUME TypeOK, PinInv, GenerationsDiffer, RecordingInv, InUseIsInstalled, [Next]_vars
  PROVE  InUseIsInstalled'
<1> SUFFICES ASSUME ~CutShortInUse PROVE InUseIsInstalled'
  BY DEF InUseIsInstalled
<1>1. /\ job # None /\ job.pc \in TargetPCs => Exists(Here(job.key))
      /\ job # None /\ job.pc \in MovePCs =>
           /\ job.source \in Places /\ Exists(job.source)
           /\ job.source # Here(job.key)
      /\ job # None /\ job.pc = "rename" => job.trash # None
      /\ \A p \in Processes : at[p] # None => Exists(Here(at[p].key))
  BY WhatIsThere
<1>2. \A p \in Processes : at[p] # None =>
        at[p].key \in Roots /\ Here(at[p].key) \in Places
  BY LeasedPlaces
<1>3. job # None => /\ job.process \in Processes /\ job.key \in Roots
                    /\ Here(job.key) \in Places
  BY JobsAreTyped
<1>4. \A key, other \in Roots : Here(key) = Here(other) => key = other
  BY PlacesAreTyped
<1>5. \A p \in building : p \in Processes /\ at[p] # None /\ Exists(Here(at[p].key))
  BY <1>1 DEF TypeOK
<1>6. \A p \in Processes : at[p] # None =>
        \/ CoversOwn(dirs[Here(at[p].key)].owner, at[p].key)
        \/ job # None /\ job.pc = "manifest" /\ job.key = at[p].key
  BY DEF InUseIsInstalled
\* The places of commands that the step leaves alone.
<1> DEFINE Same(place) == /\ dirs'[place].gen = dirs[place].gen
                          /\ dirs'[place].owner = dirs[place].owner
<1>7. ASSUME \A p \in Processes : at'[p] # None =>
               \/ \A intent \in intents' :
                    intent.gen = dirs'[Here(at'[p].key)].gen /\ intent.key = at'[p].key =>
                      Identities(intent.owner)
                        \subseteq Identities(dirs'[Here(at'[p].key)].owner)
               \/ job' # None /\ job'.pc = "manifest" /\ job'.key = at'[p].key
      PROVE  InUseIsInstalled'
  BY <1>7 DEF InUseIsInstalled, CoversOwn
<1>8. ASSUME NEW p \in Processes, at'[p] # None, at'[p] = at[p], Same(Here(at[p].key)),
             CoversOwn(dirs[Here(at[p].key)].owner, at[p].key),
             \A intent \in intents' \ intents :
               intent.key # at[p].key \/ intent.gen # dirs[Here(at[p].key)].gen
      PROVE  \A intent \in intents' :
               intent.gen = dirs'[Here(at'[p].key)].gen /\ intent.key = at'[p].key =>
                 Identities(intent.owner) \subseteq Identities(dirs'[Here(at'[p].key)].owner)
  BY <1>8 DEF CoversOwn
<1>9. ASSUME \A p \in Processes : at'[p] # None => at'[p] = at[p],
             intents' \subseteq intents,
             \A p \in Processes : at'[p] # None => Same(Here(at[p].key)),
             \/ job = None \/ job.pc # "manifest" \/ job' = job
             \/ ~IsLeased(job.key)
      PROVE  InUseIsInstalled'
  <2>1. \A p \in Processes : at'[p] # None =>
          \/ CoversOwn(dirs[Here(at[p].key)].owner, at[p].key)
          \/ job' # None /\ job'.pc = "manifest" /\ job'.key = at'[p].key
    BY <1>6, <1>9, FreeKeys
  <2>2. QED BY <1>7, <1>8, <1>9, <2>1
<1>10. ASSUME ~IsLeased(job.key), job # None,
              \A other \in Places : other # Here(job.key) => dirs'[other] = dirs[other]
       PROVE  \A p \in Processes : at[p] # None => Same(Here(at[p].key))
  BY <1>2, <1>3, <1>4, <1>10, FreeKeys
<1>11. ASSUME NEW p \in Processes, NEW root \in Requested,
              NEW kind \in {"resolve", "legacy"}, Begin(p, root, kind)
       PROVE  InUseIsInstalled'
  BY <1>9, <1>11, BeginEffect
<1>12. CASE MakeTarget
  <2>1. /\ job # None /\ job.pc = "target" /\ UNCHANGED intents /\ Elsewhere
        /\ \A other \in Places : other # Here(job.key) => dirs'[other] = dirs[other]
        /\ dirs'[Here(job.key)] = IF Exists(Here(job.key)) THEN dirs[Here(job.key)]
                                  ELSE EmptyDirectory
    BY <1>12, MakeTargetEffect
  <2>2. \A p \in Processes : at[p] # None => Same(Here(at[p].key))
    BY <1>1, <1>2, <2>1
  <2>3. QED BY <1>9, <2>1, <2>2 DEF Elsewhere
<1>13. ASSUME UNCHANGED <<dirs, at>>, intents' \subseteq intents, job.pc # "manifest"
       PROVE  InUseIsInstalled'
  BY <1>9, <1>13
<1>14. CASE ChooseSource
  BY <1>13, <1>14, ChooseSourceEffect DEF Elsewhere
<1>15. CASE PlanMove
  <2>1. job # None /\ job.pc = "plan"
    BY <1>15 DEF PlanMove, At
  <2>2. job.source \in Places /\ Exists(job.source) /\ Exists(Here(job.key))
          /\ job.source # Here(job.key)
    BY <1>1, <2>1 DEF TargetPCs, MovePCs
  <2>3. /\ Elsewhere /\ Issued(job.source)
        /\ \/ UNCHANGED intents
           \/ intents' = intents \cup {[key |-> job.key, gen |-> dirs'[job.source].gen,
                                        owner |-> job'.owner]}
    BY <1>15, <2>2, PlanMoveEffect
  <2>4. InNewBase(job.source) => ~IsLeased(job.source[2])
    BY <2>1 DEF PinInv, MoveInv, MovePCs
  <2>5. \A p \in Processes : at[p] # None =>
          Here(at[p].key) # job.source /\ dirs'[Here(at[p].key)] = dirs[Here(at[p].key)]
    BY <1>2, <2>2, <2>3, <2>4, FreeKeys, PlacesAreTyped DEF Issued
  <2>6. dirs'[job.source].gen # dirs'[Here(job.key)].gen
    <3>1. GenerationsDiffer'
      BY GenerationsStep
    <3>2. /\ dirs'[job.source] # None /\ dirs'[job.source].gen # None
          /\ dirs'[Here(job.key)] # None
      BY <1>3, <2>1, <2>2, <2>3, RecordsAssumption DEF Issued, Exists
    <3>3. QED BY <1>3, <2>1, <2>2, <3>1, <3>2 DEF GenerationsDiffer, Exists
  <2>7. \A p \in Processes : at[p] # None =>
          \A intent \in intents' \ intents :
            intent.key # at[p].key \/ intent.gen # dirs[Here(at[p].key)].gen
    BY <2>3, <2>5, <2>6
  <2>8. \A p \in Processes : at[p] # None =>
          CoversOwn(dirs[Here(at[p].key)].owner, at[p].key)
    BY <1>6, <2>1
  <2>9. QED BY <1>7, <1>8, <2>3, <2>5, <2>7, <2>8 DEF Elsewhere
<1>16. CASE QuarantineTarget
  <2>1. /\ job # None /\ job.pc = "quarantine" /\ Elsewhere /\ UNCHANGED intents
        /\ \A other \in Places : other # Here(job.key) => dirs'[other] = dirs[other]
    BY <1>16, QuarantineTargetEffect
  <2>2. ~IsLeased(job.key)
    BY <2>1 DEF PinInv, MoveInv
  <2>3. \A p \in Processes : at[p] # None => Same(Here(at[p].key))
    BY <1>10, <2>1, <2>2
  <2>4. QED BY <1>9, <2>1, <2>3 DEF Elsewhere
<1>17. CASE RenameSource
  <2>1. job # None /\ job.pc = "rename"
    BY <1>17 DEF RenameSource, At
  <2>2. job.source \in Places /\ job.source # Here(job.key)
    BY <1>1, <2>1 DEF MovePCs
  <2>3. /\ Elsewhere /\ UNCHANGED intents
        /\ \A other \in Places :
             other # Here(job.key) /\ other # job.source => dirs'[other] = dirs[other]
    BY <1>17, <2>2, RenameSourceEffect
  <2>4. /\ ~IsLeased(job.key)
        /\ InNewBase(job.source) => ~IsLeased(job.source[2])
    BY <2>1 DEF PinInv, MoveInv, MovePCs
  <2>5. \A p \in Processes : at[p] # None =>
          Here(at[p].key) # Here(job.key) /\ Here(at[p].key) # job.source
    BY <1>2, <1>3, <1>4, <2>1, <2>2, <2>4, FreeKeys, PlacesAreTyped
  <2>6. \A p \in Processes : at[p] # None => Same(Here(at[p].key))
    BY <1>2, <2>3, <2>5
  <2>7. QED BY <1>9, <2>1, <2>3, <2>6 DEF Elsewhere
<1>18. CASE InstallAfterMove
  <2>1. job # None /\ job.pc = "install"
    BY <1>18 DEF InstallAfterMove, At
  <2>2. Exists(Here(job.key))
    BY <1>1, <2>1 DEF TargetPCs
  <2>3. QED BY <1>13, <1>18, <2>1, <2>2, InstallAfterMoveEffect DEF Installs, Elsewhere
<1>19. CASE WriteIntent
  <2>1. job # None /\ job.pc = "intent"
    BY <1>19 DEF WriteIntent, At
  <2>2. Exists(Here(job.key))
    BY <1>1, <2>1 DEF TargetPCs
  <2>3. /\ SameRequest /\ Issued(Here(job.key)) /\ job'.pc = "manifest" /\ Elsewhere
        /\ intents' = intents \cup {[key |-> job.key, owner |-> job.owner,
                                     gen |-> dirs'[Here(job.key)].gen]}
    BY <1>19, <2>2, WriteIntentEffect
  <2>4. ASSUME NEW p \in Processes, at'[p] # None, at[p].key # job.key
        PROVE  \A intent \in intents' :
                 intent.gen = dirs'[Here(at'[p].key)].gen /\ intent.key = at'[p].key =>
                   Identities(intent.owner) \subseteq Identities(dirs'[Here(at'[p].key)].owner)
    <3>1. at'[p] = at[p] /\ at[p] # None
      BY <2>3, <2>4 DEF Elsewhere
    <3>2. dirs'[Here(at[p].key)] = dirs[Here(at[p].key)]
      BY <1>2, <1>3, <1>4, <2>1, <2>3, <2>4, <3>1 DEF Issued
    <3>3. CoversOwn(dirs[Here(at[p].key)].owner, at[p].key)
      BY <1>6, <2>1, <3>1
    <3>4. QED BY <1>8, <2>3, <2>4, <3>1, <3>2, <3>3
  <2>5. ASSUME NEW p \in Processes, at'[p] # None, at[p].key = job.key
        PROVE  job' # None /\ job'.pc = "manifest" /\ job'.key = at'[p].key
    BY <2>3, <2>5 DEF SameRequest, Elsewhere
  <2>6. QED BY <1>7, <2>4, <2>5
<1>20. CASE WriteManifest
  <2>1. job # None /\ job.pc = "manifest"
    BY <1>20 DEF WriteManifest, At
  <2>2. Exists(Here(job.key)) /\ CoversOwn(job.owner, job.key)
    BY <1>1, <2>1 DEF TargetPCs, RecordingInv, CoveredInv
  <2>3. /\ UNCHANGED intents /\ Elsewhere
        /\ \A other \in Places : other # Here(job.key) => dirs'[other] = dirs[other]
        /\ dirs'[Here(job.key)].owner = job.owner
        /\ dirs'[Here(job.key)].gen = dirs[Here(job.key)].gen
    BY <1>20, <2>2, WriteManifestEffect
  <2>4. ASSUME NEW p \in Processes, at'[p] # None, at[p].key # job.key
        PROVE  \A intent \in intents' :
                 intent.gen = dirs'[Here(at'[p].key)].gen /\ intent.key = at'[p].key =>
                   Identities(intent.owner) \subseteq Identities(dirs'[Here(at'[p].key)].owner)
    <3>1. at'[p] = at[p] /\ at[p] # None
      BY <2>3, <2>4 DEF Elsewhere
    <3>2. dirs'[Here(at[p].key)] = dirs[Here(at[p].key)]
      BY <1>2, <1>3, <1>4, <2>1, <2>3, <2>4, <3>1
    <3>3. CoversOwn(dirs[Here(at[p].key)].owner, at[p].key)
      BY <1>6, <2>4, <3>1
    <3>4. QED BY <1>8, <2>3, <2>4, <3>1, <3>2, <3>3
  <2>5. ASSUME NEW p \in Processes, at'[p] # None, at[p].key = job.key
        PROVE  \A intent \in intents' :
                 intent.gen = dirs'[Here(at'[p].key)].gen /\ intent.key = at'[p].key =>
                   Identities(intent.owner) \subseteq Identities(dirs'[Here(at'[p].key)].owner)
    BY <2>2, <2>3, <2>5 DEF CoversOwn, Elsewhere
  <2>6. QED BY <1>7, <2>4, <2>5
<1>21. CASE CleanUpIntents
  BY <1>13, <1>21, CleanUpIntentsEffect DEF Elsewhere
<1>22. CASE SweepIntents
  BY <1>13, <1>22, SweepIntentsEffect DEF Elsewhere
<1>23. CASE OwnTarget
  <2>1. job # None /\ job.pc = "own"
    BY <1>23 DEF OwnTarget, At
  <2>2. Exists(Here(job.key))
    BY <1>1, <2>1 DEF TargetPCs
  <2>3. QED BY <1>13, <1>23, <2>1, <2>2, OwnTargetEffect DEF Installs, Elsewhere
<1>24. ASSUME Leased, \A place \in Places : Exists(place) => Same(place)
       PROVE  InUseIsInstalled'
  <2>1. /\ job # None /\ job.pc = "lease" /\ UNCHANGED intents
        /\ at'[job.process] # None /\ at'[job.process].key = job.key
        /\ \A p \in Processes : p # job.process => at'[p] = at[p]
    BY <1>24, LeasedEffect
  <2>2. /\ Same(Here(job.key))
        /\ \A intent \in intents :
             ~(intent.gen = dirs[Here(job.key)].gen /\ intent.key = job.key)
    BY <1>1, <1>3, <1>24, <2>1 DEF TargetPCs, RecordingInv, CoveredInv
  <2>3. ASSUME NEW p \in Processes, at'[p] # None, p # job.process
        PROVE  \A intent \in intents' :
                 intent.gen = dirs'[Here(at'[p].key)].gen /\ intent.key = at'[p].key =>
                   Identities(intent.owner) \subseteq Identities(dirs'[Here(at'[p].key)].owner)
    <3>1. at'[p] = at[p] /\ at[p] # None
      BY <2>1, <2>3
    <3>2. Same(Here(at[p].key)) /\ CoversOwn(dirs[Here(at[p].key)].owner, at[p].key)
      BY <1>1, <1>2, <1>6, <1>24, <2>1, <3>1
    <3>3. QED BY <1>8, <2>1, <2>3, <3>1, <3>2
  <2>4. QED BY <1>7, <2>1, <2>2, <2>3
<1>25. CASE TakeLease
  BY <1>24, <1>25 DEF TakeLease
<1>26. CASE TakeLeaseAndRebuildLock
  <2>1. Exists(Here(job.key))
    BY <1>1, <1>26 DEF TakeLeaseAndRebuildLock, Leased, At, TargetPCs
  <2>2. Leased /\ Amends(Here(job.key))
    BY <1>26, <2>1, TakeLeaseAndRebuildLockEffect
  <2>3. QED BY <1>24, <2>2 DEF Amends
<1>27. CASE Fail
  <2>1. UNCHANGED <<dirs, intents, at>> /\ job.pc # "manifest"
    BY <1>27 DEF Fail, At, environment
  <2>2. QED BY <1>13, <2>1
<1>28. ASSUME NEW p \in Processes, Amends(Here(at[p].key)), UNCHANGED <<intents, job, at>>
       PROVE  InUseIsInstalled'
  <2>1. \A place \in Places : Same(place)
    BY <1>28 DEF Amends
  <2>2. QED BY <1>2, <1>9, <1>28, <2>1
<1>29. ASSUME NEW p \in Processes, OpenIndex(p) PROVE InUseIsInstalled'
  BY <1>28, <1>29, OpenIndexEffect DEF Elsewhere
<1>30. ASSUME NEW p \in Processes, PublishIndex(p) PROVE InUseIsInstalled'
  <2>1. Exists(Here(at[p].key))
    BY <1>5, <1>30 DEF PublishIndex
  <2>2. QED BY <1>28, <1>30, <2>1, PublishIndexEffect
<1>31. ASSUME NEW p \in Processes, ClearIndex(p) PROVE InUseIsInstalled'
  <2>1. Exists(Here(at[p].key))
    BY <1>5, <1>31 DEF ClearIndex
  <2>2. QED BY <1>28, <1>31, <2>1, ClearIndexEffect
<1>32. ASSUME NEW p \in Processes, EndCommand(p) PROVE InUseIsInstalled'
  <2>1. /\ UNCHANGED <<dirs, intents, job>> /\ at'[p] = None
        /\ \A q \in Processes : q # p => at'[q] = at[q]
    BY <1>32, EndCommandEffect
  <2>2. QED BY <1>9, <2>1
\* An installation in a directory in use is not cut short.
<1>33. ASSUME job # None, MayStop PROVE job.pc # "manifest" \/ ~IsLeased(job.key)
  BY <1>33 DEF MayStop
<1>34. CASE Kill
  <2>1. /\ job # None /\ MayStop /\ UNCHANGED <<dirs, intents>> /\ at'[job.process] = None
        /\ \A q \in Processes : q # job.process => at'[q] = at[q]
    BY <1>34, KillEffect
  <2>2. QED BY <1>9, <1>33, <2>1
<1>35. CASE FileOperationFails
  <2>1. /\ job # None /\ MayStop /\ UNCHANGED <<intents, at>>
        /\ \/ UNCHANGED dirs
           \/ /\ job.pc = "rename"
              /\ \A other \in Places : other # Here(job.key) => dirs'[other] = dirs[other]
    BY <1>1, <1>35, FileOperationFailsEffect
  <2>2. job.pc = "rename" => ~IsLeased(job.key)
    BY <2>1 DEF PinInv, MoveInv
  <2>3. \A p \in Processes : at[p] # None => Same(Here(at[p].key))
    BY <1>10, <2>1, <2>2
  <2>4. QED BY <1>9, <1>33, <2>1, <2>3
<1>36. ASSUME NEW root \in Roots, Remount(root) PROVE InUseIsInstalled'
  BY <1>9, <1>36, RemountEffect
<1>37. ASSUME NEW key \in Roots, Collect(key) PROVE InUseIsInstalled'
  <2>1. /\ job = None /\ ~IsLeased(key) /\ UNCHANGED <<intents, at>>
        /\ \A other \in Places : other # Here(key) => dirs'[other] = dirs[other]
    BY <1>37, CollectEffect
  <2>2. \A p \in Processes : at[p] # None => Same(Here(at[p].key))
    BY <1>2, <1>4, <2>1, FreeKeys
  <2>3. QED BY <1>9, <2>1, <2>2
<1>38. CASE UNCHANGED vars
  BY <1>9, <1>38 DEF vars
<1>39. QED BY <1>11, <1>12, <1>14, <1>15, <1>16, <1>17, <1>18, <1>19, <1>20,
              <1>21, <1>22, <1>23, <1>25, <1>26, <1>27, <1>29, <1>30, <1>31,
              <1>32, <1>34, <1>35, <1>36, <1>37, <1>38 DEF Next, Resolve

(***************************************************************************)
(* No step but a collection loses history.                                 *)
(***************************************************************************)
\* A root is recorded in a place, now and after the step.
Says(place, root) ==
  \/ dirs[place].owner # None /\ root \in Identities(dirs[place].owner)
  \/ \E intent \in intents : intent.gen = dirs[place].gen /\ root \in Identities(intent.owner)
WillSay(place, root) ==
  \/ dirs'[place].owner # None /\ root \in Identities(dirs'[place].owner)
  \/ \E intent \in intents' : intent.gen = dirs'[place].gen /\ root \in Identities(intent.owner)

LEMMA HistoryPasses ==
  ASSUME NEW place, NEW later, \A root : Says(place, root) => WillSay(later, root)
  PROVE  Recorded(place) \subseteq Recorded(later)'
BY DEF Says, WillSay, Recorded, GenerationIntents

HistoryStays ==
  \A place \in {p \in Places : Exists(p)} :
    LET history == Recorded(place)
    IN  \E later \in {p \in Places : Exists(p)'} : history \subseteq Recorded(later)'

LEMMA HistoryStep ==
  ASSUME TypeOK, PinInv, GenerationsDiffer, RecordingInv, ~CutShortInUse, [Next]_vars
  PROVE  \/ HistoryStays \/ UNCHANGED <<dirs, intents>>
         \/ \E key \in Roots : Collect(key)
<1>1. \A intent \in intents : intent.gen # None /\ intent.gen \in TokensInUse
  BY IntentsHaveMarkers
<1>2. ASSUME \A place \in Places : Exists(place) =>
               \E later \in Places :
                 dirs'[later] # None /\ \A root : Says(place, root) => WillSay(later, root)
      PROVE  HistoryStays
  BY <1>2, HistoryPasses DEF HistoryStays, Exists
\* Mostly every directory stays, with its marker and more in its manifest.
<1>3. ASSUME NEW place \in Places, dirs'[place] # None, intents \subseteq intents',
             dirs'[place].owner = dirs[place].owner,
             dirs[place].gen = None \/ dirs'[place].gen = dirs[place].gen
      PROVE  \A root : Says(place, root) => WillSay(place, root)
  BY <1>1, <1>3 DEF Says, WillSay
<1>4. ASSUME \A place \in Places : Exists(place) =>
               /\ dirs'[place] # None /\ dirs'[place].owner = dirs[place].owner
               /\ dirs[place].gen = None \/ dirs'[place].gen = dirs[place].gen,
             intents \subseteq intents'
      PROVE  HistoryStays
  BY <1>2, <1>3, <1>4
<1>5. CASE Quiet
  BY <1>5 DEF Quiet
<1>6. ASSUME NEW place \in Places, Creates(place) PROVE HistoryStays
  BY <1>4, <1>6 DEF Creates, SameBut, Exists
<1>7. ASSUME NEW place \in Places, Marks(place) PROVE HistoryStays
  BY <1>4, <1>7 DEF Marks, Issued, Exists
<1>8. ASSUME NEW place \in Places, Trashes(place) PROVE HistoryStays
  <2>1. /\ job # None /\ job.pc = "quarantine" /\ place = Here(job.key)
        /\ SameBut(place) /\ UNCHANGED intents
    BY <1>8 DEF Trashes
  <2>2. /\ dirs[place].owner # None =>
             Identities(dirs[place].owner) \subseteq Identities(job.owner)
        /\ CoversAll(job.owner, place)
        /\ \E intent \in intents : intent.gen = dirs[job.source].gen /\ intent.owner = job.owner
    BY <2>1 DEF RecordingInv, CarriedInv
  <2>3. job.source \in Places /\ Exists(job.source) /\ job.source # place
    BY <2>1, WhatIsThere DEF MovePCs
  <2>4. dirs'[job.source] = dirs[job.source] /\ dirs'[job.source] # None
    BY <2>1, <2>3 DEF SameBut, Exists
  <2>5. \A root : Says(place, root) => root \in Identities(job.owner)
    BY <2>2 DEF Says, CoversAll
  <2>6. \A root \in Identities(job.owner) : WillSay(job.source, root)
    BY <2>1, <2>2, <2>4 DEF WillSay
  <2>7. ASSUME NEW other \in Places, Exists(other), other # place
        PROVE  dirs'[other] # None /\ \A root : Says(other, root) => WillSay(other, root)
    <3>1. dirs'[other] = dirs[other] /\ dirs'[other] # None
      BY <2>1, <2>7 DEF SameBut, Exists
    <3>2. QED BY <1>3, <2>1, <3>1
  <2>8. QED BY <1>2, <2>3, <2>4, <2>5, <2>6, <2>7
<1>9. ASSUME NEW source \in Places, NEW place \in Places, Renames(source, place)
      PROVE  HistoryStays
  <2>1. /\ UNCHANGED intents /\ dirs'[place] = dirs[source] /\ ~Exists(place)
        /\ dirs[source] # None
        /\ \A other \in Places : other # place /\ other # source => dirs'[other] = dirs[other]
    BY <1>9 DEF Renames, HasIndex, Exists
  <2>2. \A root : Says(source, root) => WillSay(place, root)
    BY <2>1 DEF Says, WillSay
  <2>3. ASSUME NEW other \in Places, Exists(other), other # source
        PROVE  dirs'[other] # None /\ \A root : Says(other, root) => WillSay(other, root)
    <3>1. dirs'[other] = dirs[other] /\ dirs'[other] # None
      BY <2>1, <2>3 DEF Exists
    <3>2. QED BY <1>3, <2>1, <3>1
  <2>4. QED BY <1>2, <2>1, <2>2, <2>3
<1>10. ASSUME NEW place \in Places, Edits(place) PROVE HistoryStays
  BY <1>4, <1>10 DEF Edits, Amends, Exists
<1>11. ASSUME NEW place \in Places, NEW owner, Writes(place, owner)
       PROVE  HistoryStays
  <2>1. /\ dirs'[place] # None /\ UNCHANGED intents /\ SameBut(place)
        /\ dirs'[place].owner = owner /\ dirs'[place].gen = dirs[place].gen
        /\ owner # None
        /\ dirs[place].owner # None =>
             Identities(dirs[place].owner) \subseteq Identities(owner)
    BY <1>11 DEF Writes
  <2>2. \A root : Says(place, root) => WillSay(place, root)
    BY <2>1 DEF Says, WillSay
  <2>3. ASSUME NEW other \in Places, Exists(other), other # place
        PROVE  dirs'[other] # None /\ \A root : Says(other, root) => WillSay(other, root)
    <3>1. dirs'[other] = dirs[other] /\ dirs'[other] # None
      BY <2>1, <2>3 DEF SameBut, Exists
    <3>2. QED BY <1>3, <2>1, <3>1
  <2>4. QED BY <1>2, <2>1, <2>2, <2>3
<1>12. ASSUME NEW place \in Places, Drops(place) PROVE HistoryStays
  <2>1. /\ Exists(place) /\ UNCHANGED dirs /\ intents' \subseteq intents
        /\ job # None /\ job.pc \in {"cleanup", "sweep"} /\ place = Here(job.key)
        /\ \A intent \in intents \ intents' :
             /\ intent.gen = dirs[place].gen
             /\ Identities(intent.owner) \subseteq Identities(job.owner)
    BY <1>12 DEF Drops
  <2>2. /\ dirs[place].owner # None
        /\ Identities(job.owner) \subseteq Identities(dirs[place].owner)
    BY <2>1 DEF RecordingInv, InstalledFirst, PinInv, OwnerInv
  <2>3. \A root : Says(place, root) => WillSay(place, root)
    BY <2>1, <2>2 DEF Says, WillSay
  <2>4. ASSUME NEW other \in Places, Exists(other), other # place
        PROVE  \A root : Says(other, root) => WillSay(other, root)
    <3>1. \A intent \in intents \ intents' : intent.gen # dirs[other].gen
      BY <1>1, <2>1, <2>4 DEF GenerationsDiffer
    <3>2. QED BY <2>1, <3>1 DEF Says, WillSay
  <2>5. \A other \in Places : Exists(other) => dirs'[other] # None
    BY <2>1 DEF Exists
  <2>6. QED BY <1>2, <2>3, <2>4, <2>5
<1>13. ASSUME NEW place \in Places, PutsBack(place) PROVE HistoryStays
  BY <1>4, <1>13 DEF PutsBack, SameBut, Exists
<1>14. ASSUME NEW key \in Roots, Collects(key) PROVE Collect(key)
  BY <1>14 DEF Collects
<1>15. QED BY StepKinds, <1>5, <1>6, <1>7, <1>8, <1>9, <1>10, <1>11, <1>12, <1>13, <1>14

(***************************************************************************)
(* The initial states.                                                     *)
(***************************************************************************)
LEMMA FirstDirectories ==
  ASSUME NEW root \in Roots
  PROVE  /\ LeftBehind(root) \in Directory
         /\ Sound(LeftBehind(root), root) /\ Sound(Settled(root), root)
         /\ LeftBehind(root).files /\ Settled(root).files
         /\ LeftBehind(root).gen = None
         /\ Settled(root).gen = FirstGenerations[root]
         /\ root \in DOMAIN FirstGenerations => Settled(root) \in Directory
<1>1. [root |-> root, of |-> Project[root]] \in [root : Roots, of : STRING]
  BY RootsAssumption
<1>2. NewOwner(root, root) \in Manifest /\ Identities(NewOwner(root, root)) = {root, root}
  BY OwnersAreNamed
<1>3. root \in DOMAIN FirstGenerations => FirstGenerations[root] \in Tokens
  BY GenerationsAssumption
<1>4. /\ LeftBehind(root) \in Directory /\ LeftBehind(root).files
      /\ LeftBehind(root).owner = None /\ LeftBehind(root).gen = None
      /\ LeftBehind(root).db = [root |-> root, of |-> Project[root]]
  BY <1>1 DEF LeftBehind, EmptyDirectory, Directory
<1>5. /\ root \in DOMAIN FirstGenerations => Settled(root) \in Directory
      /\ Settled(root).files /\ Settled(root).gen = FirstGenerations[root]
      /\ Settled(root).owner = NewOwner(root, root)
      /\ Settled(root).db = [root |-> root, of |-> Project[root]]
  BY <1>1, <1>2, <1>3 DEF Settled, Directory
<1>6. QED BY <1>1, <1>2, <1>4, <1>5 DEF Sound, LeadsTo

LEMMA InitInv == Init => Inv
<1> SUFFICES ASSUME Init PROVE Inv
  OBVIOUS
<1>1. PICK left \in Leftovers :
        dirs = [place \in Places |->
                  IF place \in left THEN LeftBehind(place[2])
                  ELSE IF place[1] = "new" /\ place[2] \in DOMAIN FirstGenerations
                  THEN Settled(place[2]) ELSE None]
  BY DEF Init
<1>2. /\ intents = {} /\ job = None /\ at = [p \in Processes |-> None]
      /\ building = {} /\ canonical = FirstCanonical /\ budget \in Budgets
  BY DEF Init
<1>3. \A place \in Places :
        \/ dirs[place] = None
        \/ dirs[place] = LeftBehind(place[2])
        \/ dirs[place] = Settled(place[2]) /\ place = Here(place[2])
             /\ place[2] \in DOMAIN FirstGenerations
  BY <1>1 DEF Here, Places
<1>4. \A place \in Places : place[2] \in Roots
  BY PlacesAreTyped
<1>5. \A place \in Places : Exists(place) =>
        /\ dirs[place] \in Directory /\ Sound(dirs[place], place[2])
        /\ dirs[place].files
  BY <1>3, <1>4, FirstDirectories DEF Exists
<1>6. dirs \in [Places -> Directory \cup {None}]
  <2>1. \A place \in Places : dirs[place] \in Directory \cup {None}
    BY <1>5 DEF Exists
  <2>2. QED BY <1>1, <2>1
<1>7. TypeOK
  BY <1>2, <1>6, RootsAssumption, BoundsAssumption DEF TypeOK
<1>8. PinInv
  BY <1>2 DEF PinInv, LeasesHold, TargetInv, MoveInv, PinnedInv, OwnerInv
<1>9. ApartInv
  <2>1. CanonicalApart
    BY <1>2, RootsAssumption DEF CanonicalApart
  <2>2. QED BY <1>2, <1>5, <2>1
            DEF ApartInv, DirectoriesApart, IntentsApart, LeasesApart, ResolutionApart
<1>10. HistoryInv
  <2>1. IndexesAreFiles
    BY <1>2, <1>5 DEF IndexesAreFiles, HasIndex
  <2>2. GenerationsDiffer
    <3>1. \A place \in Places : Exists(place) /\ dirs[place].gen # None =>
            /\ place = Here(place[2]) /\ place[2] \in DOMAIN FirstGenerations
            /\ dirs[place].gen = FirstGenerations[place[2]]
      BY <1>3, <1>4, FirstDirectories DEF Exists
    <3>2. \A place, other \in Places :
            Exists(place) /\ Exists(other) /\ dirs[place].gen = dirs[other].gen
              /\ dirs[place].gen # None => place = other
      BY <3>1, GenerationsAssumption
    <3>3. QED BY <1>2, <3>2 DEF GenerationsDiffer
  <2>3. StrayIntents /\ CarriedInv /\ CoveredInv
    BY <1>2 DEF StrayIntents, CarriedInv, CoveredInv
  <2>4. InUseIsInstalled /\ InstalledFirst
    BY <1>2 DEF InUseIsInstalled, InstalledFirst
  <2>5. QED BY <2>1, <2>2, <2>3, <2>4 DEF HistoryInv
<1>11. QED BY <1>7, <1>8, <1>9, <1>10 DEF Inv

(***************************************************************************)
(* Theorems.                                                               *)
(***************************************************************************)
\* Every variable keeps its type, and who holds a rebuild lock has a
\* directory.
THEOREM TypeCorrect == Spec => []TypeOK
<1>1. Init => TypeOK /\ PinInv
  BY InitInv DEF Inv
<1>2. TypeOK /\ PinInv /\ [Next]_vars => TypeOK' /\ PinInv'
  BY TypeStep, PinStep
<1>3. QED BY <1>1, <1>2, PTL DEF Spec

\* No project is given the index of another one: not by a move, by an intent
\* of a killed resolution, by a remount of an alias or by a directory that an
\* older version left.
THEOREM NoProjectGetsAnothersIndex == Spec => []IndexesStayApart
<1>1. Init => TypeOK /\ PinInv /\ ApartInv
  BY InitInv DEF Inv
<1>2. TypeOK /\ PinInv /\ ApartInv /\ [Next]_vars => TypeOK' /\ PinInv' /\ ApartInv'
  BY TypeStep, PinStep, ApartStep
<1>3. TypeOK /\ ApartInv => IndexesStayApart
  BY DEF ApartInv, DirectoriesApart, Sound, LeadsTo, IndexesStayApart, HasIndex
<1>4. QED BY <1>1, <1>2, <1>3, PTL DEF Spec

\* A command resolves to the directory that it has leased for as long as it
\* lives.
THEOREM CommandsKeepTheirDirectory == Spec => []OneDirectoryPerCommand
<1>1. Init => TypeOK /\ PinInv
  BY InitInv DEF Inv
<1>2. TypeOK /\ PinInv /\ [Next]_vars => TypeOK' /\ PinInv'
  BY TypeStep, PinStep
<1>3. PinInv => OneDirectoryPerCommand
  BY DEF PinInv, PinnedInv, OneDirectoryPerCommand, At
<1>4. QED BY <1>1, <1>2, <1>3, PTL DEF Spec

\* No step loses what is known of a project: all roots that a directory is
\* known by, from its manifest or from the intents of its generation, are
\* those of one directory after a move, an installation, a removal of intents
\* and a kill or a failing call between any two of these.  Only the collector
\* removes a directory.  It takes that no installation is cut short in a
\* directory in use.
THEOREM HistorySurvives == Spec => (~CutShortInUse => HistoryIsKept)
<1>1. Init => Inv
  BY InitInv
<1>2. Inv /\ [Next]_vars => Inv'
  BY TypeStep, PinStep, ApartStep, IndexesStep, GenerationsStep, StraysStep,
     RecordingStep, InUseStep DEF Inv, HistoryInv, RecordingInv
<1>3. SUFFICES ASSUME ~CutShortInUse PROVE Spec => HistoryIsKept
  OBVIOUS
<1>4. Inv /\ [Next]_vars =>
        [HistoryStays \/ \E key \in Roots : Collect(key)]_<<dirs, intents>>
  BY <1>3, HistoryStep DEF Inv, HistoryInv, RecordingInv
<1>5. QED BY <1>1, <1>2, <1>4, PTL DEF Spec, HistoryIsKept, HistoryStays

(***************************************************************************)
(* The records that a resolution writes never contradict each other, so    *)
(* that none is refused for them.                                          *)
(***************************************************************************)

(***************************************************************************)
(* The inductive invariant: the records agree.                             *)
(***************************************************************************)
\* An intent names the key that it stands for.
KeysAreNamed == \A intent \in intents : intent.key \in Identities(intent.owner)

\* Does one of these intents stand for a directory, dir, at this place?
HasOwn(some, dir, place) ==
  \E intent \in some : intent.gen = dir.gen /\ place = Here(intent.key)

\* The index and the intents of a directory are those of its owner; and the
\* owner names the key, or, of a directory that was moved, the intent does by
\* which it was moved.
OwnerFits(some, dir, place) ==
  dir.owner # None =>
    /\ IsBounded(dir.owner)
    /\ dir.db # None => dir.db.root \in Identities(dir.owner)
    /\ \/ place[2] \in Identities(dir.owner)
       \/ dir.db # None /\ HasOwn(some, dir, place)
    /\ \A intent \in some :
         intent.gen = dir.gen => Overlaps(dir.owner, intent.owner)

\* A directory without an owner is empty, or an index that an older version
\* left under its own key, or one that was moved: its intents name it all.
UnownedFits(some, dir, place) ==
  dir.owner = None =>
    /\ dir.db # None => dir.db.root = place[2] \/ HasOwn(some, dir, place)
    /\ \A intent \in some : intent.gen = dir.gen =>
         IF dir.db # None THEN dir.db.root \in Identities(intent.owner)
         ELSE place[2] \in Identities(intent.owner)

Fits(some, dir, place) == OwnerFits(some, dir, place) /\ UnownedFits(some, dir, place)

DirectoriesFit ==
  /\ \A place \in Places : Exists(place) => Fits(intents, dirs[place], place)
  /\ job # None /\ job.pc = "rename" => Fits(intents, job.trash, Here(job.key))

\* The steps of a resolution that is for the key of its canonical path, not
\* for a directory that its command has leased already.
OwnKeyPCs == {"target", "choose", "plan", "quarantine", "rename", "install",
              "sweep", "own"}
RequestFits ==
  job # None =>
    /\ job.want.norm = canonical[job.want.raw]
    /\ job.pc # "failed" => IsBounded(job.carried)
    /\ job.pc \in OwnKeyPCs \/ job.next = "sweep"
         => job.key = job.want.norm /\ job.norm = job.want.norm

\* What a source has in common with the request.
IsSource(place) ==
  IF dirs[place].owner = None /\ OwnIntents(place) = {}
  THEN dirs[place].db.root \in Identities(job.want)
  ELSE Known(place) \cap Identities(job.want) # {}
SourceFits == job # None /\ job.pc = "plan" => IsSource(job.source)

\* An owner includes what is known of a directory.
Includes(owner, dir) ==
  /\ dir.owner # None => Identities(dir.owner) \subseteq Identities(owner)
  /\ dir.owner = None /\ dir.db # None => dir.db.root \in Identities(owner)

\* What is going to be recorded includes what the directory has: that of the
\* source until it is moved, then that of the key.
RecordFits ==
  job # None =>
    /\ job.pc \in {"quarantine", "rename"} =>
         /\ Includes(job.owner, dirs[job.source])
         /\ HasOwn(intents, dirs[job.source], Here(job.key))
    /\ job.pc \in {"install", "intent", "manifest"} =>
         Includes(job.owner, dirs[Here(job.key)])
    /\ job.pc \in {"quarantine", "rename", "install", "intent", "manifest"} =>
         /\ IsBounded(job.owner) /\ job.key \in Identities(job.owner)
    /\ job.pc \in {"cleanup", "sweep", "lease"} =>
         job.key \in Identities(dirs[Here(job.key)].owner)

\* What the last installation records includes the whole request.
EndFits ==
  job # None =>
    /\ job.pc \in {"intent", "manifest", "cleanup"} /\ job.next = "lease" =>
         Identities(job.want) \cup {job.norm} \subseteq Identities(job.owner)
    /\ job.pc = "lease" =>
         Identities(job.want) \cup {job.norm}
           \subseteq Identities(dirs[Here(job.key)].owner)

\* The owner of a directory in use names all that its users write into it.
LeasesFit ==
  \A p \in Processes : at[p] # None =>
    LET names == Identities(dirs[Here(at[p].key)].owner)
    IN  /\ at[p].key \in names /\ at[p].norm \in names
        /\ p \in building => canonical[at[p].path] \in names

ResolutionFits == RequestFits /\ SourceFits /\ RecordFits /\ EndFits
FitInv == KeysAreNamed /\ DirectoriesFit /\ ResolutionFits /\ LeasesFit

(***************************************************************************)
(* How a directory and a set of intents fit together.                      *)
(***************************************************************************)
LEMMA FitsMore ==
  ASSUME NEW some, NEW dir, NEW place, NEW new, Fits(some, dir, place),
         new.gen = dir.gen =>
           /\ dir.owner # None => Overlaps(dir.owner, new.owner)
           /\ dir.owner = None =>
                IF dir.db # None THEN dir.db.root \in Identities(new.owner)
                ELSE place[2] \in Identities(new.owner)
  PROVE  Fits(some \cup {new}, dir, place)
<1>1. HasOwn(some, dir, place) => HasOwn(some \cup {new}, dir, place)
  BY DEF HasOwn
<1>2. OwnerFits(some \cup {new}, dir, place)
  BY <1>1 DEF Fits, OwnerFits
<1>3. UnownedFits(some \cup {new}, dir, place)
  BY <1>1 DEF Fits, UnownedFits
<1>4. QED BY <1>2, <1>3 DEF Fits

\* The marker of a directory may be written, if it had none.
LEMMA FitsMarked ==
  ASSUME NEW some, NEW dir, NEW marked, NEW place, Fits(some, dir, place),
         marked.db = dir.db, marked.owner = dir.owner,
         \/ marked.gen = dir.gen
         \/ \A intent \in some : intent.gen # dir.gen /\ intent.gen # marked.gen
  PROVE  Fits(some, marked, place)
<1>1. HasOwn(some, dir, place) => HasOwn(some, marked, place)
  BY DEF HasOwn
<1>2. OwnerFits(some, marked, place)
  BY <1>1 DEF Fits, OwnerFits
<1>3. UnownedFits(some, marked, place)
  BY <1>1 DEF Fits, UnownedFits
<1>4. QED BY <1>2, <1>3 DEF Fits

\* Intents may go that are those of others, or not needed to find the owner.
LEMMA FitsLess ==
  ASSUME NEW some, NEW less, less \subseteq some, NEW dir, NEW place, Fits(some, dir, place),
         \/ dir.owner # None /\ place[2] \in Identities(dir.owner)
         \/ \A intent \in some \ less : intent.gen # dir.gen
  PROVE  Fits(less, dir, place)
<1>1. CASE dir.owner # None /\ place[2] \in Identities(dir.owner)
  BY <1>1 DEF Fits, OwnerFits, UnownedFits
<1>2. CASE \A intent \in some \ less : intent.gen # dir.gen
  <2>1. HasOwn(some, dir, place) => HasOwn(less, dir, place)
    BY <1>2 DEF HasOwn
  <2>2. OwnerFits(less, dir, place)
    BY <2>1 DEF Fits, OwnerFits
  <2>3. UnownedFits(less, dir, place)
    BY <2>1 DEF Fits, UnownedFits
  <2>4. QED BY <2>2, <2>3 DEF Fits
<1>3. QED BY <1>1, <1>2

\* A directory may be used, if its owner names the key and the new index.
LEMMA FitsUsed ==
  ASSUME NEW some, NEW dir, NEW used, NEW place, Fits(some, dir, place),
         used.owner = dir.owner, used.gen = dir.gen, dir.owner # None,
         place[2] \in Identities(dir.owner),
         used.db # None => used.db.root \in Identities(dir.owner)
  PROVE  Fits(some, used, place)
BY DEF Fits, OwnerFits, UnownedFits

\* A larger owner may be installed.
LEMMA FitsOwned ==
  ASSUME NEW some, NEW dir, NEW owned, NEW place, Fits(some, dir, place),
         owned.db = dir.db, owned.gen = dir.gen, owned.owner # None,
         IsBounded(owned.owner), place[2] \in Identities(owned.owner),
         Includes(owned.owner, dir)
  PROVE  Fits(some, owned, place)
<1>1. ASSUME NEW intent \in some, intent.gen = dir.gen
      PROVE  Overlaps(owned.owner, intent.owner)
  <2>1. CASE dir.owner # None
    BY <1>1, <2>1 DEF Fits, OwnerFits, Includes, Overlaps
  <2>2. CASE dir.owner = None
    BY <1>1, <2>2 DEF Fits, UnownedFits, Includes, Overlaps
  <2>3. QED BY <2>1, <2>2
<1>2. owned.db # None => owned.db.root \in Identities(owned.owner)
  BY DEF Fits, OwnerFits, Includes
<1>3. QED BY <1>1, <1>2 DEF Fits, OwnerFits, UnownedFits

\* A directory that fits at its place fits at any that an intent gives it.
LEMMA FitsMoved ==
  ASSUME NEW some, NEW dir, NEW from, NEW to, Fits(some, dir, from),
         dir.db # None, HasOwn(some, dir, to)
  PROVE  Fits(some, dir, to)
BY DEF Fits, OwnerFits, UnownedFits

LEMMA EmptyFits ==
  ASSUME TypeOK, NEW place \in Places
  PROVE  Fits(intents, EmptyDirectory, place)
BY EmptyIsEmpty, IntentsHaveMarkers DEF Fits, OwnerFits, UnownedFits

(***************************************************************************)
(* What is read from records that fit.                                     *)
(***************************************************************************)
LEMMA OwnersAgree ==
  ASSUME TypeOK, NEW place \in Places, Exists(place), Fits(intents, dirs[place], place)
  PROVE  EffectiveOwner(place).error # "conflict"
<1> DEFINE owner == dirs[place].owner
           own   == OwnIntents(place)
           first == (CHOOSE intent \in own : TRUE).owner
           e     == EffectiveOwner(place)
<1>1. e = CASE owner = None /\ own = {} ->
                 [error |-> "none", owner |-> None]
            [] owner = None /\ own # {} ->
                 Owned(MergedIntents(own, first))
            [] owner # None /\ IsSelfConsistent(owner, place[2]) ->
                 Owned(MergedIntents(own, owner))
            [] OTHER ->
                 IF own = {} \/ \E intent \in own : ~Overlaps(owner, intent.owner)
                 THEN Refused("conflict")
                 ELSE Owned(MergedIntents(own, MergedForTarget(owner, first)))
  BY DEF EffectiveOwner
<1>2. owner # None /\ ~IsSelfConsistent(owner, place[2]) =>
        own # {} /\ \A intent \in own : Overlaps(owner, intent.owner)
  BY DEF Fits, OwnerFits, IsSelfConsistent, HasOwn, OwnIntents, GenerationIntents
<1>3. ASSUME NEW o, e = Owned(o) PROVE e.error # "conflict"
  BY <1>3 DEF Owned
<1> HIDE DEF e, own, owner, first
<1>4. e.error # "conflict"
  <2>1. CASE owner = None /\ own = {}
    BY <1>1, <2>1
  <2>2. CASE owner = None /\ own # {}
    BY <1>1, <1>3, <2>2
  <2>3. CASE owner # None /\ IsSelfConsistent(owner, place[2])
    BY <1>1, <1>3, <2>3
  <2>4. CASE owner # None /\ ~IsSelfConsistent(owner, place[2])
    <3>1. e = Owned(MergedIntents(own, MergedForTarget(owner, first)))
      BY <1>1, <1>2, <2>4
    <3>2. QED BY <1>3, <3>1
  <2>5. QED BY <2>1, <2>2, <2>3, <2>4
<1>5. QED BY <1>4 DEF e

\* A directory with any record is known by its key and by its index.
LEMMA RecordedNames ==
  ASSUME TypeOK, KeysAreNamed, NEW place \in Places, Exists(place),
         Fits(intents, dirs[place], place),
         dirs[place].owner # None \/ OwnIntents(place) # {}
  PROVE  /\ place[2] \in Known(place)
         /\ dirs[place].db # None => dirs[place].db.root \in Known(place)
<1>1. ASSUME NEW intent \in OwnIntents(place)
      PROVE  /\ Identities(intent.owner) \subseteq Known(place)
             /\ place[2] \in Identities(intent.owner)
             /\ intent \in intents /\ intent.gen = dirs[place].gen
  <2>1. intent \in intents /\ intent.gen = dirs[place].gen /\ place = Here(intent.key)
    BY DEF OwnIntents, GenerationIntents
  <2>2. place[2] = intent.key
    BY <2>1 DEF Here
  <2>3. QED BY <2>1, <2>2 DEF Known, Named, KeysAreNamed
<1>2. HasOwn(intents, dirs[place], place) => OwnIntents(place) # {}
  BY DEF HasOwn, OwnIntents, GenerationIntents
<1>3. CASE dirs[place].owner # None
  <2>1. Identities(dirs[place].owner) \subseteq Known(place)
    BY <1>3 DEF Known, InManifest
  <2>2. QED BY <1>1, <1>2, <1>3, <2>1 DEF Fits, OwnerFits
<1>4. CASE dirs[place].owner = None
  BY <1>1, <1>4 DEF Fits, UnownedFits
<1>5. QED BY <1>3, <1>4

(***************************************************************************)
(* Intents keep naming their keys.                                         *)
(***************************************************************************)
LEMMA IntentsGrow ==
  ASSUME [Next]_vars
  PROVE  intents' \subseteq intents \/ PlanMove \/ WriteIntent
<1>1. Resolve => intents' \subseteq intents \/ PlanMove \/ WriteIntent
  BY DEF Resolve, MakeTarget, ChooseSource, QuarantineTarget, RenameSource,
         InstallAfterMove, WriteManifest, CleanUpIntents, SweepIntents, OwnTarget,
         TakeLease, TakeLeaseAndRebuildLock, Leased, Fail
<1>2. \A p \in Processes : OpenIndex(p) \/ PublishIndex(p) \/ ClearIndex(p) \/ EndCommand(p)
        => UNCHANGED intents
  BY DEF OpenIndex, PublishIndex, ClearIndex, EndCommand
<1>3. \A p \in Processes, root \in Requested, kind \in {"resolve", "legacy"} :
        Begin(p, root, kind) => UNCHANGED intents
  BY DEF Begin
<1>4. Kill \/ FileOperationFails => UNCHANGED intents
  BY DEF Kill, FileOperationFails
<1>5. \A root \in Roots : Remount(root) \/ Collect(root) => UNCHANGED intents
  BY DEF Remount, Collect
<1>6. UNCHANGED vars => UNCHANGED intents
  BY DEF vars
<1>7. QED BY <1>1, <1>2, <1>3, <1>4, <1>5, <1>6 DEF Next

\* What a resolution works on, put together.
LEMMA RequestIsKnown ==
  ASSUME Inv, FitInv, job # None
  PROVE  /\ job.want \in Manifest /\ job.carried \in Manifest /\ job.owner \in Manifest
         /\ job.key \in Roots /\ Here(job.key) \in Places
         /\ job.want.norm \in Identities(job.want) /\ job.want.raw \in Identities(job.want)
         /\ Identities(job.want) \subseteq Identities(job.carried)
         /\ job.pc \in OwnKeyPCs => /\ job.key = job.want.norm
                                    /\ job.key \in Identities(job.want)
                                    /\ job.key \in Identities(job.carried)
<1>1. TypeOK /\ PinnedInv /\ RequestFits
  BY DEF Inv, PinInv, FitInv, ResolutionFits
<1>2. /\ job.want \in Manifest /\ job.carried \in Manifest /\ job.owner \in Manifest
      /\ job.key \in Roots /\ Here(job.key) \in Places
  BY <1>1, JobsAreTyped
<1>3. job.want.norm \in Identities(job.want) /\ job.want.raw \in Identities(job.want)
  BY DEF Identities
<1>4. Identities(job.want) \subseteq Identities(job.carried)
  BY <1>1 DEF PinnedInv
<1>5. job.pc \in OwnKeyPCs => job.key = job.want.norm
  BY <1>1 DEF RequestFits
<1>6. QED BY <1>2, <1>3, <1>4, <1>5

LEMMA PlacesAreThere ==
  ASSUME Inv
  PROVE  /\ job # None /\ job.pc \in TargetPCs => Exists(Here(job.key))
         /\ job # None /\ job.pc \in MovePCs =>
              /\ job.source \in Places /\ Exists(job.source) /\ dirs[job.source].db # None
              /\ job.source # Here(job.key)
         /\ job # None /\ job.pc = "rename" => job.trash # None
         /\ \A p \in Processes : at[p] # None => Exists(Here(at[p].key))
BY WhatIsThere DEF Inv, HasIndex

\* The record of a move includes all that is known of the source.
LEMMA PlanIncludes ==
  ASSUME Inv, FitInv, PlanMove, job'.pc # "failed"
  PROVE  /\ job'.pc = "quarantine"
         /\ Known(job.source) \subseteq Identities(job'.owner)
         /\ job.key \in Identities(job'.owner)
         /\ Includes(job'.owner, dirs[job.source])
         /\ intents' = intents \cup {[key |-> job.key, gen |-> dirs'[job.source].gen,
                                      owner |-> job'.owner]}
<1>1. job # None /\ job.pc = "plan"
  BY DEF PlanMove, At
<1>2. /\ job.source \in Places /\ Exists(job.source) /\ Exists(Here(job.key))
      /\ dirs[job.source].db # None
  BY <1>1, PlacesAreThere DEF TargetPCs, MovePCs
<1>3. /\ TypeOK /\ KeysAreNamed /\ IsSource(job.source)
      /\ Fits(intents, dirs[job.source], job.source)
  BY <1>1, <1>2 DEF Inv, FitInv, ResolutionFits, SourceFits, DirectoriesFit
<1>4. /\ job'.pc = "quarantine"
      /\ intents' = intents \cup {[key |-> job.key, gen |-> dirs'[job.source].gen,
                                   owner |-> job'.owner]}
      /\ \E authorized \in Manifest :
           /\ authorized = job.want \/ Identities(authorized) = Known(job.source)
           /\ Known(job.source) \subseteq Identities(authorized)
           /\ Identities(job'.owner)
                = Identities(authorized) \cup Identities(job.carried)
                    \cup Named(GenerationIntents(job.source))
                    \cup InManifest(Here(job.key))
  BY <1>2, <1>3, PlanMoveEffect
<1>5. /\ Known(job.source) \subseteq Identities(job'.owner)
      /\ Identities(job.carried) \subseteq Identities(job'.owner)
  BY <1>4
<1>6. /\ job.key \in Identities(job.carried)
      /\ Identities(job.want) \subseteq Identities(job.carried)
  BY <1>1, RequestIsKnown DEF OwnKeyPCs
<1>7. dirs[job.source].db.root \in Identities(job'.owner)
  <2>1. CASE dirs[job.source].owner = None /\ OwnIntents(job.source) = {}
    BY <1>3, <1>5, <1>6, <2>1 DEF IsSource
  <2>2. CASE dirs[job.source].owner # None \/ OwnIntents(job.source) # {}
    BY <1>2, <1>3, <1>5, <2>2, RecordedNames
  <2>3. QED BY <2>1, <2>2
<1>8. Includes(job'.owner, dirs[job.source])
  BY <1>5, <1>7 DEF Includes, Known, InManifest
<1>9. QED BY <1>4, <1>5, <1>6, <1>8

LEMMA KeysStep ==
  ASSUME Inv, FitInv, [Next]_vars
  PROVE  KeysAreNamed'
<1>1. KeysAreNamed /\ TypeOK
  BY DEF FitInv, Inv
<1>2. CASE intents' \subseteq intents
  BY <1>1, <1>2 DEF KeysAreNamed
<1>3. ASSUME NEW new, intents' = intents \cup {new}, new.key \in Identities(new.owner)
      PROVE  KeysAreNamed'
  BY <1>1, <1>3 DEF KeysAreNamed
<1>4. CASE PlanMove
  <2>1. CASE job'.pc # "failed"
    <3> DEFINE new == [key |-> job.key, gen |-> dirs'[job.source].gen, owner |-> job'.owner]
    <3>1. intents' = intents \cup {new} /\ job.key \in Identities(job'.owner)
      BY <1>4, <2>1, PlanIncludes
    <3>2. new.key = job.key /\ new.owner = job'.owner
      OBVIOUS
    <3> HIDE DEF new
    <3>3. PICK n : n = new
      OBVIOUS
    <3>4. intents' = intents \cup {n} /\ n.key \in Identities(n.owner)
      BY <3>1, <3>2, <3>3
    <3>5. QED BY <1>3, <3>4
  <2>2. CASE job'.pc = "failed"
    <3>1. job # None /\ job.pc = "plan"
      BY <1>4 DEF PlanMove, At
    <3>2. job.source \in Places /\ Exists(job.source) /\ Exists(Here(job.key))
      BY <3>1, PlacesAreThere DEF TargetPCs, MovePCs
    <3>3. UNCHANGED intents
      BY <1>1, <1>4, <2>2, <3>2, PlanMoveEffect
    <3>4. QED BY <1>2, <3>3
  <2>3. QED BY <2>1, <2>2
<1>5. CASE WriteIntent
  <2>1. job # None /\ job.pc = "intent"
    BY <1>5 DEF WriteIntent, At
  <2>2. job.key \in Identities(job.owner)
    BY <2>1 DEF FitInv, ResolutionFits, RecordFits
  <2> DEFINE new == [key |-> job.key, owner |-> job.owner,
                     gen |-> dirs'[Here(job.key)].gen]
  <2>3. intents' = intents \cup {new} /\ new.key = job.key /\ new.owner = job.owner
    BY <1>5 DEF WriteIntent
  <2> HIDE DEF new
  <2>4. PICK n : n = new
    OBVIOUS
  <2>5. intents' = intents \cup {n} /\ n.key \in Identities(n.owner)
    BY <2>2, <2>3, <2>4
  <2>6. QED BY <1>3, <2>5
<1>6. QED BY <1>2, <1>4, <1>5, IntentsGrow

(***************************************************************************)
(* Directories keep fitting.                                               *)
(***************************************************************************)
LEMMA FitFrame ==
  ASSUME DirectoriesFit, UNCHANGED <<dirs, intents>>,
         job' # None => job' = job \/ job'.pc # "rename"
  PROVE  DirectoriesFit'
BY DEF DirectoriesFit, Exists

\* One directory changes, or none.
LEMMA FitChange ==
  ASSUME DirectoriesFit, UNCHANGED intents, NEW place \in Places,
         \A other \in Places : other # place => dirs'[other] = dirs[other],
         dirs'[place] # None => Fits(intents, dirs'[place], place),
         job' # None => job' = job \/ job'.pc # "rename"
  PROVE  DirectoriesFit'
BY DEF DirectoriesFit, Exists

\* A directory gets a marker and an intent that names it.
LEMMA FitMarks ==
  ASSUME TypeOK, GenerationsDiffer, DirectoriesFit, NEW place \in Places, Exists(place),
         Issued(place), NEW new, new.gen = dirs'[place].gen,
         intents' = intents \/ intents' = intents \cup {new},
         intents' # intents =>
           /\ dirs[place].owner # None => Overlaps(dirs[place].owner, new.owner)
           /\ dirs[place].owner = None =>
                IF dirs[place].db # None THEN dirs[place].db.root \in Identities(new.owner)
                ELSE place[2] \in Identities(new.owner),
         job' # None, job'.pc # "rename"
  PROVE  DirectoriesFit'
<1>1. \A intent \in intents : intent.gen # None /\ intent.gen \in TokensInUse
  BY IntentsHaveMarkers
<1>2. ASSUME NEW other \in Places, dirs'[other] # None, NEW dir, dir = dirs'[other],
             NEW later, later = intents'
      PROVE  Fits(later, dir, other)
  <2>1. CASE other = place
    <3>1. /\ dir.db = dirs[place].db /\ dir.owner = dirs[place].owner
          /\ \/ dir.gen = dirs[place].gen
             \/ dirs[place].gen = None /\ dir.gen \notin TokensInUse
      BY <1>2, <2>1 DEF Issued
    <3>2. Fits(intents, dirs[place], place)
      BY DEF DirectoriesFit
    <3>3. \/ dir.gen = dirs[place].gen
          \/ \A intent \in intents : intent.gen # dirs[place].gen /\ intent.gen # dir.gen
      BY <1>1, <3>1
    <3>4. Fits(intents, dir, place)
      BY <3>1, <3>2, <3>3, FitsMarked
    <3>5. CASE later = intents
      BY <2>1, <3>4, <3>5
    <3>6. CASE later # intents
      <4>1. later = intents \cup {new}
        BY <1>2, <3>6
      <4>2. /\ dir.owner # None => Overlaps(dir.owner, new.owner)
            /\ dir.owner = None =>
                 IF dir.db # None THEN dir.db.root \in Identities(new.owner)
                 ELSE place[2] \in Identities(new.owner)
        BY <1>2, <3>1, <3>6
      <4>3. Fits(intents \cup {new}, dir, place)
        BY <3>4, <4>2, FitsMore
      <4>4. QED BY <2>1, <4>1, <4>3
    <3>7. QED BY <3>5, <3>6
  <2>2. CASE other # place
    <3>1. dir = dirs[other] /\ Exists(other)
      BY <1>2, <2>2 DEF Issued, Exists
    <3>2. Fits(intents, dir, other)
      BY <3>1 DEF DirectoriesFit
    <3>3. new.gen # dir.gen
      <4>1. CASE dirs[place].gen # None
        BY <2>2, <3>1, <4>1 DEF GenerationsDiffer, Issued
      <4>2. CASE dirs[place].gen = None
        BY <3>1, <4>2 DEF Issued, TokensInUse
      <4>3. QED BY <4>1, <4>2
    <3>4. CASE later = intents
      BY <3>2, <3>4
    <3>5. CASE later = intents \cup {new}
      <4>1. Fits(intents \cup {new}, dir, other)
        BY <3>2, <3>3, FitsMore
      <4>2. QED BY <3>5, <4>1
    <3>6. QED BY <1>2, <3>4, <3>5
  <2>3. QED BY <2>1, <2>2
<1>3. \A other \in Places : dirs'[other] # None => Fits(intents', dirs'[other], other)
  BY <1>2
<1>4. QED BY <1>3 DEF DirectoriesFit, Exists

\* Intents go that are those of a directory which is known by its owner.
LEMMA FitDrops ==
  ASSUME TypeOK, GenerationsDiffer, DirectoriesFit, NEW place \in Places, Exists(place),
         UNCHANGED dirs, dirs[place].owner # None,
         place[2] \in Identities(dirs[place].owner),
         intents' \subseteq intents,
         \A intent \in intents \ intents' : intent.gen = dirs[place].gen,
         job' # None => job'.pc # "rename"
  PROVE  DirectoriesFit'
<1>1. ASSUME NEW other \in Places, Exists(other), NEW later, later = intents'
      PROVE  Fits(later, dirs[other], other)
  <2>1. Fits(intents, dirs[other], other)
    BY <1>1 DEF DirectoriesFit
  <2>2. later \subseteq intents /\ \A intent \in intents \ later : intent.gen = dirs[place].gen
    BY <1>1
  <2>3. CASE other = place
    BY <2>1, <2>2, <2>3, FitsLess
  <2>4. CASE other # place
    <3>1. \A intent \in intents \ later : intent.gen # dirs[other].gen
      BY <1>1, <2>2, <2>4, IntentsHaveMarkers DEF GenerationsDiffer
    <3>2. QED BY <2>1, <2>2, <3>1, FitsLess
  <2>5. QED BY <2>3, <2>4
<1>2. \A other \in Places : Exists(other) => Fits(intents', dirs[other], other)
  BY <1>1
<1>3. QED BY <1>2 DEF DirectoriesFit, Exists

\* What a leased directory is.
LEMMA LeasedDirectories ==
  ASSUME Inv, FitInv, NEW p \in Processes, at[p] # None
  PROVE  LET place == Here(at[p].key)
         IN  /\ place \in Places /\ Exists(place) /\ Fits(intents, dirs[place], place)
             /\ place[2] = at[p].key
             /\ dirs[place].owner # None
             /\ at[p].key \in Identities(dirs[place].owner)
             /\ at[p].norm \in Identities(dirs[place].owner)
             /\ p \in building => canonical[at[p].path] \in Identities(dirs[place].owner)
<1>1. /\ TypeOK /\ LeasesHold /\ LeasesFit /\ DirectoriesFit
  BY DEF Inv, PinInv, FitInv
<1>2. at[p].key \in Roots /\ Here(at[p].key) \in Places /\ Here(at[p].key)[2] = at[p].key
  BY <1>1, LeasedPlaces, PlacesAreTyped
<1>3. Exists(Here(at[p].key)) /\ dirs[Here(at[p].key)].owner # None
  BY <1>1 DEF LeasesHold
<1>4. Fits(intents, dirs[Here(at[p].key)], Here(at[p].key))
  BY <1>1, <1>2, <1>3 DEF DirectoriesFit
<1>5. QED BY <1>1, <1>2, <1>3, <1>4 DEF LeasesFit

LEMMA DirectoriesStep ==
  ASSUME Inv, FitInv, [Next]_vars
  PROVE  DirectoriesFit'
<1>1. /\ TypeOK /\ GenerationsDiffer /\ DirectoriesFit /\ RecordFits /\ OwnerInv
      /\ MoveInv /\ KeysAreNamed /\ SourceFits
  BY DEF Inv, PinInv, HistoryInv, FitInv, ResolutionFits
<1>2. /\ job # None /\ job.pc \in TargetPCs => Exists(Here(job.key))
      /\ job # None /\ job.pc \in MovePCs =>
           /\ job.source \in Places /\ Exists(job.source) /\ dirs[job.source].db # None
           /\ job.source # Here(job.key)
      /\ job # None /\ job.pc = "rename" => job.trash # None
      /\ \A p \in Processes : at[p] # None => Exists(Here(at[p].key))
  BY PlacesAreThere
<1>3. /\ job # None => /\ job.key \in Roots /\ Here(job.key) \in Places
                       /\ Here(job.key)[2] = job.key
  BY <1>1, JobsAreTyped, PlacesAreTyped
<1>4. building \subseteq {p \in Processes : at[p] # None}
  BY <1>1 DEF TypeOK
<1>5. CASE MakeTarget
  <2>1. /\ job # None /\ job'.pc = "choose" /\ UNCHANGED intents
        /\ \A other \in Places : other # Here(job.key) => dirs'[other] = dirs[other]
        /\ dirs'[Here(job.key)] = IF Exists(Here(job.key)) THEN dirs[Here(job.key)]
                                  ELSE EmptyDirectory
    BY <1>1, <1>5, MakeTargetEffect
  <2>2. dirs'[Here(job.key)] # None => Fits(intents, dirs'[Here(job.key)], Here(job.key))
    BY <1>1, <1>3, <2>1, EmptyFits DEF DirectoriesFit
  <2>3. QED BY <1>1, <1>3, <2>1, <2>2, FitChange
<1>6. CASE ChooseSource
  <2>1. UNCHANGED <<dirs, intents>> /\ job'.pc # "rename"
    BY <1>1, <1>6, ChooseSourceEffect
  <2>2. QED BY <1>1, <2>1, FitFrame
<1>7. CASE PlanMove
  <2> DEFINE new == [key |-> job.key, gen |-> dirs'[job.source].gen, owner |-> job'.owner]
  <2>1. job # None /\ job.pc = "plan"
    BY <1>7 DEF PlanMove, At
  <2>2. /\ job.source \in Places /\ Exists(job.source) /\ Exists(Here(job.key))
        /\ dirs[job.source].db # None /\ Fits(intents, dirs[job.source], job.source)
    BY <1>1, <1>2, <2>1 DEF TargetPCs, MovePCs, DirectoriesFit
  <2>3. /\ Issued(job.source) /\ job' # None
        /\ \/ job'.pc = "failed" /\ UNCHANGED intents
           \/ job'.pc = "quarantine"
    BY <1>1, <1>7, <2>2, PlanMoveEffect DEF SameRequest
  <2>4. job'.pc # "failed" =>
          intents' = intents \cup {new} /\ Includes(job'.owner, dirs[job.source])
    BY <1>7, PlanIncludes
  <2>5. new.gen = dirs'[job.source].gen /\ new.owner = job'.owner
    OBVIOUS
  <2> HIDE DEF new
  <2>6. PICK n : n = new
    OBVIOUS
  <2>7. intents' = intents \/ intents' = intents \cup {n}
    BY <2>3, <2>4, <2>6
  <2>8. intents' # intents =>
          /\ dirs[job.source].owner # None => Overlaps(dirs[job.source].owner, n.owner)
          /\ dirs[job.source].owner = None =>
               dirs[job.source].db.root \in Identities(n.owner)
    <3>1. SUFFICES ASSUME intents' # intents
                   PROVE  /\ dirs[job.source].owner # None =>
                               Overlaps(dirs[job.source].owner, n.owner)
                          /\ dirs[job.source].owner = None =>
                               dirs[job.source].db.root \in Identities(n.owner)
      OBVIOUS
    <3>2. Includes(n.owner, dirs[job.source])
      BY <2>3, <2>4, <2>5, <2>6, <3>1
    <3>3. QED BY <2>2, <3>2 DEF Includes, Overlaps, Identities
  <2>9. n.gen = dirs'[job.source].gen
    BY <2>5, <2>6
  <2>10. QED BY <1>1, <2>2, <2>3, <2>7, <2>8, <2>9, FitMarks
<1>8. CASE QuarantineTarget
  <2>1. /\ job # None /\ job.pc = "quarantine" /\ job' # None /\ job'.key = job.key
        /\ job'.trash = dirs[Here(job.key)]
        /\ UNCHANGED intents /\ dirs'[Here(job.key)] = None
        /\ \A other \in Places : other # Here(job.key) => dirs'[other] = dirs[other]
    BY <1>1, <1>8, QuarantineTargetEffect DEF SameRequest
  <2>2. Fits(intents, dirs[Here(job.key)], Here(job.key))
    BY <1>1, <1>2, <1>3, <2>1 DEF DirectoriesFit, TargetPCs
  <2>3. QED BY <1>1, <2>1, <2>2 DEF DirectoriesFit, Exists
<1>9. CASE RenameSource
  <2>1. job # None /\ job.pc = "rename"
    BY <1>9 DEF RenameSource, At
  <2>2. /\ job.source \in Places /\ Exists(job.source) /\ dirs[job.source].db # None
        /\ job.source # Here(job.key)
    BY <1>2, <2>1 DEF MovePCs
  <2>3. /\ UNCHANGED intents /\ job'.pc # "rename"
        /\ dirs'[Here(job.key)] = dirs[job.source] /\ dirs'[job.source] = None
        /\ \A other \in Places :
             other # Here(job.key) /\ other # job.source => dirs'[other] = dirs[other]
    BY <1>1, <1>9, <2>2, RenameSourceEffect
  <2>4. /\ Fits(intents, dirs[job.source], job.source)
        /\ HasOwn(intents, dirs[job.source], Here(job.key))
    BY <1>1, <2>1, <2>2 DEF DirectoriesFit, RecordFits
  <2>5. Fits(intents, dirs[job.source], Here(job.key))
    BY <2>2, <2>4, FitsMoved
  <2>6. QED BY <1>1, <2>3, <2>5 DEF DirectoriesFit, Exists
<1>10. CASE InstallAfterMove
  <2>1. Exists(Here(job.key))
    BY <1>2, <1>10 DEF InstallAfterMove, At, TargetPCs
  <2>2. UNCHANGED <<dirs, intents>> /\ job'.pc # "rename"
    BY <1>1, <1>10, <2>1, InstallAfterMoveEffect DEF Installs
  <2>3. QED BY <1>1, <2>2, FitFrame
<1>11. CASE OwnTarget
  <2>1. Exists(Here(job.key))
    BY <1>2, <1>11 DEF OwnTarget, At, TargetPCs
  <2>2. UNCHANGED <<dirs, intents>> /\ job'.pc # "rename"
    BY <1>1, <1>11, <2>1, OwnTargetEffect DEF Installs
  <2>3. QED BY <1>1, <2>2, FitFrame
<1>12. CASE WriteIntent
  <2> DEFINE here == Here(job.key)
             new  == [key |-> job.key, owner |-> job.owner, gen |-> dirs'[here].gen]
  <2>1. job # None /\ job.pc = "intent"
    BY <1>12 DEF WriteIntent, At
  <2>2. Exists(here) /\ here \in Places /\ here[2] = job.key
    BY <1>2, <1>3, <2>1 DEF TargetPCs
  <2>3. /\ job'.pc = "manifest" /\ job' # None /\ Issued(here)
        /\ intents' = intents \cup {new}
    BY <1>1, <1>12, <2>2, WriteIntentEffect DEF SameRequest
  <2>4. Includes(job.owner, dirs[here]) /\ job.key \in Identities(job.owner)
    BY <1>1, <2>1 DEF RecordFits
  <2>5. new.gen = dirs'[here].gen /\ new.owner = job.owner
    OBVIOUS
  <2> HIDE DEF new, here
  <2>6. PICK n : n = new
    OBVIOUS
  <2>7. /\ dirs[here].owner # None => Overlaps(dirs[here].owner, n.owner)
        /\ dirs[here].owner = None =>
             IF dirs[here].db # None THEN dirs[here].db.root \in Identities(n.owner)
             ELSE here[2] \in Identities(n.owner)
    <3>1. dirs[here].owner # None => Overlaps(dirs[here].owner, job.owner)
      BY <2>4 DEF Includes, Overlaps, Identities
    <3>2. QED BY <2>2, <2>4, <2>5, <2>6, <3>1 DEF Includes
  <2>8. intents' = intents \cup {n} /\ n.gen = dirs'[here].gen /\ job'.pc # "rename"
    BY <2>3, <2>5, <2>6
  <2>9. QED BY <1>1, <2>2, <2>3, <2>7, <2>8, FitMarks
<1>13. CASE WriteManifest
  <2> DEFINE here == Here(job.key)
  <2>1. job # None /\ job.pc = "manifest" /\ job.owner # None
    BY <1>1, <1>13, JobsAreTyped, RecordsAssumption DEF WriteManifest, At
  <2>2. Exists(here) /\ here \in Places /\ here[2] = job.key
    BY <1>2, <1>3, <2>1 DEF TargetPCs
  <2>3. /\ UNCHANGED intents /\ job'.pc # "rename"
        /\ \A other \in Places : other # here => dirs'[other] = dirs[other]
        /\ dirs'[here].owner = job.owner
        /\ dirs'[here].db = dirs[here].db /\ dirs'[here].gen = dirs[here].gen
    BY <1>1, <1>13, <2>2, WriteManifestEffect
  <2>4. /\ Includes(job.owner, dirs[here]) /\ IsBounded(job.owner)
        /\ job.key \in Identities(job.owner)
    BY <1>1, <2>1 DEF RecordFits
  <2>5. Fits(intents, dirs[here], here)
    BY <1>1, <2>2 DEF DirectoriesFit
  <2> HIDE DEF here
  <2>6. PICK owned : owned = dirs'[here]
    OBVIOUS
  <2>7. Fits(intents, owned, here)
    <3>1. /\ owned.owner = job.owner /\ owned.db = dirs[here].db
          /\ owned.gen = dirs[here].gen
      BY <2>3, <2>6
    <3>2. QED BY <2>1, <2>2, <2>4, <2>5, <3>1, FitsOwned
  <2>8. QED BY <1>1, <2>2, <2>3, <2>6, <2>7, FitChange
<1>14. ASSUME job # None, job.pc \in {"cleanup", "sweep"}, UNCHANGED dirs,
              intents' \subseteq intents, job'.pc # "rename",
              \A intent \in intents \ intents' : intent.gen = dirs[Here(job.key)].gen
       PROVE  DirectoriesFit'
  <2>1. Exists(Here(job.key)) /\ Here(job.key) \in Places /\ Here(job.key)[2] = job.key
    BY <1>2, <1>3, <1>14 DEF TargetPCs
  <2>2. /\ dirs[Here(job.key)].owner # None
        /\ job.key \in Identities(dirs[Here(job.key)].owner)
    BY <1>1, <1>14 DEF OwnerInv, RecordFits
  <2>3. QED BY <1>1, <1>14, <2>1, <2>2, FitDrops
<1>15. CASE CleanUpIntents
  <2>1. /\ job # None /\ job.pc = "cleanup" /\ job'.pc = job.next /\ UNCHANGED dirs
        /\ intents' = intents \ Covered(OwnIntents(Here(job.key)))
        /\ job.next \in {"lease", "sweep"}
    BY <1>1, <1>15, CleanUpIntentsEffect, JobsAreTyped
  <2>2. \A intent \in intents \ intents' : intent.gen = dirs[Here(job.key)].gen
    BY <2>1 DEF Covered, OwnIntents, GenerationIntents
  <2>3. QED BY <1>14, <2>1, <2>2
<1>16. CASE SweepIntents
  <2>1. /\ job # None /\ job.pc = "sweep" /\ job'.pc = "own" /\ UNCHANGED dirs
        /\ intents' = intents \ Covered(GenerationIntents(Here(job.key)))
    BY <1>1, <1>16, SweepIntentsEffect
  <2>2. \A intent \in intents \ intents' : intent.gen = dirs[Here(job.key)].gen
    BY <2>1 DEF Covered, GenerationIntents
  <2>3. QED BY <1>14, <2>1, <2>2
<1>17. CASE TakeLease
  <2>1. UNCHANGED <<dirs, intents>> /\ job' = None
    BY <1>17 DEF TakeLease, Leased
  <2>2. QED BY <1>1, <2>1, FitFrame
\* The index or a file changes in a directory that is owned.
<1>18. ASSUME NEW place \in Places, Exists(place), Amends(place), UNCHANGED intents,
              dirs[place].owner # None, place[2] \in Identities(dirs[place].owner),
              dirs'[place].db # None =>
                dirs'[place].db.root \in Identities(dirs[place].owner),
              job' # None => job' = job
       PROVE  DirectoriesFit'
  <2>1. PICK used : used = dirs'[place]
    OBVIOUS
  <2>2. Fits(intents, dirs[place], place)
    BY <1>1, <1>18 DEF DirectoriesFit
  <2>3. /\ used.owner = dirs[place].owner /\ used.gen = dirs[place].gen
        /\ used.db # None => used.db.root \in Identities(dirs[place].owner)
    BY <1>18, <2>1 DEF Amends
  <2>4. Fits(intents, used, place)
    BY <1>18, <2>2, <2>3, FitsUsed
  <2>5. \A other \in Places : other # place => dirs'[other] = dirs[other]
    BY <1>18 DEF Amends
  <2>6. QED BY <1>1, <1>18, <2>1, <2>4, <2>5, FitChange
<1>19. CASE TakeLeaseAndRebuildLock
  <2>1. job # None /\ job.pc = "lease"
    BY <1>19 DEF TakeLeaseAndRebuildLock, Leased, At
  <2> DEFINE here == Here(job.key)
  <2>2. Exists(here) /\ here \in Places /\ here[2] = job.key
    BY <1>2, <1>3, <2>1 DEF TargetPCs
  <2>3. /\ dirs[here].owner # None /\ job.key \in Identities(dirs[here].owner)
        /\ Fits(intents, dirs[here], here)
    BY <1>1, <2>1, <2>2 DEF OwnerInv, RecordFits, DirectoriesFit
  <2>4. /\ Amends(here) /\ UNCHANGED intents /\ job' = None
        /\ dirs'[here].db = dirs[here].db
    BY <1>1, <1>19, <2>2, TakeLeaseAndRebuildLockEffect DEF Leased
  <2>5. dirs'[here].db # None => dirs'[here].db.root \in Identities(dirs[here].owner)
    BY <2>3, <2>4 DEF Fits, OwnerFits
  <2> HIDE DEF here
  <2>6. QED BY <1>18, <2>2, <2>3, <2>4, <2>5
<1>20. CASE Fail
  <2>1. UNCHANGED <<dirs, intents>> /\ job' = None
    BY <1>20 DEF Fail
  <2>2. QED BY <1>1, <2>1, FitFrame
<1>21. ASSUME NEW p \in Processes, OpenIndex(p) PROVE DirectoriesFit'
  <2> DEFINE place == Here(at[p].key)
  <2>1. /\ at[p] # None /\ Exists(place) /\ Amends(place) /\ UNCHANGED <<intents, job>>
        /\ dirs'[place].db.root = at[p].norm
    BY <1>1, <1>21, OpenIndexEffect
  <2>2. /\ place \in Places /\ dirs[place].owner # None
        /\ place[2] \in Identities(dirs[place].owner)
        /\ at[p].norm \in Identities(dirs[place].owner)
    BY <2>1, LeasedDirectories
  <2> HIDE DEF place
  <2>3. QED BY <1>18, <2>1, <2>2
<1>22. ASSUME NEW p \in Processes, PublishIndex(p) PROVE DirectoriesFit'
  <2> DEFINE place == Here(at[p].key)
  <2>1. p \in building /\ at[p] # None /\ Exists(place)
    BY <1>2, <1>4, <1>22 DEF PublishIndex
  <2>2. /\ Amends(place) /\ UNCHANGED <<intents, job>>
        /\ dirs'[place].db.root = canonical[at[p].path]
    BY <1>1, <1>22, <2>1, PublishIndexEffect
  <2>3. /\ place \in Places /\ dirs[place].owner # None
        /\ place[2] \in Identities(dirs[place].owner)
        /\ canonical[at[p].path] \in Identities(dirs[place].owner)
    BY <2>1, LeasedDirectories
  <2> HIDE DEF place
  <2>4. QED BY <1>18, <2>1, <2>2, <2>3
<1>23. ASSUME NEW p \in Processes, ClearIndex(p) PROVE DirectoriesFit'
  <2> DEFINE place == Here(at[p].key)
  <2>1. p \in building /\ at[p] # None /\ Exists(place)
    BY <1>2, <1>4, <1>23 DEF ClearIndex
  <2>2. /\ Amends(place) /\ UNCHANGED <<intents, job>> /\ dirs'[place].db = None
    BY <1>1, <1>23, <2>1, ClearIndexEffect
  <2>3. /\ place \in Places /\ dirs[place].owner # None
        /\ place[2] \in Identities(dirs[place].owner)
    BY <2>1, LeasedDirectories
  <2> HIDE DEF place
  <2>4. QED BY <1>18, <2>1, <2>2, <2>3
<1>24. ASSUME NEW p \in Processes, EndCommand(p) PROVE DirectoriesFit'
  BY <1>1, <1>24, FitFrame DEF EndCommand
<1>25. CASE Kill
  BY <1>1, <1>25, FitFrame DEF Kill
<1>26. CASE FileOperationFails
  <2>1. /\ job # None /\ UNCHANGED intents /\ job'.pc = "failed"
        /\ \/ job.pc # "rename" /\ UNCHANGED dirs
           \/ /\ job.pc = "rename" /\ dirs'[Here(job.key)] = job.trash
              /\ \A other \in Places : other # Here(job.key) => dirs'[other] = dirs[other]
    BY <1>1, <1>2, <1>26, FileOperationFailsEffect
  <2>2. CASE UNCHANGED dirs
    BY <1>1, <2>1, <2>2, FitFrame
  <2>3. CASE /\ job.pc = "rename" /\ dirs'[Here(job.key)] = job.trash
             /\ \A other \in Places : other # Here(job.key) => dirs'[other] = dirs[other]
    <3>1. Fits(intents, job.trash, Here(job.key))
      BY <1>1, <2>1, <2>3 DEF DirectoriesFit
    <3>2. QED BY <1>1, <1>3, <2>1, <2>3, <3>1, FitChange
  <2>4. QED BY <2>1, <2>2, <2>3
<1>27. ASSUME NEW key \in Roots, Collect(key) PROVE DirectoriesFit'
  <2>1. /\ UNCHANGED <<intents, job>> /\ dirs'[Here(key)] = None /\ Here(key) \in Places
        /\ \A other \in Places : other # Here(key) => dirs'[other] = dirs[other]
    BY <1>1, <1>27, CollectEffect, PlacesAreTyped
  <2>2. QED BY <1>1, <2>1, FitChange
<1>28. ASSUME NEW p \in Processes, NEW root \in Requested,
              NEW kind \in {"resolve", "legacy"}, Begin(p, root, kind)
       PROVE  DirectoriesFit'
  <2>1. UNCHANGED <<dirs, intents>> /\ job'.pc # "rename"
    BY <1>1, <1>28, BeginEffect
  <2>2. QED BY <1>1, <2>1, FitFrame
<1>29. ASSUME NEW root \in Roots, Remount(root) PROVE DirectoriesFit'
  BY <1>1, <1>29, FitFrame DEF Remount
<1>30. CASE UNCHANGED vars
  BY <1>1, <1>30, FitFrame DEF vars
<1>31. QED BY <1>5, <1>6, <1>7, <1>8, <1>9, <1>10, <1>11, <1>12, <1>13, <1>15, <1>16,
              <1>17, <1>19, <1>20, <1>21, <1>22, <1>23, <1>24, <1>25, <1>26, <1>27,
              <1>28, <1>29, <1>30 DEF Next, Resolve

(***************************************************************************)
(* What the users of a directory write into it stays in its owner.         *)
(***************************************************************************)
LEMMA LeasedOwnersStay ==
  ASSUME TypeOK, PinInv, [Next]_vars,
         NEW p \in Processes, at[p] # None, at'[p] = at[p]
  PROVE  Identities(dirs[Here(at[p].key)].owner) \subseteq Identities(dirs'[Here(at[p].key)].owner)
<1> DEFINE place == Here(at[p].key)
<1>1. /\ place \in Places /\ Exists(place) /\ dirs[place].owner # None
      /\ at[p].key \in Roots
  BY LeasedPlaces DEF PinInv, LeasesHold
<1>2. dirs'[place] # None
  BY LeasesStep DEF LeasesHold, Exists
<1>3. job # None /\ job.pc \in {"quarantine", "rename"} => Here(job.key) # place
  <2>1. SUFFICES ASSUME job # None, job.pc \in {"quarantine", "rename"}
                 PROVE  Here(job.key) # place
    OBVIOUS
  <2>2. ~IsLeased(job.key) /\ job.key \in Roots
    BY <2>1, JobsAreTyped DEF PinInv, MoveInv
  <2>3. at[p].key # job.key
    BY <2>2, FreeKeys
  <2>4. QED BY <1>1, <2>2, <2>3, PlacesAreTyped
<1> HIDE DEF place
<1>4. dirs'[place] = dirs[place] \/ dirs'[place].owner = dirs[place].owner
        \/ Identities(dirs[place].owner) \subseteq Identities(dirs'[place].owner)
  <2>1. CASE Quiet
    BY <2>1 DEF Quiet
  <2>2. ASSUME NEW other \in Places,
               \/ Creates(other) \/ Marks(other) \/ Trashes(other)
               \/ Edits(other) \/ Drops(other) \/ PutsBack(other)
        PROVE  dirs'[place] = dirs[place] \/ dirs'[place].owner = dirs[place].owner
    BY <1>1, <1>2, <1>3, <2>2 DEF Creates, Marks, Trashes, Edits, Drops, PutsBack, Exists,
                                  SameBut, Amends, Issued
  <2>3. ASSUME NEW source \in Places, NEW other \in Places, Renames(source, other)
        PROVE  dirs'[place] = dirs[place]
    BY <1>1, <1>2, <2>3 DEF Renames, Exists
  <2>4. ASSUME NEW other \in Places, NEW owner \in Manifest, Writes(other, owner)
        PROVE  dirs'[place] = dirs[place]
                 \/ Identities(dirs[place].owner) \subseteq Identities(dirs'[place].owner)
    BY <1>1, <2>4 DEF Writes, SameBut
  <2>5. ASSUME NEW key \in Roots, Collects(key)
        PROVE  dirs'[place] = dirs[place]
    BY <1>1, <1>2, <2>5 DEF Collects, SameBut
  <2>6. QED BY <2>1, <2>2, <2>3, <2>4, <2>5, StepKinds
<1>5. QED BY <1>4 DEF place

LEMMA LeasesAreTaken ==
  ASSUME TypeOK, [Next]_vars
  PROVE  /\ \/ Leased /\ UNCHANGED dirs /\ UNCHANGED building
            \/ TakeLeaseAndRebuildLock
            \/ /\ \A p \in Processes : at'[p] # None => at'[p] = at[p]
               /\ building' \subseteq building
         /\ UNCHANGED canonical \/ building' = {}
<1> DEFINE Keeps == /\ \A p \in Processes : at'[p] # None => at'[p] = at[p]
                    /\ building' \subseteq building
                    /\ UNCHANGED canonical
<1>1. Resolve => \/ TakeLease \/ TakeLeaseAndRebuildLock \/ Keeps
  BY DEF Resolve, MakeTarget, ChooseSource, PlanMove, QuarantineTarget, RenameSource,
         InstallAfterMove, WriteIntent, WriteManifest, CleanUpIntents, SweepIntents,
         OwnTarget, Fail, environment
<1>2. ASSUME NEW p \in Processes, OpenIndex(p) \/ PublishIndex(p) \/ ClearIndex(p)
      PROVE  Keeps
  BY <1>2 DEF OpenIndex, PublishIndex, ClearIndex, environment
<1>3. ASSUME NEW p \in Processes, EndCommand(p) PROVE Keeps
  BY <1>3, EndCommandEffect
<1>4. Kill => Keeps
  BY KillEffect
<1>5. FileOperationFails => Keeps
  BY DEF FileOperationFails
<1>6. ASSUME NEW p \in Processes, NEW root \in Requested,
             NEW kind \in {"resolve", "legacy"}, Begin(p, root, kind)
      PROVE  Keeps
  BY <1>6 DEF Begin
<1>7. ASSUME NEW root \in Roots, Collect(root) PROVE Keeps
  BY <1>7 DEF Collect
<1>8. ASSUME NEW root \in Roots, Remount(root)
      PROVE  /\ \A p \in Processes : at'[p] # None => at'[p] = at[p]
             /\ building' \subseteq building /\ building' = {}
  BY <1>8 DEF Remount
<1>9. UNCHANGED vars => Keeps
  BY DEF vars
<1>10. TakeLease => Leased /\ UNCHANGED dirs /\ UNCHANGED building /\ UNCHANGED canonical
  BY DEF TakeLease, Leased
<1>11. TakeLeaseAndRebuildLock => UNCHANGED canonical
  BY DEF TakeLeaseAndRebuildLock, Leased
<1>12. QED BY <1>1, <1>2, <1>3, <1>4, <1>5, <1>6, <1>7, <1>8, <1>9, <1>10, <1>11 DEF Next

LEMMA LeasesFitStep ==
  ASSUME Inv, FitInv, [Next]_vars
  PROVE  LeasesFit'
<1>1. /\ TypeOK /\ PinInv /\ LeasesFit /\ RequestFits /\ RecordFits /\ EndFits
      /\ building \subseteq {p \in Processes : at[p] # None}
  BY DEF Inv, FitInv, ResolutionFits, TypeOK
\* A process that keeps what it has.
<1>2. ASSUME NEW p \in Processes, at'[p] # None, at'[p] = at[p],
             p \in building' => p \in building
      PROVE  LET names == Identities(dirs'[Here(at'[p].key)].owner)
             IN  /\ at'[p].key \in names /\ at'[p].norm \in names
                 /\ p \in building' => canonical'[at'[p].path] \in names
  <2>1. Identities(dirs[Here(at[p].key)].owner) \subseteq Identities(dirs'[Here(at[p].key)].owner)
    BY <1>1, <1>2, LeasedOwnersStay
  <2>2. UNCHANGED canonical \/ building' = {}
    BY <1>1, LeasesAreTaken
  <2>3. QED BY <1>1, <1>2, <2>1, <2>2 DEF LeasesFit
<1>3. CASE /\ \A p \in Processes : at'[p] # None => at'[p] = at[p]
           /\ building' \subseteq building
  BY <1>2, <1>3 DEF LeasesFit
\* The process that gets its directory.
<1>4. ASSUME Leased, building' \subseteq building \cup {job.process},
             dirs'[Here(job.key)].owner = dirs[Here(job.key)].owner
      PROVE  LeasesFit'
  <2>1. /\ job # None /\ job.pc = "lease" /\ UNCHANGED canonical
        /\ at'[job.process] # None /\ at'[job.process].path = job.want.raw
        /\ at'[job.process].key = job.key /\ at'[job.process].norm = job.norm
        /\ \A p \in Processes : p # job.process => at'[p] = at[p]
    BY <1>1, <1>4, LeasedEffect
  <2> DEFINE names == Identities(dirs[Here(job.key)].owner)
  <2>2. /\ job.key \in names /\ job.norm \in names /\ Identities(job.want) \subseteq names
    BY <1>1, <2>1 DEF RecordFits, EndFits
  <2>3. canonical[job.want.raw] \in names
    BY <1>1, <2>1, <2>2 DEF RequestFits, Identities
  <2>4. ASSUME NEW p \in Processes, at'[p] # None, p # job.process
        PROVE  LET some == Identities(dirs'[Here(at'[p].key)].owner)
               IN  /\ at'[p].key \in some /\ at'[p].norm \in some
                   /\ p \in building' => canonical'[at'[p].path] \in some
    BY <1>2, <1>4, <2>1, <2>4
  <2>5. Identities(dirs'[Here(job.key)].owner) = names
    BY <1>4
  <2> HIDE DEF names
  <2>6. QED BY <2>1, <2>2, <2>3, <2>4, <2>5 DEF LeasesFit
<1>5. CASE Leased /\ UNCHANGED dirs /\ UNCHANGED building
  BY <1>4, <1>5
<1>6. CASE TakeLeaseAndRebuildLock
  <2>1. job # None /\ job.pc = "lease"
    BY <1>6 DEF TakeLeaseAndRebuildLock, Leased, At
  <2>2. Exists(Here(job.key))
    BY <2>1, PlacesAreThere DEF TargetPCs
  <2>3. /\ Leased /\ building' = building \cup {job.process} /\ Amends(Here(job.key))
    BY <1>1, <1>6, <2>2, TakeLeaseAndRebuildLockEffect
  <2>4. QED BY <1>4, <2>3 DEF Amends
<1>7. QED BY <1>1, <1>3, <1>5, <1>6, LeasesAreTaken

(***************************************************************************)
(* Why a step refuses, and that what it records instead is bounded.        *)
(***************************************************************************)
Excused == job'.pc = "failed" => job'.cause # "conflict"

LEMMA RefusalCause ==
  ASSUME job \in Jobs, NEW cause, Fails(cause)
  PROVE  job'.pc = "failed" /\ job'.cause = cause
BY DEF Fails, Jobs

LEMMA BeginChecks ==
  ASSUME Inv, FitInv, NEW p \in Processes, NEW root \in Requested,
         NEW kind \in {"resolve", "legacy"}, Begin(p, root, kind)
  PROVE  /\ Excused
         /\ job'.pc # "failed" => IsBounded(job'.carried)
         /\ job'.pc = "intent" => IsBounded(job'.owner)
<1> DEFINE want    == NewOwner(canonical[root], root)
           there   == Here(want.norm)
           own     == IF Exists(there) THEN OwnIntents(there) ELSE {}
           carried == MergedIntents(own, want)
           start   == [process |-> p, kind |-> kind, pc |-> "target",
                       next |-> "lease", want |-> want, carried |-> carried,
                       owner |-> carried, norm |-> want.norm, key |-> want.norm,
                       source |-> None, trash |-> None, cause |-> "none",
                       inUse |-> {k \in Roots : IsLeased(k)}]
           pinned  == Here(at[p].key)
           active  == EffectiveOwner(pinned)
           merged  == MergedWhilePinned(active.owner, carried)
           refused(cause) == [start EXCEPT !.pc = "failed", !.cause = cause]
           pc      == IF merged = active.owner THEN "cleanup" ELSE "intent"
           resumed == [start EXCEPT !.key = at[p].key, !.norm = active.owner.norm,
                                    !.owner = merged, !.pc = pc]
<1>1. job' = CASE ~IsBounded(carried) -> refused("limit")
               [] IsBounded(carried) /\ at[p] = None -> start
               [] IsBounded(carried) /\ at[p] # None ->
                    IF ~Exists(pinned) THEN start
                    ELSE IF active.error # "none" THEN refused(active.error)
                    ELSE IF active.owner = None THEN start
                    ELSE IF ~Overlaps(active.owner, want) THEN start
                    ELSE IF ~Overlaps(active.owner, carried)
                    THEN refused("conflict")
                    ELSE IF ~IsBounded(merged) THEN refused("limit")
                    ELSE IF ~IsSelfConsistent(merged, at[p].key)
                    THEN refused("conflict")
                    ELSE resumed
  BY DEF Begin
<1>2. TypeOK /\ root \in Roots /\ canonical[root] \in Roots
  BY RootsAssumption DEF Inv, TypeOK
<1>3. want \in Manifest /\ want.norm = canonical[root]
  BY <1>2, OwnersAreNamed
<1>4. carried \in Manifest /\ Identities(want) \subseteq Identities(carried)
  <2>1. own \subseteq Intents
    <3>1. there \in Places
      BY <1>2, <1>3, PlacesAreTyped
    <3>2. QED BY <1>2, <3>1, DirectoriesAreTyped
  <2>2. /\ carried \in Manifest
        /\ Identities(carried) = Identities(want) \cup Named(own)
    BY <1>3, <2>1, IntentsMerge
  <2>3. QED BY <2>2
<1>5. /\ start.pc = "target" /\ start.carried = carried
      /\ pc \in {"cleanup", "intent"}
  OBVIOUS
<1>6. ASSUME NEW cause
      PROVE  refused(cause).pc = "failed" /\ refused(cause).cause = cause
  OBVIOUS
<1>7. resumed.pc = pc /\ resumed.carried = carried /\ resumed.owner = merged
  OBVIOUS
<1>8. at[p] # None /\ Exists(pinned) =>
        /\ active.error # "conflict"
        /\ active.error = "none" /\ active.owner # None /\ Overlaps(active.owner, want) =>
             /\ Overlaps(active.owner, carried)
             /\ at[p].key \in Identities(merged)
  <2>1. SUFFICES ASSUME at[p] # None, Exists(pinned)
                 PROVE  /\ active.error # "conflict"
                        /\ active.error = "none" /\ active.owner # None
                             /\ Overlaps(active.owner, want) =>
                             /\ Overlaps(active.owner, carried)
                             /\ at[p].key \in Identities(merged)
    OBVIOUS
  <2>2. /\ pinned \in Places /\ Fits(intents, dirs[pinned], pinned)
        /\ dirs[pinned].owner # None /\ at[p].key \in Identities(dirs[pinned].owner)
    BY <2>1, LeasedDirectories
  <2>3. active.error # "conflict"
    BY <1>2, <2>1, <2>2, OwnersAgree
  <2>4. /\ active.owner \in Manifest \cup {None}
        /\ active.owner # None => Identities(active.owner) = Known(pinned)
    BY <1>2, <2>1, <2>2, EffectiveOwners
  <2>5. Identities(dirs[pinned].owner) \subseteq Known(pinned)
    BY <2>2 DEF Known, InManifest
  <2> HIDE DEF active, pinned, want, carried
  <2>6. ASSUME active.owner # None
        PROVE  at[p].key \in Identities(merged)
    <3>1. active.owner \in Manifest
      BY <2>4, <2>6
    <3>2. Identities(merged) = Identities(active.owner) \cup Identities(carried)
      BY <1>4, <3>1, OwnersMerge
    <3>3. QED BY <2>2, <2>4, <2>5, <2>6, <3>2
  <2>7. Overlaps(active.owner, want) => Overlaps(active.owner, carried)
    BY <1>4 DEF Overlaps
  <2>8. QED BY <2>3, <2>6, <2>7
<1> HIDE DEF want, carried, start, pinned, active, merged, refused, pc, resumed
<1>9. CASE ~IsBounded(carried)
  <2>1. job' = refused("limit")
    BY <1>1, <1>9
  <2>2. QED BY <1>6, <2>1 DEF Excused
<1>10. ASSUME IsBounded(carried), job' = start
       PROVE  /\ Excused /\ IsBounded(job'.carried) /\ job'.pc # "intent"
  BY <1>5, <1>10 DEF Excused
<1>11. CASE IsBounded(carried) /\ at[p] = None
  <2>1. job' = start
    BY <1>1, <1>11
  <2>2. QED BY <1>10, <1>11, <2>1
<1>12. CASE IsBounded(carried) /\ at[p] # None
  <2>1. job' = IF ~Exists(pinned) THEN start
               ELSE IF active.error # "none" THEN refused(active.error)
               ELSE IF active.owner = None THEN start
               ELSE IF ~Overlaps(active.owner, want) THEN start
               ELSE IF ~Overlaps(active.owner, carried)
               THEN refused("conflict")
               ELSE IF ~IsBounded(merged) THEN refused("limit")
               ELSE IF ~IsSelfConsistent(merged, at[p].key)
               THEN refused("conflict")
               ELSE resumed
    BY <1>1, <1>12
  <2>2. CASE job' = start
    BY <1>10, <1>12, <2>2
  <2>3. CASE Exists(pinned) /\ job' = refused(active.error)
    BY <1>6, <1>8, <1>12, <2>3 DEF Excused
  <2>4. CASE job' = refused("limit")
    BY <1>6, <2>4 DEF Excused
  <2>5. CASE IsBounded(merged) /\ job' = resumed
    BY <1>5, <1>7, <1>12, <2>5 DEF Excused
  <2>6. CASE /\ Exists(pinned) /\ active.error = "none" /\ active.owner # None
             /\ Overlaps(active.owner, want)
    <3>1. Overlaps(active.owner, carried) /\ at[p].key \in Identities(merged)
      BY <1>8, <1>12, <2>6
    <3>2. IsBounded(merged) => IsSelfConsistent(merged, at[p].key)
      BY <3>1 DEF IsSelfConsistent
    <3>3. CASE ~IsBounded(merged)
      <4>1. job' = refused("limit")
        BY <2>1, <2>6, <3>1, <3>3
      <4>2. QED BY <2>4, <4>1
    <3>4. CASE IsBounded(merged)
      <4>1. job' = resumed
        BY <2>1, <2>6, <3>1, <3>2, <3>4
      <4>2. QED BY <2>5, <3>4, <4>1
    <3>5. QED BY <3>3, <3>4
  <2>7. QED BY <2>1, <2>2, <2>3, <2>6
<1>13. QED BY <1>9, <1>11, <1>12

LEMMA ChooseChecks ==
  ASSUME Inv, FitInv, ChooseSource
  PROVE  Excused
<1>1. /\ job # None /\ job \in Jobs /\ TypeOK /\ KeysAreNamed
  BY JobsAreTyped DEF Inv, FitInv, ChooseSource, At
<1>2. ASSUME NEW pc, pc # "failed",
             Goes(pc) \/ \E place : job' = [job EXCEPT !.pc = pc, !.source = place]
      PROVE  Excused
  BY <1>1, <1>2 DEF Goes, Jobs, Excused
<1>3. ASSUME NEW cause, cause # "conflict", Fails(cause) PROVE Excused
  BY <1>1, <1>3, RefusalCause DEF Excused
<1>4. ASSUME NEW place \in Candidates, ~IsForeign(place)
      PROVE  Refusal(place) # "conflict"
  <2>1. place \in Places /\ Exists(place) /\ dirs[place].db # None
    BY <1>4 DEF Candidates, HasIndex
  <2>2. Fits(intents, dirs[place], place)
    BY <2>1 DEF FitInv, DirectoriesFit
  <2> DEFINE e == EffectiveOwner(place)
  <2>3. e.error # "conflict"
    BY <1>1, <2>1, <2>2, OwnersAgree
  <2>4. e.owner # None => Identities(e.owner) = Known(place)
    BY <1>1, <2>1, EffectiveOwners
  <2>5. e.owner # None => dirs[place].db.root \in Identities(e.owner)
    <3>1. CASE dirs[place].owner # None \/ OwnIntents(place) # {}
      BY <1>1, <2>1, <2>2, <2>4, <3>1, RecordedNames
    <3>2. CASE dirs[place].owner = None /\ OwnIntents(place) = {}
      BY <3>2 DEF EffectiveOwner
    <3>3. QED BY <3>1, <3>2
  <2> HIDE DEF e
  <2>6. Refusal(place) = IF e.error # "none" THEN e.error
                         ELSE IF /\ e.owner # None
                                 /\ dirs[place].db.root \notin Identities(e.owner)
                              THEN "conflict"
                         ELSE IF IsLeased(place[2]) \/ IsLeased(job.key) THEN "busy"
                         ELSE "none"
    BY DEF Refusal, e
  <2>7. QED BY <2>3, <2>5, <2>6
<1>5. CASE /\ HasIndex(Here(job.key))
           /\ job' = [job EXCEPT !.pc = "own", !.source = Here(job.key)]
  BY <1>2, <1>5
<1>6. CASE IF IsLeased(job.want.raw) \/ IsLeased(job.key)
           THEN Fails("busy") ELSE MoveFrom(Here(job.want.raw))
  BY <1>2, <1>3, <1>6 DEF MoveFrom
<1>7. CASE IF \A place \in Candidates : IsForeign(place) THEN Goes("own")
           ELSE \E place \in Candidates :
                  /\ ~IsForeign(place)
                  /\ IF Refusal(place) # "none" THEN Fails(Refusal(place))
                     ELSE MoveFrom(place)
  <2>1. CASE \A place \in Candidates : IsForeign(place)
    BY <1>2, <1>7, <2>1
  <2>2. CASE ~(\A place \in Candidates : IsForeign(place))
    <3>1. PICK place \in Candidates :
            /\ ~IsForeign(place)
            /\ IF Refusal(place) # "none" THEN Fails(Refusal(place))
               ELSE MoveFrom(place)
      BY <1>7, <2>2
    <3>2. CASE Refusal(place) # "none"
      BY <1>3, <1>4, <3>1, <3>2
    <3>3. CASE Refusal(place) = "none"
      BY <1>2, <3>1, <3>3 DEF MoveFrom
    <3>4. QED BY <3>2, <3>3
  <2>3. QED BY <2>1, <2>2
<1>8. CASE LET legacy == <<"old", job.want.raw>>
           IN  IF ~HasIndex(legacy) THEN Goes("own") ELSE MoveFrom(legacy)
  BY <1>2, <1>8 DEF MoveFrom
<1>9. QED BY <1>5, <1>6, <1>7, <1>8 DEF ChooseSource

LEMMA PlanChecks ==
  ASSUME Inv, FitInv, PlanMove
  PROVE  /\ Excused
         /\ job'.pc # "failed" => IsBounded(job'.owner)
<1> DEFINE effective  == EffectiveOwner(job.source)
           authorized == IF effective.owner = None THEN job.want ELSE effective.owner
           recorded   == GenerationIntents(job.source)
           target     == dirs[Here(job.key)]
           both       == MergedForTarget(authorized, job.carried)
           planned    == MergedIntents(recorded, both)
           owner      == IF target.owner = None THEN planned
                         ELSE MergedForTarget(target.owner, planned)
<1>1. /\ job # None /\ job.pc = "plan" /\ job \in Jobs /\ TypeOK /\ KeysAreNamed
      /\ job.want \in Manifest /\ job.carried \in Manifest
      /\ Here(job.key) \in Places /\ Here(job.key)[2] = job.key
      /\ None \notin Manifest
  <2>1. job # None /\ job.pc = "plan" /\ TypeOK /\ KeysAreNamed
    BY DEF PlanMove, At, Inv, FitInv
  <2>2. QED BY <2>1, JobsAreTyped, PlacesAreTyped, RecordsAssumption
<1>2. /\ job.source \in Places /\ Exists(job.source) /\ Exists(Here(job.key))
      /\ dirs[job.source].db # None
      /\ Fits(intents, dirs[job.source], job.source)
      /\ Fits(intents, target, Here(job.key))
      /\ IsSource(job.source)
  <2>1. /\ job.source \in Places /\ Exists(job.source) /\ Exists(Here(job.key))
        /\ dirs[job.source].db # None
    BY <1>1, PlacesAreThere DEF TargetPCs, MovePCs
  <2>2. QED BY <1>1, <2>1 DEF FitInv, DirectoriesFit, ResolutionFits, SourceFits
<1>3. IF effective.error # "none"
      THEN Fails(effective.error)
      ELSE IF \/ ~Overlaps(authorized, job.want)
              \/ \E other \in recorded : ~Overlaps(authorized, other.owner)
      THEN Fails("conflict")
      ELSE IF ~IsBounded(planned) THEN Fails("limit")
      ELSE IF job.kind = "legacy" /\ IsLeased(job.key)
      THEN Fails("busy")
      ELSE IF target.files THEN Fails("occupied")
      ELSE IF /\ target.owner # None
              /\ ~(/\ IsSelfConsistent(target.owner, job.key)
                   /\ Overlaps(target.owner, planned))
      THEN Fails("conflict")
      ELSE IF ~IsBounded(owner) THEN Fails("limit")
      ELSE job' = [job EXCEPT !.pc = "quarantine", !.owner = owner]
  BY DEF PlanMove
<1>4. /\ effective.error # "conflict"
      /\ effective.owner \in Manifest \cup {None}
      /\ effective.owner # None => Identities(effective.owner) = Known(job.source)
      /\ effective.owner = None /\ effective.error = "none" =>
           dirs[job.source].owner = None /\ OwnIntents(job.source) = {}
  BY <1>1, <1>2, OwnersAgree, EffectiveOwners
<1> HIDE DEF effective
<1>5. effective.owner # None => dirs[job.source].owner # None \/ OwnIntents(job.source) # {}
  BY DEF effective, EffectiveOwner
<1>6. ASSUME NEW other \in recorded
      PROVE  other \in intents /\ other.gen = dirs[job.source].gen
  BY <1>6 DEF GenerationIntents
<1>7. effective.error = "none" =>
        /\ Overlaps(authorized, job.want)
        /\ \A other \in recorded : Overlaps(authorized, other.owner)
  <2>1. CASE effective.owner = None
    <3>1. Overlaps(job.want, job.want)
      BY DEF Overlaps, Identities
    <3>2. effective.error = "none" =>
            \A other \in recorded : Overlaps(job.want, other.owner)
      BY <1>2, <1>4, <1>6, <2>1 DEF IsSource, Fits, UnownedFits, Overlaps
    <3>3. QED BY <2>1, <3>1, <3>2
  <2>2. CASE effective.owner # None
    <3>1. Known(job.source) \cap Identities(job.want) # {}
      BY <1>2, <1>5, <2>2 DEF IsSource
    <3>2. ASSUME NEW other \in recorded
          PROVE  Known(job.source) \cap Identities(other.owner) # {}
      <4>1. CASE dirs[job.source].owner # None
        BY <1>2, <1>6, <4>1 DEF Fits, OwnerFits, Overlaps, Known, InManifest
      <4>2. CASE dirs[job.source].owner = None
        <5>1. dirs[job.source].db.root \in Known(job.source)
          BY <1>1, <1>2, <1>5, <2>2, RecordedNames
        <5>2. dirs[job.source].db.root \in Identities(other.owner)
          BY <1>2, <1>6, <4>2 DEF Fits, UnownedFits
        <5>3. QED BY <5>1, <5>2
      <4>3. QED BY <4>1, <4>2
    <3>3. Identities(authorized) = Known(job.source)
      BY <1>4, <2>2
    <3> HIDE DEF authorized
    <3>4. QED BY <3>1, <3>2, <3>3 DEF Overlaps
  <2>3. QED BY <2>1, <2>2
<1>8. target.owner # None /\ ~target.files =>
        /\ IsSelfConsistent(target.owner, job.key)
        /\ Overlaps(target.owner, planned)
  <2>1. SUFFICES ASSUME target.owner # None, ~target.files
                 PROVE  /\ IsSelfConsistent(target.owner, job.key)
                        /\ Overlaps(target.owner, planned)
    OBVIOUS
  <2>2. target.db = None
    BY <1>1, <1>2, <2>1 DEF Inv, HistoryInv, IndexesAreFiles, HasIndex
  <2>3. IsBounded(target.owner) /\ job.key \in Identities(target.owner)
    BY <1>1, <1>2, <2>1, <2>2 DEF Fits, OwnerFits
  <2>4. job.key \in Identities(job.carried)
    BY <1>1, RequestIsKnown DEF OwnKeyPCs
  <2>5. authorized \in Manifest /\ recorded \subseteq Intents
    BY <1>1, <1>2, <1>4, DirectoriesAreTyped
  <2>6. both \in Manifest /\ Identities(job.carried) \subseteq Identities(both)
    <3> HIDE DEF authorized
    <3>1. QED BY <1>1, <2>5, OwnersMerge
  <2>7. Identities(both) \subseteq Identities(planned)
    <3> HIDE DEF both
    <3>1. QED BY <2>5, <2>6, IntentsMerge
  <2> HIDE DEF planned, both, target
  <2>8. QED BY <2>3, <2>4, <2>6, <2>7 DEF IsSelfConsistent, Overlaps
<1> HIDE DEF authorized, recorded, target, both, planned, owner
<1>9. ASSUME NEW cause, cause # "conflict", Fails(cause)
      PROVE  Excused /\ job'.pc = "failed"
  BY <1>1, <1>9, RefusalCause DEF Excused
<1>10. CASE IsBounded(owner) /\ job' = [job EXCEPT !.pc = "quarantine", !.owner = owner]
  BY <1>1, <1>10 DEF Excused, Jobs
<1>11. CASE effective.error # "none"
  BY <1>3, <1>4, <1>9, <1>11
<1>12. CASE effective.error = "none"
  <2>1. \/ Fails("limit") \/ Fails("busy") \/ Fails("occupied")
        \/ IsBounded(owner) /\ job' = [job EXCEPT !.pc = "quarantine", !.owner = owner]
    BY <1>3, <1>7, <1>8, <1>12
  <2>2. QED BY <1>9, <1>10, <2>1
<1>13. QED BY <1>11, <1>12

LEMMA InstallChecks ==
  ASSUME TypeOK, job # None, Exists(Here(job.key)), NEW desired \in Manifest,
         NEW allow \in BOOLEAN, NEW next \in {"lease", "sweep"},
         Install(desired, allow, next), IsBounded(desired),
         LET existing == dirs[Here(job.key)].owner
         IN  existing # None => /\ Overlaps(existing, desired)
                                /\ allow \/ IsSelfConsistent(existing, job.key)
  PROVE  Excused /\ (job'.pc = "intent" => IsBounded(job'.owner))
<1> DEFINE existing == dirs[Here(job.key)].owner
           merged   == MergedForTarget(existing, desired)
           write(owner) == job' = [job EXCEPT !.pc = "intent", !.next = next,
                                              !.owner = owner]
<1>1. job \in Jobs
  BY JobsAreTyped
<1>2. IF existing = None THEN write(desired)
      ELSE IF \/ ~Overlaps(existing, desired)
              \/ ~IsSelfConsistent(existing, job.key) /\ ~allow
      THEN Fails("conflict")
      ELSE IF ~IsBounded(merged) THEN Fails("limit")
      ELSE IF merged = existing
      THEN job' = [job EXCEPT !.pc = "cleanup", !.next = next, !.owner = existing]
      ELSE write(merged)
  BY DEF Install
<1>3. ASSUME NEW owner, write(owner) PROVE job'.pc = "intent" /\ job'.owner = owner
  BY <1>1, <1>3 DEF Jobs
<1> HIDE DEF existing, merged, write
<1>4. CASE existing = None
  BY <1>2, <1>3, <1>4 DEF Excused
<1>5. CASE existing # None
  <2>1. Overlaps(existing, desired) /\ (allow \/ IsSelfConsistent(existing, job.key))
    BY <1>5 DEF existing
  <2>2. CASE Fails("limit")
    BY <1>1, <2>2, RefusalCause DEF Excused
  <2>3. CASE job' = [job EXCEPT !.pc = "cleanup", !.next = next, !.owner = existing]
    BY <1>1, <2>3 DEF Excused, Jobs
  <2>4. CASE IsBounded(merged) /\ write(merged)
    BY <1>3, <2>4 DEF Excused
  <2>5. QED BY <1>2, <1>5, <2>1, <2>2, <2>3, <2>4
<1>6. QED BY <1>4, <1>5

LEMMA InstallAfterMoveChecks ==
  ASSUME Inv, FitInv, InstallAfterMove
  PROVE  Excused /\ (job'.pc = "intent" => IsBounded(job'.owner))
<1>1. /\ job # None /\ job.pc = "install" /\ TypeOK
      /\ Install(job.owner, TRUE, "sweep")
  BY DEF InstallAfterMove, At, Inv
<1>2. Exists(Here(job.key)) /\ job.owner \in Manifest
  BY <1>1, PlacesAreThere, JobsAreTyped DEF TargetPCs
<1>3. Includes(job.owner, dirs[Here(job.key)]) /\ IsBounded(job.owner)
  BY <1>1 DEF FitInv, ResolutionFits, RecordFits
<1>4. dirs[Here(job.key)].owner # None => Overlaps(dirs[Here(job.key)].owner, job.owner)
  BY <1>3 DEF Includes, Overlaps, Identities
<1>5. QED BY <1>1, <1>2, <1>3, <1>4, InstallChecks

LEMMA OwnTargetChecks ==
  ASSUME Inv, FitInv, OwnTarget
  PROVE  Excused /\ (job'.pc = "intent" => IsBounded(job'.owner))
<1> DEFINE target   == dirs[Here(job.key)]
           existing == target.owner
<1>1. /\ job # None /\ job.pc = "own" /\ TypeOK /\ job \in Jobs
      /\ job.carried \in Manifest
  BY JobsAreTyped DEF OwnTarget, At, Inv
<1>2. /\ IF existing = None \/ IsSelfConsistent(existing, job.key)
         THEN Install(job.carried, FALSE, "lease")
         ELSE IF ~Overlaps(existing, job.carried) THEN Fails("conflict")
         ELSE IF IsLeased(job.key) THEN Fails("busy")
         ELSE IF target.db = None \/ target.db.root \notin Identities(existing)
         THEN Fails("conflict")
         ELSE Install(job.carried, TRUE, "lease")
  BY DEF OwnTarget
<1>3. /\ Exists(Here(job.key)) /\ Here(job.key) \in Places /\ Here(job.key)[2] = job.key
      /\ Fits(intents, target, Here(job.key))
  <2>1. Exists(Here(job.key)) /\ Here(job.key) \in Places /\ Here(job.key)[2] = job.key
    BY <1>1, PlacesAreThere, JobsAreTyped, PlacesAreTyped DEF TargetPCs
  <2>2. QED BY <2>1 DEF FitInv, DirectoriesFit
<1>4. job.key \in Identities(job.carried) /\ IsBounded(job.carried)
  BY <1>1, RequestIsKnown DEF OwnKeyPCs, FitInv, ResolutionFits, RequestFits
<1>5. existing # None /\ IsSelfConsistent(existing, job.key) => Overlaps(existing, job.carried)
  BY <1>4 DEF IsSelfConsistent, Overlaps
\* A manifest that does not name the key was moved with its index by an
\* intent, and the request carries what that intent says.
<1>6. existing # None /\ ~IsSelfConsistent(existing, job.key) =>
        /\ Overlaps(existing, job.carried)
        /\ target.db # None /\ target.db.root \in Identities(existing)
  <2>1. SUFFICES ASSUME existing # None, ~IsSelfConsistent(existing, job.key)
                 PROVE  /\ Overlaps(existing, job.carried)
                        /\ target.db # None /\ target.db.root \in Identities(existing)
    OBVIOUS
  <2>2. /\ target.db # None /\ target.db.root \in Identities(existing)
        /\ HasOwn(intents, target, Here(job.key))
        /\ \A intent \in intents :
             intent.gen = target.gen => Overlaps(existing, intent.owner)
    BY <1>3, <2>1 DEF Fits, OwnerFits, IsSelfConsistent
  <2>3. PICK intent \in intents : intent.gen = target.gen /\ Here(job.key) = Here(intent.key)
    BY <2>2 DEF HasOwn
  <2>4. intent.key = job.key
    BY <2>3 DEF Here
  <2>5. Identities(intent.owner) \subseteq Identities(job.carried)
    BY <1>1, <1>3, <2>3, <2>4 DEF Inv, HistoryInv, CarriedInv, CoversOwn
  <2>6. Overlaps(existing, job.carried)
    BY <2>2, <2>3, <2>5 DEF Overlaps
  <2>7. QED BY <2>2, <2>6
<1>7. CASE Fails("busy")
  BY <1>1, <1>7, RefusalCause DEF Excused
<1>8. ASSUME NEW allow \in BOOLEAN, Install(job.carried, allow, "lease"),
             existing # None => allow \/ IsSelfConsistent(existing, job.key)
      PROVE  Excused /\ (job'.pc = "intent" => IsBounded(job'.owner))
  <2>1. existing # None => Overlaps(existing, job.carried)
    BY <1>5, <1>6
  <2>2. QED BY <1>1, <1>3, <1>4, <1>8, <2>1, InstallChecks
<1> HIDE DEF target, existing
<1>9. CASE existing = None \/ IsSelfConsistent(existing, job.key)
  <2>1. Install(job.carried, FALSE, "lease")
    BY <1>2, <1>9
  <2>2. QED BY <1>8, <1>9, <2>1
<1>10. CASE existing # None /\ ~IsSelfConsistent(existing, job.key)
  <2>1. Fails("busy") \/ Install(job.carried, TRUE, "lease")
    BY <1>2, <1>6, <1>10
  <2>2. QED BY <1>7, <1>8, <2>1
<1>11. QED BY <1>9, <1>10

\* No refusal is for a contradiction.
LEMMA ExcusedStep ==
  ASSUME Inv, FitInv, FailuresAreExcused, [Next]_vars
  PROVE  FailuresAreExcused'
<1>1. TypeOK
  BY DEF Inv
<1>2. CASE Excused
  BY <1>2 DEF Excused, FailuresAreExcused, At
<1>3. CASE job' = job \/ job' = None
  BY <1>3 DEF FailuresAreExcused, At
<1>4. ASSUME job # None, NEW pc, pc # "failed", Goes(pc) PROVE Excused
  BY <1>1, <1>4, JobsAreTyped DEF Goes, Excused, Jobs
<1>5. ASSUME NEW p \in Processes, NEW root \in Requested,
             NEW kind \in {"resolve", "legacy"}, Begin(p, root, kind)
      PROVE  Excused
  BY <1>5, BeginChecks
<1>6. CASE ChooseSource \/ PlanMove \/ InstallAfterMove \/ OwnTarget
  BY <1>2, <1>6, ChooseChecks, PlanChecks, InstallAfterMoveChecks, OwnTargetChecks
<1>7. CASE MakeTarget \/ WriteIntent \/ WriteManifest \/ SweepIntents
  BY <1>2, <1>4, <1>7 DEF MakeTarget, WriteIntent, WriteManifest, SweepIntents, At
<1>8. CASE CleanUpIntents
  BY <1>1, <1>2, <1>4, <1>8, JobsAreTyped DEF CleanUpIntents, At
<1>9. CASE QuarantineTarget
  BY <1>1, <1>2, <1>9, QuarantineTargetEffect DEF Excused
<1>10. CASE RenameSource
  <2>1. job # None /\ job.pc = "rename" /\ job \in Jobs
    BY <1>1, <1>10, JobsAreTyped DEF RenameSource, At
  <2>2. job'.pc = "install"
    BY <1>10, <2>1 DEF RenameSource, Jobs
  <2>3. QED BY <1>2, <2>2 DEF Excused
<1>11. CASE TakeLease \/ TakeLeaseAndRebuildLock \/ Fail \/ Kill
  BY <1>3, <1>11 DEF TakeLease, TakeLeaseAndRebuildLock, Leased, Fail, Kill
<1>12. ASSUME NEW p \in Processes,
              OpenIndex(p) \/ PublishIndex(p) \/ ClearIndex(p) \/ EndCommand(p)
       PROVE  job' = job
  BY <1>12 DEF OpenIndex, PublishIndex, ClearIndex, EndCommand
<1>13. CASE FileOperationFails
  BY <1>1, <1>2, <1>13, RefusalCause, JobsAreTyped DEF FileOperationFails, Excused
<1>14. ASSUME NEW root \in Roots, Remount(root) \/ Collect(root) PROVE job' = job
  BY <1>14 DEF Remount, Collect
<1>15. CASE UNCHANGED vars
  BY <1>3, <1>15 DEF vars
<1>16. QED BY <1>2, <1>3, <1>5, <1>6, <1>7, <1>8, <1>9, <1>10, <1>11, <1>12, <1>13,
              <1>14, <1>15 DEF Next, Resolve

(***************************************************************************)
(* What a resolution is going to record keeps fitting.                     *)
(***************************************************************************)
\* It is about a source, a target and a request only.
LEMMA ResolutionFrame ==
  ASSUME TypeOK, ResolutionFits, UNCHANGED <<job, intents, canonical>>,
         job # None =>
           /\ job.pc \in MovePCs => dirs'[job.source] = dirs[job.source]
           /\ LET here == Here(job.key)
              IN  \/ dirs'[here] = dirs[here]
                  \/ dirs'[here].owner = dirs[here].owner /\ dirs[here].owner # None
  PROVE  ResolutionFits'
<1>1. CASE job = None
  BY <1>1 DEF ResolutionFits, RequestFits, SourceFits, RecordFits, EndFits
<1>2. CASE job # None
  <2>1. RequestFits'
    BY <1>2 DEF ResolutionFits, RequestFits
  <2>2. SourceFits'
    BY <1>2 DEF ResolutionFits, SourceFits, IsSource, Known, InManifest, OwnIntents,
                GenerationIntents, MovePCs
  <2>3. RecordFits'
    BY <1>2 DEF ResolutionFits, RecordFits, Includes, MovePCs
  <2>4. EndFits'
    BY <1>2 DEF ResolutionFits, EndFits
  <2>5. QED BY <2>1, <2>2, <2>3, <2>4 DEF ResolutionFits
<1>3. QED BY <1>1, <1>2

\* The request stays as it is.
LEMMA RequestStays ==
  ASSUME RequestFits, job # None, SameRequest, UNCHANGED canonical,
         job'.pc = "failed" \/ job.pc # "failed",
         job'.pc \in OwnKeyPCs \/ job'.next = "sweep"
           => job.pc \in OwnKeyPCs \/ job.next = "sweep"
  PROVE  RequestFits'
BY DEF RequestFits, SameRequest

LEMMA RecordsNothing ==
  ASSUME RequestFits', job' # None, job'.pc \in {"failed", "target", "choose", "own"}
  PROVE  ResolutionFits'
BY DEF ResolutionFits, SourceFits, RecordFits, EndFits

LEMMA BeginFits ==
  ASSUME Inv, FitInv, NEW p \in Processes, NEW root \in Requested,
         NEW kind \in {"resolve", "legacy"}, Begin(p, root, kind)
  PROVE  ResolutionFits'
<1>1. TypeOK
  BY DEF Inv
<1> DEFINE pinned == Here(at[p].key)
<1>2. /\ UNCHANGED <<canonical, dirs>> /\ job' # None
      /\ job'.want.norm = canonical[root] /\ job'.want.raw = root
      /\ Identities(job'.want) = {canonical[root], root}
      /\ {canonical[root], root} \subseteq Identities(job'.carried)
      /\ job'.next = "lease"
      /\ \/ /\ job'.pc \in {"failed", "target"}
            /\ job'.norm = canonical[root] /\ job'.key = canonical[root]
         \/ /\ at[p] # None /\ job'.key = at[p].key /\ job'.norm \in Known(pinned)
            /\ Identities(job'.owner) = Known(pinned) \cup Identities(job'.carried)
            /\ job'.pc = "intent" \/ job'.pc = "cleanup"
  BY <1>1, BeginEffect
<1>3. /\ job'.pc # "failed" => IsBounded(job'.carried)
      /\ job'.pc = "intent" => IsBounded(job'.owner)
  BY BeginChecks
<1>4. CASE /\ job'.pc \in {"failed", "target"}
           /\ job'.norm = canonical[root] /\ job'.key = canonical[root]
  <2>1. RequestFits'
    BY <1>2, <1>3, <1>4 DEF RequestFits
  <2>2. QED BY <1>2, <1>4, <2>1, RecordsNothing
<1>5. CASE /\ at[p] # None /\ job'.key = at[p].key /\ job'.norm \in Known(pinned)
           /\ Identities(job'.owner) = Known(pinned) \cup Identities(job'.carried)
           /\ job'.pc = "intent" \/ job'.pc = "cleanup"
  <2>1. /\ dirs[pinned].owner # None /\ at[p].key \in Identities(dirs[pinned].owner)
    BY <1>5, LeasedDirectories
  <2>2. Identities(dirs[pinned].owner) \subseteq Identities(job'.owner)
    BY <1>5, <2>1 DEF Known, InManifest
  <2>3. RequestFits'
    BY <1>2, <1>3, <1>5 DEF RequestFits, OwnKeyPCs
  <2>4. SourceFits'
    BY <1>5 DEF SourceFits
  <2> HIDE DEF pinned
  <2>5. Here(job'.key) = pinned
    BY <1>5 DEF pinned
  <2>6. RecordFits'
    BY <1>2, <1>3, <1>5, <2>1, <2>2, <2>5 DEF RecordFits, Includes
  <2>7. EndFits'
    BY <1>2, <1>5 DEF EndFits
  <2>8. QED BY <2>3, <2>4, <2>6, <2>7 DEF ResolutionFits
<1>6. QED BY <1>2, <1>4, <1>5

LEMMA ChooseFits ==
  ASSUME Inv, FitInv, ChooseSource
  PROVE  ResolutionFits'
<1>1. TypeOK /\ RequestFits /\ KeysAreNamed
  BY DEF Inv, FitInv, ResolutionFits
<1>2. /\ job # None /\ job.pc = "choose" /\ SameRequest
      /\ UNCHANGED <<dirs, intents, canonical>>
      /\ \/ job'.pc \in {"own", "failed"}
         \/ /\ job'.pc = "plan"
            /\ job'.source \in Places /\ HasIndex(job'.source)
            /\ \/ job'.source[2] = job.want.raw
               \/ dirs[job'.source].db.root \in {job.want.norm, job.want.raw}
               \/ Known(job'.source) \cap Identities(job.want) # {}
  BY <1>1, ChooseSourceEffect DEF Elsewhere
<1>3. RequestFits'
  BY <1>1, <1>2, RequestStays DEF OwnKeyPCs
<1>4. CASE job'.pc \in {"own", "failed"}
  BY <1>2, <1>3, <1>4, RecordsNothing DEF SameRequest
<1>5. CASE job'.pc = "plan"
  <2>1. PICK place : place = job'.source
    OBVIOUS
  <2>2. /\ place \in Places /\ Exists(place) /\ dirs[place].db # None
        /\ Fits(intents, dirs[place], place)
    BY <1>2, <1>5, <2>1 DEF HasIndex, FitInv, DirectoriesFit
  <2>3. /\ \/ place[2] = job.want.raw
           \/ dirs[place].db.root \in {job.want.norm, job.want.raw}
           \/ Known(place) \cap Identities(job.want) # {}
        /\ {job.want.norm, job.want.raw} \subseteq Identities(job.want)
    BY <1>2, <1>5, <2>1, RequestIsKnown
  <2>4. IsSource(place)
    <3>1. CASE dirs[place].owner = None /\ OwnIntents(place) = {}
      <4>1. Known(place) = {}
        BY <3>1 DEF Known, InManifest, Named
      <4>2. dirs[place].db.root = place[2]
        BY <2>2, <3>1 DEF Fits, UnownedFits, HasOwn, OwnIntents, GenerationIntents
      <4>3. QED BY <2>3, <3>1, <4>1, <4>2 DEF IsSource
    <3>2. CASE dirs[place].owner # None \/ OwnIntents(place) # {}
      <4>1. place[2] \in Known(place) /\ dirs[place].db.root \in Known(place)
        BY <1>1, <2>2, <3>2, RecordedNames
      <4>2. QED BY <2>3, <3>2, <4>1 DEF IsSource
    <3>3. QED BY <3>1, <3>2
  <2>5. IsSource(place)'
    BY <1>2, <2>4 DEF IsSource, Known, InManifest, OwnIntents, GenerationIntents, SameRequest
  <2>6. SourceFits'
    BY <2>1, <2>5 DEF SourceFits
  <2>7. RecordFits' /\ EndFits'
    BY <1>5 DEF RecordFits, EndFits
  <2>8. QED BY <1>3, <2>6, <2>7 DEF ResolutionFits
<1>6. QED BY <1>2, <1>4, <1>5

LEMMA MoveFits ==
  ASSUME Inv, FitInv, PlanMove \/ QuarantineTarget \/ RenameSource
  PROVE  ResolutionFits'
<1>1. TypeOK /\ RequestFits /\ RecordFits
  BY DEF Inv, FitInv, ResolutionFits
<1>2. job # None /\ job.pc \in MovePCs /\ job.pc \in OwnKeyPCs /\ job.pc # "failed"
  BY DEF PlanMove, QuarantineTarget, RenameSource, At, MovePCs, OwnKeyPCs
<1>3. /\ job.source \in Places /\ Exists(job.source) /\ job.source # Here(job.key)
      /\ Here(job.key) \in Places
  BY <1>1, <1>2, PlacesAreThere, JobsAreTyped
<1>4. ASSUME job'.pc \in {"quarantine", "rename"}, SameRequest, UNCHANGED canonical,
             job'.source = job.source,
             Includes(job'.owner, dirs'[job.source]),
             HasOwn(intents', dirs'[job.source], Here(job.key)),
             IsBounded(job'.owner), job.key \in Identities(job'.owner)
      PROVE  ResolutionFits'
  <2>1. RequestFits'
    BY <1>1, <1>2, <1>4, RequestStays
  <2>2. job'.key = job.key
    BY <1>4 DEF SameRequest
  <2>3. RecordFits'
    BY <1>4, <2>2 DEF RecordFits
  <2>4. SourceFits' /\ EndFits'
    BY <1>4 DEF SourceFits, EndFits
  <2>5. QED BY <2>1, <2>3, <2>4 DEF ResolutionFits
<1>5. CASE PlanMove
  <2>1. job.pc = "plan" /\ Exists(Here(job.key))
    BY <1>2, <1>5, PlacesAreThere DEF PlanMove, At, TargetPCs
  <2>2. /\ SameRequest /\ job'.source = job.source /\ Issued(job.source)
        /\ UNCHANGED canonical /\ job'.pc \in {"failed", "quarantine"}
    BY <1>1, <1>3, <1>5, <2>1, PlanMoveEffect DEF Elsewhere
  <2>3. CASE job'.pc = "failed"
    <3>1. RequestFits'
      BY <1>1, <1>2, <2>2, <2>3, RequestStays
    <3>2. QED BY <2>2, <2>3, <3>1, RecordsNothing DEF SameRequest
  <2>4. CASE job'.pc = "quarantine"
    <3>1. /\ job.key \in Identities(job'.owner)
          /\ Includes(job'.owner, dirs[job.source])
          /\ intents' = intents \cup {[key |-> job.key, gen |-> dirs'[job.source].gen,
                                       owner |-> job'.owner]}
      BY <1>5, <2>4, PlanIncludes
    <3>2. IsBounded(job'.owner)
      BY <1>5, <2>4, PlanChecks
    <3>3. Includes(job'.owner, dirs'[job.source])
      BY <2>2, <3>1 DEF Includes, Issued
    <3>4. HasOwn(intents', dirs'[job.source], Here(job.key))
      <4> DEFINE new == [key |-> job.key, gen |-> dirs'[job.source].gen,
                         owner |-> job'.owner]
      <4>1. new \in intents'
        BY <3>1
      <4>2. new.gen = dirs'[job.source].gen /\ new.key = job.key
        OBVIOUS
      <4> HIDE DEF new
      <4>3. QED BY <4>1, <4>2 DEF HasOwn
    <3>5. QED BY <1>4, <2>2, <2>4, <3>1, <3>2, <3>3, <3>4
  <2>5. QED BY <2>2, <2>3, <2>4
<1>6. CASE QuarantineTarget
  <2>1. /\ job.pc = "quarantine" /\ SameRequest /\ job'.pc = "rename"
        /\ job'.owner = job.owner /\ job'.source = job.source
        /\ UNCHANGED <<intents, canonical>> /\ dirs'[job.source] = dirs[job.source]
    BY <1>1, <1>3, <1>6, QuarantineTargetEffect DEF Elsewhere
  <2>2. /\ Includes(job.owner, dirs[job.source])
        /\ HasOwn(intents, dirs[job.source], Here(job.key))
        /\ IsBounded(job.owner) /\ job.key \in Identities(job.owner)
    BY <1>1, <1>2, <2>1 DEF RecordFits
  <2>3. QED BY <1>4, <2>1, <2>2
<1>7. CASE RenameSource
  <2>1. /\ job.pc = "rename" /\ SameRequest /\ job'.pc = "install"
        /\ job'.owner = job.owner /\ UNCHANGED canonical
        /\ dirs'[Here(job.key)] = dirs[job.source]
    BY <1>1, <1>3, <1>7, RenameSourceEffect DEF Elsewhere
  <2>2. /\ Includes(job.owner, dirs[job.source])
        /\ IsBounded(job.owner) /\ job.key \in Identities(job.owner)
    BY <1>1, <1>2, <2>1 DEF RecordFits
  <2>3. RequestFits'
    BY <1>1, <1>2, <2>1, RequestStays
  <2>4. Here(job'.key) = Here(job.key)
    BY <2>1 DEF SameRequest
  <2>5. RecordFits'
    BY <2>1, <2>2, <2>4 DEF RecordFits, SameRequest
  <2>6. SourceFits' /\ EndFits'
    BY <2>1 DEF SourceFits, EndFits
  <2>7. QED BY <2>3, <2>5, <2>6 DEF ResolutionFits
<1>8. QED BY <1>5, <1>6, <1>7

LEMMA InstallFits ==
  ASSUME Inv, FitInv, job # None, job.pc \in {"install", "own"},
         NEW desired, NEW next \in {"lease", "sweep"}, Installs(desired, next),
         job'.pc = "intent" => IsBounded(job'.owner),
         job.pc = "install" => next = "sweep",
         job.key \in Identities(desired),
         dirs[Here(job.key)].owner = None => Includes(desired, dirs[Here(job.key)]),
         next = "lease" => Identities(job.want) \subseteq Identities(desired)
  PROVE  ResolutionFits'
<1> DEFINE here == Here(job.key)
<1>1. TypeOK /\ RequestFits
  BY DEF Inv, FitInv, ResolutionFits
<1>2. SameRequest /\ UNCHANGED <<dirs, intents, canonical>> /\ Here(job'.key) = here
  BY DEF Installs, Elsewhere, SameRequest
<1>3. RequestFits'
  BY <1>1, <1>2, RequestStays DEF OwnKeyPCs
<1>4. next = "lease" => {job.norm} \cup Identities(job.want) \subseteq Identities(desired)
  BY <1>1 DEF RequestFits, OwnKeyPCs, Identities
<1>5. CASE job'.pc = "failed"
  BY <1>2, <1>3, <1>5, RecordsNothing DEF SameRequest
<1>6. CASE job'.pc # "failed"
  <2>1. /\ job'.pc \in {"intent", "cleanup"} /\ job'.next = next
        /\ Identities(desired) \subseteq Identities(job'.owner)
    BY <1>6 DEF Installs, InManifest
  <2>2. job'.pc = "intent" => Includes(job'.owner, dirs[here])
    BY <2>1 DEF Installs, InManifest, Includes
  <2>3. job'.pc = "cleanup" => job.key \in Identities(dirs[here].owner)
    BY <2>1 DEF Installs, InManifest
  <2> HIDE DEF here
  <2>4. RecordFits'
    BY <1>2, <2>1, <2>2, <2>3 DEF RecordFits, SameRequest
  <2>5. EndFits'
    BY <1>2, <1>4, <2>1 DEF EndFits, SameRequest
  <2>6. SourceFits'
    BY <2>1 DEF SourceFits
  <2>7. QED BY <1>3, <2>4, <2>5, <2>6 DEF ResolutionFits
<1>7. QED BY <1>5, <1>6

LEMMA InstallationFits ==
  ASSUME Inv, FitInv, InstallAfterMove \/ OwnTarget
  PROVE  ResolutionFits'
<1>1. job # None /\ job.pc \in {"install", "own"}
  BY DEF InstallAfterMove, OwnTarget, At
<1>2. /\ TypeOK /\ RecordFits /\ Exists(Here(job.key)) /\ Here(job.key) \in Places
      /\ Here(job.key)[2] = job.key
      /\ Fits(intents, dirs[Here(job.key)], Here(job.key))
  <2>1. TypeOK /\ Exists(Here(job.key))
    BY <1>1, PlacesAreThere DEF TargetPCs, Inv
  <2>2. Here(job.key) \in Places /\ Here(job.key)[2] = job.key
    BY <1>1, <2>1, JobsAreTyped, PlacesAreTyped
  <2>3. QED BY <2>1, <2>2 DEF FitInv, DirectoriesFit, ResolutionFits
<1>3. CASE InstallAfterMove
  <2>1. job.pc = "install" /\ Installs(job.owner, "sweep")
    BY <1>2, <1>3, InstallAfterMoveEffect
  <2>2. Includes(job.owner, dirs[Here(job.key)]) /\ job.key \in Identities(job.owner)
    BY <1>1, <1>2, <2>1 DEF RecordFits
  <2>3. job'.pc = "intent" => IsBounded(job'.owner)
    BY <1>3, InstallAfterMoveChecks
  <2>4. QED BY <1>1, <2>1, <2>2, <2>3, InstallFits
<1>4. CASE OwnTarget
  <2>1. job.pc = "own" /\ Installs(job.carried, "lease")
    BY <1>2, <1>4, OwnTargetEffect
  <2>2. /\ job.key \in Identities(job.carried)
        /\ Identities(job.want) \subseteq Identities(job.carried)
    BY <1>1, <2>1, RequestIsKnown DEF OwnKeyPCs
  <2>3. dirs[Here(job.key)].owner = None => Includes(job.carried, dirs[Here(job.key)])
    <3>1. SUFFICES ASSUME dirs[Here(job.key)].owner = None, dirs[Here(job.key)].db # None
                   PROVE  dirs[Here(job.key)].db.root \in Identities(job.carried)
      BY DEF Includes
    <3>2. CASE HasOwn(intents, dirs[Here(job.key)], Here(job.key))
      <4>1. PICK intent \in intents :
              intent.gen = dirs[Here(job.key)].gen /\ Here(job.key) = Here(intent.key)
        BY <3>2 DEF HasOwn
      <4>2. intent.key = job.key
        BY <4>1 DEF Here
      <4>3. Identities(intent.owner) \subseteq Identities(job.carried)
        BY <1>1, <1>2, <2>1, <4>1, <4>2 DEF Inv, HistoryInv, CarriedInv, CoversOwn
      <4>4. dirs[Here(job.key)].db.root \in Identities(intent.owner)
        BY <1>2, <3>1, <4>1 DEF Fits, UnownedFits
      <4>5. QED BY <4>3, <4>4
    <3>3. CASE ~HasOwn(intents, dirs[Here(job.key)], Here(job.key))
      BY <1>2, <2>2, <3>1, <3>3 DEF Fits, UnownedFits
    <3>4. QED BY <3>2, <3>3
  <2>4. job'.pc = "intent" => IsBounded(job'.owner)
    BY <1>4, OwnTargetChecks
  <2>5. QED BY <1>1, <2>1, <2>2, <2>3, <2>4, InstallFits
<1>5. QED BY <1>3, <1>4

\* The steps of an installation.
LEMMA WritingFits ==
  ASSUME Inv, FitInv, MakeTarget \/ WriteIntent \/ WriteManifest
  PROVE  ResolutionFits'
<1> DEFINE here == Here(job.key)
<1>1. TypeOK /\ RequestFits /\ RecordFits /\ EndFits
  BY DEF Inv, FitInv, ResolutionFits
<1>2. CASE MakeTarget
  <2>1. /\ job # None /\ job.pc = "target" /\ SameRequest /\ job'.pc = "choose"
        /\ job'.next = job.next /\ UNCHANGED canonical
    BY <1>1, <1>2, MakeTargetEffect DEF Elsewhere
  <2>2. RequestFits'
    BY <1>1, <2>1, RequestStays DEF OwnKeyPCs
  <2>3. QED BY <2>1, <2>2, RecordsNothing DEF SameRequest
<1>3. CASE WriteIntent
  <2>1. job # None /\ job.pc = "intent"
    BY <1>3 DEF WriteIntent, At
  <2>2. Exists(here)
    BY <2>1, PlacesAreThere DEF TargetPCs
  <2>3. /\ SameRequest /\ job'.pc = "manifest" /\ job'.next = job.next
        /\ job'.owner = job.owner /\ Issued(here) /\ UNCHANGED canonical
    BY <1>1, <1>3, <2>2, WriteIntentEffect DEF Elsewhere
  <2>4. dirs'[here].db = dirs[here].db /\ dirs'[here].owner = dirs[here].owner
    BY <2>3 DEF Issued
  <2>5. Here(job'.key) = here /\ job'.key = job.key
    BY <2>3 DEF SameRequest
  <2> HIDE DEF here
  <2>6. RequestFits'
    BY <1>1, <2>1, <2>3, RequestStays DEF OwnKeyPCs
  <2>7. Includes(job.owner, dirs[here]) /\ IsBounded(job.owner)
          /\ job.key \in Identities(job.owner)
    BY <1>1, <2>1 DEF RecordFits, here
  <2>8. Includes(job.owner, dirs'[here])
    BY <2>4, <2>7 DEF Includes
  <2>9. RecordFits'
    BY <2>3, <2>5, <2>7, <2>8 DEF RecordFits
  <2>10. EndFits'
    BY <1>1, <2>1, <2>3 DEF EndFits, SameRequest
  <2>11. SourceFits'
    BY <2>3 DEF SourceFits
  <2>12. QED BY <2>6, <2>9, <2>10, <2>11 DEF ResolutionFits
<1>4. CASE WriteManifest
  <2>1. job # None /\ job.pc = "manifest"
    BY <1>4 DEF WriteManifest, At
  <2>2. Exists(here)
    BY <2>1, PlacesAreThere DEF TargetPCs
  <2>3. /\ SameRequest /\ job'.pc = "cleanup" /\ job'.next = job.next
        /\ job'.owner = job.owner /\ UNCHANGED canonical /\ dirs'[here].owner = job.owner
    BY <1>1, <1>4, <2>2, WriteManifestEffect DEF Elsewhere
  <2>4. Here(job'.key) = here /\ job'.key = job.key
    BY <2>3 DEF SameRequest
  <2> HIDE DEF here
  <2>5. RequestFits'
    BY <1>1, <2>1, <2>3, RequestStays DEF OwnKeyPCs
  <2>6. job.key \in Identities(job.owner)
    BY <1>1, <2>1 DEF RecordFits
  <2>7. RecordFits'
    BY <2>3, <2>4, <2>6 DEF RecordFits
  <2>8. EndFits'
    BY <1>1, <2>1, <2>3 DEF EndFits, SameRequest
  <2>9. SourceFits'
    BY <2>3 DEF SourceFits
  <2>10. QED BY <2>5, <2>7, <2>8, <2>9 DEF ResolutionFits
<1>5. QED BY <1>2, <1>3, <1>4

\* The removal of intents.  What a resolution ends with is what it installed,
\* unless an earlier one was cut short in the directory.
LEMMA RemovalFits ==
  ASSUME Inv, FitInv, ~CutShortInUse, CleanUpIntents \/ SweepIntents
  PROVE  ResolutionFits'
<1> DEFINE here == Here(job.key)
<1>1. /\ TypeOK /\ RequestFits /\ RecordFits /\ EndFits /\ InstalledFirst
  BY DEF Inv, HistoryInv, FitInv, ResolutionFits
<1>2. CASE CleanUpIntents
  <2>1. /\ job # None /\ job.pc = "cleanup" /\ SameRequest /\ job'.pc = job.next
        /\ job'.next = job.next /\ UNCHANGED <<dirs, canonical>>
        /\ job.next \in {"lease", "sweep"}
    BY <1>1, <1>2, CleanUpIntentsEffect, JobsAreTyped DEF Elsewhere
  <2>2. Here(job'.key) = here /\ job'.key = job.key
    BY <2>1 DEF SameRequest
  <2>3. RequestFits'
    BY <1>1, <2>1, RequestStays DEF OwnKeyPCs
  <2> HIDE DEF here
  <2>4. job.key \in Identities(dirs[here].owner)
    BY <1>1, <2>1 DEF RecordFits, here
  <2>5. RecordFits'
    BY <2>1, <2>2, <2>4 DEF RecordFits
  <2>6. Identities(job.owner) \subseteq Identities(dirs[here].owner)
    BY <1>1, <2>1 DEF InstalledFirst, here
  <2>7. EndFits'
    BY <1>1, <2>1, <2>2, <2>6 DEF EndFits, SameRequest
  <2>8. SourceFits'
    BY <2>1 DEF SourceFits
  <2>9. QED BY <2>3, <2>5, <2>7, <2>8 DEF ResolutionFits
<1>3. CASE SweepIntents
  <2>1. /\ job # None /\ job.pc = "sweep" /\ SameRequest /\ job'.pc = "own"
        /\ job'.next = job.next /\ UNCHANGED canonical
    BY <1>1, <1>3, SweepIntentsEffect DEF Elsewhere
  <2>2. RequestFits'
    BY <1>1, <2>1, RequestStays DEF OwnKeyPCs
  <2>3. QED BY <2>1, <2>2, RecordsNothing DEF SameRequest
<1>4. QED BY <1>2, <1>3

\* What commands do with a directory that they have leased: it is no source,
\* and keeps its owner.
LEMMA UseFits ==
  ASSUME Inv, FitInv, NEW p \in Processes,
         OpenIndex(p) \/ PublishIndex(p) \/ ClearIndex(p)
  PROVE  ResolutionFits'
<1>1. /\ TypeOK /\ ResolutionFits /\ MoveInv
      /\ building \subseteq {q \in Processes : at[q] # None}
  BY DEF Inv, PinInv, FitInv, TypeOK
<1>2. at[p] # None
  BY <1>1 DEF OpenIndex, PublishIndex, ClearIndex
<1>3. Exists(Here(at[p].key)) /\ dirs[Here(at[p].key)].owner # None
      /\ Here(at[p].key) \in Places /\ at[p].key \in Roots
  BY <1>1, <1>2, LeasedDirectories, LeasedPlaces
<1>4. /\ UNCHANGED <<job, intents, canonical>> /\ Amends(Here(at[p].key))
  <2>1. CASE OpenIndex(p)
    BY <1>1, <2>1, OpenIndexEffect DEF Elsewhere
  <2>2. CASE PublishIndex(p)
    BY <1>1, <1>3, <2>2, PublishIndexEffect
  <2>3. CASE ClearIndex(p)
    BY <1>1, <1>3, <2>3, ClearIndexEffect
  <2>4. QED BY <2>1, <2>2, <2>3
<1>5. ASSUME job # None, job.pc \in MovePCs
      PROVE  dirs'[job.source] = dirs[job.source]
  <2>1. job.source \in Places /\ (InNewBase(job.source) => ~IsLeased(job.source[2]))
    BY <1>1, <1>5, PlacesAreThere DEF MoveInv
  <2>2. job.source # Here(at[p].key)
    BY <1>2, <1>3, <2>1, FreeKeys, PlacesAreTyped
  <2>3. QED BY <1>4, <2>1, <2>2 DEF Amends
<1>6. ASSUME job # None
      PROVE  LET here == Here(job.key)
             IN  \/ dirs'[here] = dirs[here]
                 \/ dirs'[here].owner = dirs[here].owner /\ dirs[here].owner # None
  <2>1. Here(job.key) \in Places
    BY <1>1, <1>6, JobsAreTyped
  <2>2. QED BY <1>3, <1>4, <2>1 DEF Amends
<1>7. QED BY <1>1, <1>4, <1>5, <1>6, ResolutionFrame

LEMMA ResolutionStep ==
  ASSUME Inv, FitInv, ~CutShortInUse, [Next]_vars
  PROVE  ResolutionFits'
<1>1. TypeOK /\ RequestFits /\ ResolutionFits
  BY DEF Inv, FitInv, ResolutionFits
<1>2. ASSUME NEW p \in Processes, NEW root \in Requested,
             NEW kind \in {"resolve", "legacy"}, Begin(p, root, kind)
      PROVE  ResolutionFits'
  BY <1>2, BeginFits
<1>3. CASE job' = None
  BY <1>3 DEF ResolutionFits, RequestFits, SourceFits, RecordFits, EndFits
<1>4. CASE ChooseSource \/ PlanMove \/ QuarantineTarget \/ RenameSource
           \/ InstallAfterMove \/ OwnTarget
  BY <1>4, ChooseFits, MoveFits, InstallationFits
<1>5. CASE MakeTarget \/ WriteIntent \/ WriteManifest \/ CleanUpIntents \/ SweepIntents
  BY <1>5, WritingFits, RemovalFits
<1>6. CASE TakeLease \/ TakeLeaseAndRebuildLock \/ Fail \/ Kill
  BY <1>3, <1>6 DEF TakeLease, TakeLeaseAndRebuildLock, Leased, Fail, Kill
<1>7. ASSUME NEW p \in Processes, OpenIndex(p) \/ PublishIndex(p) \/ ClearIndex(p)
      PROVE  ResolutionFits'
  BY <1>7, UseFits
<1>8. CASE UNCHANGED <<dirs, intents, job, canonical>>
  BY <1>1, <1>8, ResolutionFrame
<1>9. ASSUME NEW p \in Processes, EndCommand(p) PROVE ResolutionFits'
  BY <1>8, <1>9 DEF EndCommand
<1>10. CASE FileOperationFails
  <2>1. job # None /\ job.pc = "rename" => job.trash # None
    BY PlacesAreThere
  <2>2. /\ job # None /\ SameRequest /\ job'.pc = "failed" /\ job'.next = job.next
        /\ UNCHANGED canonical
    BY <1>1, <1>10, <2>1, FileOperationFailsEffect
  <2>3. RequestFits'
    BY <1>1, <2>2, RequestStays DEF OwnKeyPCs
  <2>4. QED BY <2>2, <2>3, RecordsNothing DEF SameRequest
<1>11. ASSUME NEW root \in Roots, Remount(root) \/ Collect(root) PROVE job' = None
  BY <1>11 DEF Remount, Collect
<1>12. CASE UNCHANGED vars
  BY <1>8, <1>12 DEF vars
<1>13. QED BY <1>2, <1>3, <1>4, <1>5, <1>6, <1>7, <1>9, <1>10, <1>11, <1>12
           DEF Next, Resolve

(***************************************************************************)
(* The initial states.                                                     *)
(***************************************************************************)
\* An index of an older version, and one with its manifest.
LEMMA FirstDirectoriesFit ==
  ASSUME NEW place \in Places
  PROVE  /\ Fits({}, LeftBehind(place[2]), place)
         /\ Fits({}, Settled(place[2]), place)
<1>1. place[2] \in Roots
  BY PlacesAreTyped
<1> DEFINE root == place[2]
           db == [root |-> root, of |-> Project[root]]
<1>2. db \in [root : Roots, of : STRING] /\ db # None /\ db.root = root
  BY <1>1, RootsAssumption, RecordsAssumption
<1>3. LeftBehind(root).owner = None /\ LeftBehind(root).db = db
  BY DEF LeftBehind, EmptyDirectory
<1>4. Settled(root).owner = NewOwner(root, root) /\ Settled(root).db = db
  BY DEF Settled
<1>5. /\ NewOwner(root, root) \in Manifest
      /\ root \in Identities(NewOwner(root, root))
      /\ NewOwner(root, root).known = {}
  BY <1>1, OwnersAreNamed DEF NewOwner, Identities
<1>6. NewOwner(root, root) # None
  BY <1>5, RecordsAssumption
<1>7. IsBounded(NewOwner(root, root))
  <2>1. Cardinality({}) = 0
    BY FS_EmptySet
  <2>2. QED BY <1>5, <2>1, BoundsAssumption DEF IsBounded
<1> HIDE DEF db, root
<1>8. Fits({}, LeftBehind(root), place)
  BY <1>2, <1>3 DEF Fits, OwnerFits, UnownedFits, root
<1>9. Fits({}, Settled(root), place)
  BY <1>2, <1>4, <1>5, <1>6, <1>7 DEF Fits, OwnerFits, UnownedFits, root
<1>10. QED BY <1>8, <1>9 DEF root

LEMMA InitFit == Init => FitInv
<1> SUFFICES ASSUME Init PROVE FitInv
  OBVIOUS
<1>1. PICK left \in Leftovers :
        dirs = [place \in Places |->
                  IF place \in left THEN LeftBehind(place[2])
                  ELSE IF place[1] = "new" /\ place[2] \in DOMAIN FirstGenerations
                  THEN Settled(place[2]) ELSE None]
  BY DEF Init
<1>2. intents = {} /\ job = None /\ at = [p \in Processes |-> None]
  BY DEF Init
<1>3. \A place \in Places :
        \/ dirs[place] = None
        \/ dirs[place] = LeftBehind(place[2])
        \/ dirs[place] = Settled(place[2])
  BY <1>1
<1>4. DirectoriesFit
  BY <1>2, <1>3, FirstDirectoriesFit DEF DirectoriesFit, Exists
<1>5. KeysAreNamed /\ ResolutionFits /\ LeasesFit
  BY <1>2 DEF KeysAreNamed, ResolutionFits, RequestFits, SourceFits, RecordFits,
              EndFits, LeasesFit
<1>6. QED BY <1>4, <1>5 DEF FitInv

(***************************************************************************)
(* Theorems.                                                               *)
(***************************************************************************)
\* No resolution is refused because the manifest, the intents and the index of
\* a directory contradict each other, whatever kills, failing calls, remounts
\* and moves by other commands left of them: every later command can resume
\* what was cut short.  It takes that no installation is cut short in a
\* directory in use.
THEOREM NothingContradicts == Spec => (~CutShortInUse => []FailuresAreExcused)
<1>1. Init => Inv /\ FitInv /\ FailuresAreExcused
  BY InitInv, InitFit DEF Init, FailuresAreExcused, At
<1>2. Inv /\ [Next]_vars => Inv'
  BY TypeStep, PinStep, ApartStep, IndexesStep, GenerationsStep, StraysStep,
     RecordingStep, InUseStep DEF Inv, HistoryInv, RecordingInv
<1>3. SUFFICES ASSUME ~CutShortInUse PROVE Spec => []FailuresAreExcused
  OBVIOUS
<1>4. Inv /\ FitInv /\ [Next]_vars => FitInv'
  <2>1. Inv /\ FitInv /\ [Next]_vars => ResolutionFits'
    BY <1>3, ResolutionStep
  <2>2. QED BY <2>1, KeysStep, DirectoriesStep, LeasesFitStep DEF FitInv
<1>5. Inv /\ FitInv /\ FailuresAreExcused /\ [Next]_vars => FailuresAreExcused'
  BY ExcusedStep
<1>6. QED BY <1>1, <1>2, <1>4, <1>5, PTL DEF Spec

=============================================================================

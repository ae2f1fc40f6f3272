------------------------ MODULE IndexPublicationProofs ------------------------
(***************************************************************************)
(* Proofs about IndexPublication, for any number of publications, crashes  *)
(* and failures.  What concerns types is proved for all file systems, the  *)
(* rest for those that keep the order of changes to a directory.           *)
(***************************************************************************)
EXTENDS IndexPublication, TLAPS

(***************************************************************************)
(* The inductive invariant.                                                *)
(***************************************************************************)
PCs == UnlockedPCs \cup PublishPCs \cup RecoveryPCs \cup {"release"}

IsDirectory(d) ==
  /\ d \in [Names -> Files \cup StateMarkers \cup CommitMarkers \cup {None}]
  /\ \A n \in DatabaseNames : d[n] \in Files \cup {None}
  /\ d["state"] \in StateMarkers \cup {None}
  /\ d["commit"] \in CommitMarkers \cup {None}

Types ==
  /\ fileSystem \in FileSystems
  /\ dir \in images /\ \A d \in images : IsDirectory(d)
  /\ flushed \in SUBSET Files
  /\ pc \in PCs
  /\ op \in Operations \cup {"recover"} /\ after \in {"begin", "release"}
  /\ failed \in BOOLEAN
  /\ seen \in [Readers -> Files \cup {None, Closed}]
  /\ publications \in 0..MaxPublications /\ reported \in BOOLEAN
  /\ old \in Generations \cup {None} /\ target \in Generations \cup {None}
  /\ crashes \in 0..MaxCrashes[fileSystem] /\ failures \in 0..MaxFailures[fileSystem]

\* The files of the index are whole, and older than the next publication.
Whole(d) ==
  \A n \in {"live", "swap"} : d[n] # None => d[n] \in flushed /\ d[n].gen \in 0..publications

\* So is the staged generation that a marker names.
Numbered(d) == d["state"] # None => d["state"].staging \in (0..publications) \cup {None}

FilesInv == \A d \in images : Whole(d) /\ Numbered(d)

\* The staged database, up to the step that installs it.
BeforePCs == {"acquire", "begin", "writeState"} \cup RecoveryPCs
Staged(number) == IF op = "install" THEN [gen |-> number, inode |-> 0] ELSE None

StagedInv ==
  /\ pc = "acquire" => (after = "begin" <=> op # "recover")
  /\ after = "begin" /\ pc \notin {"idle", "release"} => op # "recover"
  /\ pc \in PublishPCs => after = "begin"
  /\ pc \in BeforePCs /\ after = "begin" =>
       publications < MaxPublications /\ dir["staged"] = Staged(publications + 1)
  /\ pc \in {"syncState", "link", "copy", "flushCopy", "renameCopy", "syncSwap", "replace",
             "remove"} =>
       dir["staged"] = Staged(publications) /\ target = GenerationOf(dir["staged"])
  /\ pc \in {"writeState", "syncState", "link", "copy", "flushCopy", "renameCopy", "syncSwap",
             "replace"} => dir["staged"] \in flushed \cup {None}
  /\ pc \in {"syncState", "link", "copy", "flushCopy", "renameCopy", "syncSwap"} =>
       (dir["live"] # None => dir["live"].gen < publications)

\* What the directory holds at each step of a publication...
PublishInv ==
  /\ pc \in {"begin", "writeState"} => ~Interrupted(dir)
  /\ pc \in PublishPCs \ {"begin", "writeState"} =>
       dir["state"] # None /\ dir["state"].op = op
  /\ pc \in PublishPCs \ {"syncCommit"} => dir["commit"] = None
  /\ pc = "syncState" =>
       /\ dir["swap"] = None /\ dir["pending"] = None
       /\ dir["state"].had <=> dir["live"] # None
  /\ pc \in {"link", "copy", "flushCopy", "renameCopy"} =>
       dir["state"].had /\ dir["live"] # None /\ dir["swap"] = None
  /\ pc = "link" => dir["pending"] = None
  /\ pc \in {"link", "copy"} =>
       \A d \in images : d["live"] = dir["live"] /\ d["swap"] = None
  /\ pc \in {"copy", "flushCopy", "renameCopy"} => dir["pending"] # None
  /\ pc = "copy" => dir["pending"].inode # dir["live"].inode
  /\ pc \in {"flushCopy", "renameCopy"} => dir["pending"].gen = dir["live"].gen
  /\ pc = "renameCopy" => dir["pending"] \in flushed
  /\ pc \in {"syncSwap", "remove"} =>
       dir["state"].had /\ dir["swap"] # None /\ dir["pending"] = None
  /\ pc = "remove" => op = "clear"
  /\ pc = "replace" =>
       /\ op = "install" /\ dir["pending"] = None
       /\ IF dir["state"].had THEN dir["swap"] # None
          ELSE dir["swap"] = None /\ dir["live"] = None
  /\ pc \in {"flushLive", "syncLive", "writeCommit", "syncCommit"} =>
       /\ dir["pending"] = None /\ (dir["state"].had <=> dir["swap"] # None)
       /\ dir["live"] # None <=> op = "install"
       /\ target = GenerationOf(dir["live"])
  /\ pc = "syncCommit" =>
       /\ dir["commit"] # None
       /\ dir["commit"].op = op /\ dir["commit"].token = dir["state"].token

\* ... and of a recovery.
RecoveryInv ==
  /\ pc \in RecoveryPCs \ {"recover"} => Recoverable(dir)
  /\ pc = "dropLive" =>
       \/ RollsBack(dir) /\ (dir["state"].had => dir["swap"] # None)
       \/ dir["commit"] # None /\ dir["commit"].op = "clear"
  /\ pc = "restoreSwap" =>
       RollsBack(dir) /\ dir["state"].had /\ dir["swap"] # None /\ dir["live"] = None
  /\ pc = "dropSwap" => dir["commit"] # None
  /\ pc \in {"dropPending", "syncRecovered", "dropStaged", "dropState"} =>
       Marked(dir) /\ dir["swap"] = None
  /\ pc \in {"syncRecovered", "dropStaged", "dropState"} => dir["pending"] = None
  /\ pc \in {"dropSwap", "dropPending", "syncRecovered", "dropStaged", "dropState",
             "syncNoState", "dropCommit"} => Resolve(dir) = dir["live"]
  /\ pc \in {"syncNoState", "dropCommit"} =>
       dir["state"] = None /\ dir["swap"] = None /\ dir["pending"] = None
  /\ pc = "syncNoCommit" => ~Interrupted(dir)

\* A crash leaves nothing that recovery refuses or gets wrong.
Good(d) ==
  /\ Recoverable(d)
  /\ d["commit"] # None /\ d["commit"].op = "clear" => d["live"] = None

GoodInv == \A d \in images : Good(d)

\* A crash changes the index only between the commit and the sync after it.
Value(d) == GenerationOf(Resolve(d))

ValueInv ==
  \A d \in images :
    \/ Value(d) = Value(dir)
    \/ dir["state"] # None /\ dir["commit"] # None /\ pc \notin {"dropStaged", "dropState"}

\* Whoever reports a publication has committed it.
ReportInv ==
  /\ pc \in RecoveryPCs /\ after = "release" /\ op # "recover" /\ ~failed =>
       Value(dir) = target
  /\ pc \in PublishPCs \ {"begin", "writeState"} => ~reported
  /\ reported => \A d \in images : Value(d) = target

ReaderInv ==
  \A r \in Readers : seen[r] # Closed =>
    /\ pc \in UnlockedPCs \cup {"release"}
    /\ \A d \in images : Value(d) = GenerationOf(seen[r])

Ordered == fileSystem # "reordering"

Basics == Types /\ FilesInv /\ StagedInv /\ PublishInv /\ RecoveryInv
OrderedInv == Ordered => GoodInv /\ ValueInv /\ ReportInv /\ ReaderInv

(***************************************************************************)
(* Directories.                                                            *)
(***************************************************************************)
LEMMA NoneIsNothing ==
  /\ None \notin Generations \cup {Torn} /\ None \notin Files
  /\ None \notin StateMarkers /\ None \notin CommitMarkers
BY NoneAssumption

\* What a name may refer to.
Fits(name, content) ==
  /\ content \in Files \cup StateMarkers \cup CommitMarkers \cup {None}
  /\ name \in DatabaseNames => content \in Files \cup {None}
  /\ name = "state" => content \in StateMarkers \cup {None}
  /\ name = "commit" => content \in CommitMarkers \cup {None}

LEMMA WithIsDirectory ==
  ASSUME NEW d, IsDirectory(d), NEW c, DOMAIN c \subseteq Names,
         \A n \in DOMAIN c : Fits(n, c[n])
  PROVE  /\ IsDirectory(With(d, c))
         /\ \A n \in Names : With(d, c)[n] = IF n \in DOMAIN c THEN c[n] ELSE d[n]
<1>1. \A n \in Names : With(d, c)[n] = IF n \in DOMAIN c THEN c[n] ELSE d[n]
  BY DEF With
<1>2. With(d, c) \in [Names -> Files \cup StateMarkers \cup CommitMarkers \cup {None}]
  BY DEF With, IsDirectory, Fits
<1>3. DatabaseNames \subseteq Names /\ "state" \in Names /\ "commit" \in Names
  BY DEF Names
<1>4. QED BY <1>1, <1>2, <1>3 DEF IsDirectory, Fits

LEMMA ChangeEffect ==
  ASSUME Types, NEW c, DOMAIN c \subseteq Names, \A n \in DOMAIN c : Fits(n, c[n]), Change(c)
  PROVE  /\ fileSystem' = fileSystem
         /\ \A n \in Names : dir'[n] = IF n \in DOMAIN c THEN c[n] ELSE dir[n]
         /\ dir' \in images' /\ \A e \in images' : IsDirectory(e)
         /\ \A e \in images' :
              \E d \in images : \A n \in Names : e[n] = d[n] \/ (n \in DOMAIN c /\ e[n] = c[n])
         /\ Ordered => images' = images \cup {dir'}
<1>1. \A d \in images : /\ IsDirectory(With(d, c))
                        /\ \A n \in Names : With(d, c)[n] = IF n \in DOMAIN c THEN c[n] ELSE d[n]
  BY WithIsDirectory DEF Types
<1>2. /\ fileSystem' = fileSystem /\ dir' = With(dir, c) /\ dir \in images
      /\ images' = images \cup IF fileSystem = "reordering" THEN {With(d, c) : d \in images}
                                                           ELSE {With(dir, c)}
  BY DEF Change, Types
<1>3. \A e \in images' : e \in images \/ \E d \in images : e = With(d, c)
  BY <1>2
<1>4. \A e \in images' : IsDirectory(e)
  BY <1>1, <1>3 DEF Types
<1>5. \A e \in images' :
        \E d \in images : \A n \in Names : e[n] = d[n] \/ (n \in DOMAIN c /\ e[n] = c[n])
  BY <1>1, <1>3
<1>6. dir' \in images' /\ (Ordered => images' = images \cup {dir'})
  BY <1>2 DEF Ordered
<1>7. QED BY <1>1, <1>2, <1>4, <1>5, <1>6

\* A name gets a new content.
LEMMA ChangeOne ==
  ASSUME Types, NEW name \in Names, NEW content, Fits(name, content),
         Change([n \in {name} |-> content])
  PROVE  /\ fileSystem' = fileSystem
         /\ dir'[name] = content /\ \A n \in Names \ {name} : dir'[n] = dir[n]
         /\ dir' \in images' /\ \A e \in images' : IsDirectory(e)
         /\ \A e \in images' :
              \E d \in images : /\ \A n \in Names \ {name} : e[n] = d[n]
                                /\ e[name] \in {d[name], content}
         /\ Ordered => images' = images \cup {dir'}
<1> DEFINE c == [n \in {name} |-> content]
<1>1. DOMAIN c = {name} /\ c[name] = content
  OBVIOUS
<1>2. DOMAIN c \subseteq Names /\ (\A n \in DOMAIN c : Fits(n, c[n])) /\ Change(c)
  BY <1>1
<1> HIDE DEF c
<1>3. /\ fileSystem' = fileSystem
      /\ \A n \in Names : dir'[n] = IF n \in DOMAIN c THEN c[n] ELSE dir[n]
      /\ dir' \in images' /\ \A e \in images' : IsDirectory(e)
      /\ \A e \in images' :
           \E d \in images : \A n \in Names : e[n] = d[n] \/ (n \in DOMAIN c /\ e[n] = c[n])
      /\ Ordered => images' = images \cup {dir'}
  BY <1>2, ChangeEffect
<1>4. QED BY <1>1, <1>3

LEMMA SetEffect ==
  ASSUME Types, NEW name \in Names, NEW content, Fits(name, content), Set(name, content)
  PROVE  /\ UNCHANGED <<fileSystem, flushed>>
         /\ dir'[name] = content /\ \A n \in Names \ {name} : dir'[n] = dir[n]
         /\ dir' \in images' /\ \A e \in images' : IsDirectory(e)
         /\ \A e \in images' :
              \E d \in images : /\ \A n \in Names \ {name} : e[n] = d[n]
                                /\ e[name] \in {d[name], content}
         /\ Ordered => images' = images \cup {dir'}
<1>1. Change([n \in {name} |-> content]) /\ flushed' = flushed
  BY DEF Set
<1>2. QED BY <1>1, ChangeOne

LEMMA RemoveEffect ==
  ASSUME Types, NEW name \in Names, Remove(name)
  PROVE  /\ UNCHANGED <<fileSystem, flushed>>
         /\ dir'[name] = None /\ \A n \in Names \ {name} : dir'[n] = dir[n]
         /\ dir' \in images' /\ \A e \in images' : IsDirectory(e)
         /\ \A e \in images' :
              \E d \in images : /\ \A n \in Names \ {name} : e[n] = d[n]
                                /\ e[name] \in {d[name], None}
         /\ Ordered => images' = images \cup {dir'}
<1>1. Fits(name, None) /\ Set(name, None)
  BY DEF Fits, Remove
<1>2. QED BY <1>1, SetEffect

\* A database gets another name.
LEMMA RenameEffect ==
  ASSUME Types, NEW from \in DatabaseNames, NEW to \in DatabaseNames, from # to,
         dir[from] # dir[to], Rename(from, to)
  PROVE  /\ UNCHANGED <<fileSystem, flushed>>
         /\ dir'[to] = dir[from] /\ dir'[from] = None
         /\ \A n \in Names \ {from, to} : dir'[n] = dir[n]
         /\ dir' \in images' /\ \A e \in images' : IsDirectory(e)
         /\ \A e \in images' :
              \E d \in images : /\ \A n \in Names \ {from, to} : e[n] = d[n]
                                /\ e[to] \in {d[to], dir[from]} /\ e[from] \in {d[from], None}
         /\ Ordered => images' = images \cup {dir'}
<1> DEFINE c == [n \in {from, to} |-> IF n = to THEN dir[from] ELSE None]
<1>1. DOMAIN c = {from, to} /\ c[to] = dir[from] /\ c[from] = None
  OBVIOUS
<1>2. from \in Names /\ to \in Names
  BY DEF Names
<1>3. Fits(to, dir[from]) /\ Fits(from, None)
  BY DEF Types, IsDirectory, Fits, DatabaseNames
<1>4. /\ DOMAIN c \subseteq Names /\ (\A n \in DOMAIN c : Fits(n, c[n]))
      /\ Change(c) /\ flushed' = flushed
  BY <1>1, <1>2, <1>3 DEF Rename
<1> HIDE DEF c
<1>5. /\ fileSystem' = fileSystem
      /\ \A n \in Names : dir'[n] = IF n \in DOMAIN c THEN c[n] ELSE dir[n]
      /\ dir' \in images' /\ \A e \in images' : IsDirectory(e)
      /\ \A e \in images' :
           \E d \in images : \A n \in Names : e[n] = d[n] \/ (n \in DOMAIN c /\ e[n] = c[n])
      /\ Ordered => images' = images \cup {dir'}
  BY <1>4, ChangeEffect
<1>6. QED BY <1>1, <1>2, <1>4, <1>5

LEMMA FlushEffect ==
  ASSUME Types, NEW names \in SUBSET DatabaseNames, Flush(names)
  PROVE  /\ UNCHANGED <<fileSystem, dir, images>>
         /\ flushed \subseteq flushed' /\ flushed' \in SUBSET Files
         /\ \A n \in names : dir[n] \in flushed' \cup {None}
BY DEF Types, Flush, IsDirectory

\* What is left after a power loss.
LEMMA RemainsEffect ==
  ASSUME Types, FilesInv, NEW d \in images
  PROVE  /\ IsDirectory(Remains(d))
         /\ Remains(d)["live"] = d["live"] /\ Remains(d)["swap"] = d["swap"]
         /\ Remains(d)["state"] = d["state"] /\ Remains(d)["commit"] = d["commit"]
         /\ Remains(d)["pending"] = None <=> d["pending"] = None
         /\ Resolve(Remains(d)) = Resolve(d)
<1>1. /\ IsDirectory(d) /\ Whole(d)
      /\ {"live", "swap", "pending", "staged", "state", "commit"} = Names
      /\ {"live", "swap", "pending", "staged"} = DatabaseNames
  BY DEF Types, FilesInv, Names, DatabaseNames
<1>2. \A f \in Files : [f EXCEPT !.gen = Torn] \in Files
  BY DEF Files
<1>3. \A n \in Names : Remains(d)[n] = IF n \in DatabaseNames /\ d[n] # None /\ d[n] \notin flushed
                                       THEN [d[n] EXCEPT !.gen = Torn] ELSE d[n]
  BY DEF Remains
<1>4. \A n \in DatabaseNames : d[n] \in Files \cup {None}
  BY <1>1 DEF IsDirectory
<1>5. \A n \in DatabaseNames : Remains(d)[n] \in Files \cup {None} /\ (Remains(d)[n] = None <=> d[n] = None)
  BY <1>1, <1>2, <1>3, <1>4, NoneIsNothing
<1>6. /\ Remains(d)["live"] = d["live"] /\ Remains(d)["swap"] = d["swap"]
      /\ Remains(d)["state"] = d["state"] /\ Remains(d)["commit"] = d["commit"]
  BY <1>1, <1>3 DEF Whole
<1>7. Remains(d) \in [Names -> Files \cup StateMarkers \cup CommitMarkers \cup {None}]
  <2>1. \A n \in Names : Remains(d)[n] \in Files \cup StateMarkers \cup CommitMarkers \cup {None}
    BY <1>1, <1>5, <1>6 DEF IsDirectory
  <2>2. QED BY <2>1 DEF Remains
<1>8. IsDirectory(Remains(d))
  BY <1>1, <1>5, <1>6, <1>7 DEF IsDirectory
<1>9. Resolve(Remains(d)) = Resolve(d)
  BY <1>6 DEF Resolve, RollsBack
<1>10. QED BY <1>1, <1>5, <1>6, <1>8, <1>9

(***************************************************************************)
(* Types, and the files of the index.                                      *)
(***************************************************************************)
\* What can be said of the disk alone.
DiskTypes ==
  /\ fileSystem \in FileSystems
  /\ dir \in images /\ \A d \in images : IsDirectory(d)
  /\ flushed \in SUBSET Files

DiskInv == DiskTypes /\ FilesInv

LEMMA NamesAre ==
  /\ Names = {"live", "swap", "pending", "staged", "state", "commit"}
  /\ DatabaseNames = {"live", "swap", "pending", "staged"}
BY DEF Names, DatabaseNames

LEMMA QuietDisk ==
  ASSUME Types, FilesInv, UNCHANGED <<diskVars, publications>>
  PROVE  DiskInv'
BY DEF diskVars, Types, FilesInv, DiskInv, DiskTypes, Whole, Numbered

LEMMA SyncKeepsDisk ==
  ASSUME Types, FilesInv, SyncDirectory, UNCHANGED publications
  PROVE  DiskInv'
BY DEF SyncDirectory, Types, FilesInv, DiskInv, DiskTypes, Whole, Numbered

LEMMA FlushKeepsDisk ==
  ASSUME Types, FilesInv, NEW names \in SUBSET DatabaseNames, Flush(names),
         UNCHANGED publications
  PROVE  DiskInv'
<1>1. /\ UNCHANGED <<fileSystem, dir, images>>
      /\ flushed \subseteq flushed' /\ flushed' \in SUBSET Files
  BY FlushEffect
<1>2. QED BY <1>1 DEF Types, FilesInv, DiskInv, DiskTypes, Whole, Numbered

LEMMA RemoveKeepsDisk ==
  ASSUME Types, FilesInv, NEW name \in Names, Remove(name), UNCHANGED publications
  PROVE  DiskInv'
<1>1. /\ UNCHANGED <<fileSystem, flushed>>
      /\ dir' \in images' /\ \A e \in images' : IsDirectory(e)
      /\ \A e \in images' :
           \E d \in images : /\ \A n \in Names \ {name} : e[n] = d[n]
                             /\ e[name] \in {d[name], None}
  BY RemoveEffect
<1>2. ASSUME NEW e \in images' PROVE Whole(e)' /\ Numbered(e)'
  <2>1. PICK d \in images : /\ \A n \in Names \ {name} : e[n] = d[n]
                            /\ e[name] \in {d[name], None}
    BY <1>1
  <2>2. Whole(d) /\ Numbered(d)
    BY DEF FilesInv
  <2>3. /\ e["live"] \in {d["live"], None} /\ e["swap"] \in {d["swap"], None}
        /\ e["state"] \in {d["state"], None}
    BY <2>1, NamesAre
  <2>4. QED BY <1>1, <2>2, <2>3 DEF Whole, Numbered
<1>3. QED BY <1>1, <1>2 DEF DiskInv, DiskTypes, FilesInv, Types

\* A file of the index gets a name that recovery reads.
LEMMA SetKeepsDisk ==
  ASSUME Types, FilesInv, NEW name \in {"live", "swap", "pending", "commit"}, NEW content,
         Fits(name, content), Set(name, content), UNCHANGED publications,
         name \in {"live", "swap"} /\ content # None =>
           content \in flushed /\ content.gen \in 0..publications
  PROVE  DiskInv'
<1>1. /\ UNCHANGED <<fileSystem, flushed>>
      /\ dir' \in images' /\ \A e \in images' : IsDirectory(e)
      /\ \A e \in images' :
           \E d \in images : /\ \A n \in Names \ {name} : e[n] = d[n]
                             /\ e[name] \in {d[name], content}
  BY SetEffect, NamesAre
<1>2. ASSUME NEW e \in images' PROVE Whole(e)' /\ Numbered(e)'
  <2>1. PICK d \in images : /\ \A n \in Names \ {name} : e[n] = d[n]
                            /\ e[name] \in {d[name], content}
    BY <1>1
  <2>2. Whole(d) /\ Numbered(d)
    BY DEF FilesInv
  <2>3. e["state"] = d["state"]
    BY <2>1, NamesAre
  <2>4. \A n \in {"live", "swap"} : e[n] = d[n] \/ (n = name /\ e[n] = content)
    BY <2>1, NamesAre
  <2>5. QED BY <1>1, <2>2, <2>3, <2>4 DEF Whole, Numbered
<1>3. QED BY <1>1, <1>2 DEF DiskInv, DiskTypes, FilesInv, Types

\* So does a rename.
LEMMA RenameKeepsDisk ==
  ASSUME Types, FilesInv, NEW from \in DatabaseNames, NEW to \in DatabaseNames, from # to,
         Rename(from, to), UNCHANGED publications,
         dir[from] # None => dir[from] \in flushed /\ dir[from].gen \in 0..publications
  PROVE  DiskInv'
<1>1. CASE dir[from] = dir[to]
  BY <1>1, QuietDisk DEF Rename
<1>2. CASE dir[from] # dir[to]
  <2>1. /\ UNCHANGED <<fileSystem, flushed>>
        /\ dir' \in images' /\ \A e \in images' : IsDirectory(e)
        /\ \A e \in images' :
             \E d \in images : /\ \A n \in Names \ {from, to} : e[n] = d[n]
                               /\ e[to] \in {d[to], dir[from]} /\ e[from] \in {d[from], None}
    BY <1>2, RenameEffect
  <2>2. ASSUME NEW e \in images' PROVE Whole(e)' /\ Numbered(e)'
    <3>1. PICK d \in images : /\ \A n \in Names \ {from, to} : e[n] = d[n]
                              /\ e[to] \in {d[to], dir[from]} /\ e[from] \in {d[from], None}
      BY <2>1
    <3>2. Whole(d) /\ Numbered(d)
      BY DEF FilesInv
    <3>3. e["state"] = d["state"]
      BY <3>1, NamesAre
    <3>4. \A n \in {"live", "swap"} : e[n] \in {d[n], None, dir[from]}
      BY <3>1, NamesAre
    <3>5. QED BY <2>1, <3>2, <3>3, <3>4 DEF Whole, Numbered
  <2>3. QED BY <2>1, <2>2 DEF DiskInv, DiskTypes, FilesInv, Types
<1>3. QED BY <1>1, <1>2

\* The file that a transaction begins to stage is not one of the index.
LEMMA StartKeepsDisk ==
  ASSUME Types, FilesInv, NEW operation \in Operations \cup {"recover"}, Start(operation)
  PROVE  DiskInv'
<1> DEFINE file == [gen |-> publications + 1, inode |-> 0]
           content == IF operation = "install" THEN file ELSE None
<1>1. /\ Change([n \in {"staged"} |-> content]) /\ flushed' = flushed \ {file}
      /\ UNCHANGED publications
      /\ operation # "recover" => publications < MaxPublications
  BY DEF Start, historyVars
<1>2. publications \in Nat /\ MaxPublications \in Nat
  BY PublicationAssumption DEF Types
<1>3. content # None => content \in Files
  BY <1>1, <1>2 DEF Files, Generations
<1>4. Fits("staged", content)
  BY <1>3 DEF Fits
<1>5. file.gen = publications + 1
  OBVIOUS
<1> HIDE DEF content, file
<1>6. /\ fileSystem' = fileSystem
      /\ dir' \in images' /\ \A e \in images' : IsDirectory(e)
      /\ \A e \in images' :
           \E d \in images : /\ \A n \in Names \ {"staged"} : e[n] = d[n]
                             /\ e["staged"] \in {d["staged"], content}
  BY <1>1, <1>4, NamesAre, ChangeOne
<1>7. ASSUME NEW e \in images' PROVE Whole(e)' /\ Numbered(e)'
  <2>1. PICK d \in images : \A n \in Names \ {"staged"} : e[n] = d[n]
    BY <1>6
  <2>2. Whole(d) /\ Numbered(d)
    BY DEF FilesInv
  <2>3. e["live"] = d["live"] /\ e["swap"] = d["swap"] /\ e["state"] = d["state"]
    BY <2>1, NamesAre
  <2>4. \A n \in {"live", "swap"} : d[n] # None => d[n] # file
    BY <1>2, <1>5, <2>2 DEF Whole
  <2>5. QED BY <1>1, <2>2, <2>3, <2>4 DEF Whole, Numbered
<1>8. QED BY <1>1, <1>6, <1>7 DEF DiskInv, DiskTypes, FilesInv, Types

\* The new state marker records the next publication.
LEMMA WriteStateKeepsDisk ==
  ASSUME Types, FilesInv, StagedInv, WriteState
  PROVE  /\ DiskInv'
         /\ [op |-> op, token |-> publications + 1, had |-> dir["live"] # None,
             staging |-> GenerationOf(dir["staged"])] \in StateMarkers
         /\ GenerationOf(dir["staged"]) \in {None, publications + 1}
         /\ publications' \in 0..MaxPublications
<1> DEFINE content == [op |-> op, token |-> publications + 1, had |-> dir["live"] # None,
                       staging |-> GenerationOf(dir["staged"])]
<1>1. /\ pc = "writeState" /\ Set("state", content) /\ publications' = publications + 1
  BY DEF WriteState, Goto
<1>2. publications \in Nat /\ MaxPublications \in Nat
  BY PublicationAssumption DEF Types
<1>3. after = "begin" /\ op \in Operations
  BY <1>1 DEF StagedInv, PublishPCs, Types
<1>4. publications < MaxPublications /\ dir["staged"] = Staged(publications + 1)
  BY <1>1, <1>3 DEF StagedInv, BeforePCs
<1>5. GenerationOf(dir["staged"]) \in {None, publications + 1}
  BY <1>4 DEF GenerationOf, Staged
<1>6. publications + 1 \in Generations
  BY <1>2, <1>4 DEF Generations
<1>7. content \in StateMarkers
  BY <1>3, <1>5, <1>6 DEF StateMarkers
<1>8. Fits("state", content)
  BY <1>7 DEF Fits, DatabaseNames
<1>9. content.staging = GenerationOf(dir["staged"])
  OBVIOUS
<1> HIDE DEF content
<1>10. /\ UNCHANGED <<fileSystem, flushed>>
       /\ dir' \in images' /\ \A e \in images' : IsDirectory(e)
       /\ \A e \in images' :
            \E d \in images : /\ \A n \in Names \ {"state"} : e[n] = d[n]
                              /\ e["state"] \in {d["state"], content}
  BY <1>1, <1>8, NamesAre, SetEffect
<1>11. ASSUME NEW e \in images' PROVE Whole(e)' /\ Numbered(e)'
  <2>1. PICK d \in images : /\ \A n \in Names \ {"state"} : e[n] = d[n]
                            /\ e["state"] \in {d["state"], content}
    BY <1>10
  <2>2. Whole(d) /\ Numbered(d)
    BY DEF FilesInv
  <2>3. e["live"] = d["live"] /\ e["swap"] = d["swap"]
    BY <2>1, NamesAre
  <2>4. 0..publications \subseteq 0..publications' /\ publications + 1 \in 0..publications'
    BY <1>1, <1>2
  <2>5. Whole(e)'
    BY <1>10, <2>2, <2>3, <2>4 DEF Whole
  <2>6. Numbered(e)'
    BY <1>5, <1>9, <2>1, <2>2, <2>4 DEF Numbered
  <2>7. QED BY <2>5, <2>6
<1>12. publications' \in 0..MaxPublications
  BY <1>1, <1>2, <1>4
<1>13. DiskInv'
  BY <1>10, <1>11 DEF DiskInv, DiskTypes, FilesInv, Types
<1>14. QED BY <1>5, <1>7, <1>12, <1>13 DEF content

\* The copy of the index is another file.
LEMMA CopyKeepsDisk ==
  ASSUME Types, FilesInv, PublishInv, Copy
  PROVE  /\ DiskInv'
         /\ [gen |-> dir["live"].gen, inode |-> dir["pending"].inode] \in Files
         /\ [gen |-> dir["live"].gen, inode |-> dir["pending"].inode] # dir["live"]
<1> DEFINE copy == [gen |-> dir["live"].gen, inode |-> dir["pending"].inode]
<1>1. /\ pc = "copy" /\ Change([n \in {"pending"} |-> copy]) /\ flushed' = flushed \ {copy}
      /\ UNCHANGED publications
  BY DEF Copy, Goto, historyVars
<1>2. dir["live"] # None /\ dir["pending"] # None /\ dir["pending"].inode # dir["live"].inode
  BY <1>1 DEF PublishInv
<1>3. dir["live"] \in Files /\ dir["pending"] \in Files
  BY <1>2, NamesAre DEF Types, IsDirectory
<1>4. copy \in Files
  BY <1>3 DEF Files
<1>5. Fits("pending", copy)
  BY <1>4 DEF Fits
<1>6. copy # dir["live"]
  BY <1>2
<1> HIDE DEF copy
<1>7. /\ fileSystem' = fileSystem
      /\ dir' \in images' /\ \A e \in images' : IsDirectory(e)
      /\ \A e \in images' :
           \E d \in images : /\ \A n \in Names \ {"pending"} : e[n] = d[n]
                             /\ e["pending"] \in {d["pending"], copy}
  BY <1>1, <1>5, NamesAre, ChangeOne
<1>8. ASSUME NEW e \in images' PROVE Whole(e)' /\ Numbered(e)'
  <2>1. PICK d \in images : \A n \in Names \ {"pending"} : e[n] = d[n]
    BY <1>7
  <2>2. Whole(d) /\ Numbered(d)
    BY DEF FilesInv
  <2>3. e["live"] = d["live"] /\ e["swap"] = d["swap"] /\ e["state"] = d["state"]
    BY <2>1, NamesAre
  <2>4. d["live"] = dir["live"] /\ d["swap"] = None
    BY <1>1 DEF PublishInv
  <2>5. QED BY <1>1, <1>6, <2>2, <2>3, <2>4 DEF Whole, Numbered
<1>9. DiskInv'
  BY <1>1, <1>7, <1>8 DEF DiskInv, DiskTypes, FilesInv, Types
<1>10. QED BY <1>4, <1>6, <1>9 DEF copy

\* A power loss tears no file of the index.
LEMMA PowerLossKeepsDisk ==
  ASSUME Types, FilesInv, PowerLoss
  PROVE  DiskInv'
<1>1. PICK d \in images : dir' = Remains(d) /\ images' = {Remains(d)}
  BY DEF PowerLoss
<1>2. UNCHANGED <<fileSystem, flushed, publications>>
  BY DEF PowerLoss, historyVars
<1>3. /\ IsDirectory(Remains(d))
      /\ Remains(d)["live"] = d["live"] /\ Remains(d)["swap"] = d["swap"]
      /\ Remains(d)["state"] = d["state"]
  BY RemainsEffect
<1>4. Whole(d) /\ Numbered(d)
  BY DEF FilesInv
<1>5. ASSUME NEW e \in images' PROVE Whole(e)' /\ Numbered(e)'
  <2>1. e["live"] = d["live"] /\ e["swap"] = d["swap"] /\ e["state"] = d["state"]
    BY <1>1, <1>3
  <2>2. QED BY <1>2, <1>4, <2>1 DEF Whole, Numbered
<1>6. QED BY <1>1, <1>2, <1>3, <1>5 DEF DiskInv, DiskTypes, FilesInv, Types

\* What the other changes write is of the right kind.
LEMMA WrittenFits ==
  ASSUME Basics
  PROVE  /\ Link => /\ Fits("swap", dir["live"]) /\ Set("swap", dir["live"])
                    /\ dir["live"] \in flushed /\ dir["live"].gen \in 0..publications
         /\ StartCopy =>
              /\ Fits("pending", [gen |-> Torn, inode |-> 1 - dir["live"].inode])
              /\ [gen |-> Torn, inode |-> 1 - dir["live"].inode] \in Files
              /\ Set("pending", [gen |-> Torn, inode |-> 1 - dir["live"].inode])
         /\ WriteCommit => /\ Fits("commit", [op |-> op, token |-> dir["state"].token])
                           /\ [op |-> op, token |-> dir["state"].token] \in CommitMarkers
                           /\ Set("commit", [op |-> op, token |-> dir["state"].token])
<1>1. ASSUME pc = "link"
      PROVE  /\ Fits("swap", dir["live"])
             /\ dir["live"] \in flushed /\ dir["live"].gen \in 0..publications
             /\ Fits("pending", [gen |-> Torn, inode |-> 1 - dir["live"].inode])
             /\ [gen |-> Torn, inode |-> 1 - dir["live"].inode] \in Files
  <2>1. dir["live"] # None
    BY <1>1 DEF Basics, PublishInv
  <2>2. dir["live"] \in Files
    BY <2>1, NamesAre DEF Basics, Types, IsDirectory
  <2>3. dir["live"] \in flushed /\ dir["live"].gen \in 0..publications
    BY <2>1 DEF Basics, FilesInv, Whole, Types
  <2>4. [gen |-> Torn, inode |-> 1 - dir["live"].inode] \in Files
    BY <2>2 DEF Files
  <2>5. QED BY <2>2, <2>3, <2>4 DEF Fits
<1>2. ASSUME pc = "writeCommit"
      PROVE  /\ Fits("commit", [op |-> op, token |-> dir["state"].token])
             /\ [op |-> op, token |-> dir["state"].token] \in CommitMarkers
  <2>1. dir["state"] # None /\ op \in Operations
    BY <1>2 DEF Basics, PublishInv, StagedInv, PublishPCs, Types
  <2>2. dir["state"] \in StateMarkers
    BY <2>1 DEF Basics, Types, IsDirectory
  <2>3. [op |-> op, token |-> dir["state"].token] \in CommitMarkers
    BY <2>1, <2>2 DEF StateMarkers, CommitMarkers
  <2>4. QED BY <2>3, NamesAre DEF Fits
<1>3. QED BY <1>1, <1>2 DEF Link, StartCopy, WriteCommit, Goto

\* The files that a rename moves are whole.
LEMMA MovedIsWhole ==
  ASSUME Basics
  PROVE  /\ pc = "renameCopy" => dir["pending"] # None /\
              dir["pending"] \in flushed /\ dir["pending"].gen \in 0..publications
         /\ pc = "replace" => dir["staged"] # None /\
              dir["staged"] \in flushed /\ dir["staged"].gen \in 0..publications
         /\ pc = "restoreSwap" => dir["swap"] # None /\
              dir["swap"] \in flushed /\ dir["swap"].gen \in 0..publications
<1>1. ASSUME pc = "renameCopy"
      PROVE  dir["pending"] # None /\
              dir["pending"] \in flushed /\ dir["pending"].gen \in 0..publications
  BY <1>1 DEF Basics, PublishInv, FilesInv, Whole, Types
<1>2. ASSUME pc = "replace"
      PROVE  dir["staged"] # None /\
              dir["staged"] \in flushed /\ dir["staged"].gen \in 0..publications
  <2>1. dir["staged"] = Staged(publications) /\ dir["staged"] \in flushed \cup {None}
        /\ op = "install"
    BY <1>2 DEF Basics, StagedInv, PublishInv
  <2>2. dir["staged"] = [gen |-> publications, inode |-> 0]
    BY <2>1 DEF Staged
  <2>3. publications \in Nat
    BY PublicationAssumption DEF Basics, Types
  <2>4. publications \in Generations
    BY PublicationAssumption DEF Basics, Types, Generations
  <2>5. dir["staged"] \in Files
    BY <2>2, <2>4 DEF Files
  <2>6. QED BY <2>1, <2>2, <2>3, <2>5, NoneIsNothing
<1>3. ASSUME pc = "restoreSwap"
      PROVE  dir["swap"] # None /\
              dir["swap"] \in flushed /\ dir["swap"].gen \in 0..publications
  BY <1>3 DEF Basics, RecoveryInv, FilesInv, Whole, Types
<1>4. QED BY <1>1, <1>2, <1>3

LEMMA StepKeepsDisk ==
  ASSUME Basics, Next
  PROVE  DiskInv'
<1> USE NamesAre
<1>0. Types /\ FilesInv /\ StagedInv /\ PublishInv
  BY DEF Basics
<1>1. ASSUME NEW o \in Operations \cup {"recover"}, Start(o) PROVE DiskInv'
  BY <1>0, <1>1, StartKeepsDisk
<1>2. CASE UNCHANGED <<diskVars, publications>>
  BY <1>0, <1>2, QuietDisk
<1>3. ASSUME NEW name \in Names, Remove(name), UNCHANGED publications PROVE DiskInv'
  BY <1>0, <1>3, RemoveKeepsDisk
<1>4. ASSUME NEW names \in SUBSET DatabaseNames, Flush(names), UNCHANGED publications
      PROVE  DiskInv'
  BY <1>0, <1>4, FlushKeepsDisk
<1>5. CASE SyncDirectory /\ UNCHANGED publications
  BY <1>0, <1>5, SyncKeepsDisk
<1>6. CASE WriteState
  BY <1>0, <1>6, WriteStateKeepsDisk
<1>7. CASE Link
  <2>1. UNCHANGED publications
    BY <1>7 DEF Link, historyVars
  <2>2. QED BY <1>0, <1>7, <2>1, WrittenFits, SetKeepsDisk
<1>8. CASE StartCopy
  <2>1. UNCHANGED publications
    BY <1>8 DEF StartCopy, historyVars
  <2>2. QED BY <1>0, <1>8, <2>1, WrittenFits, SetKeepsDisk
<1>9. CASE WriteCommit
  <2>1. UNCHANGED publications
    BY <1>9 DEF WriteCommit, historyVars
  <2>2. QED BY <1>0, <1>9, <2>1, WrittenFits, SetKeepsDisk
<1>10. CASE Copy
  BY <1>0, <1>10, CopyKeepsDisk
<1>11. CASE RenameCopy
  <2>1. pc = "renameCopy" /\ Rename("pending", "swap") /\ UNCHANGED publications
    BY <1>11 DEF RenameCopy, Goto, historyVars
  <2>2. QED BY <1>0, <2>1, MovedIsWhole, RenameKeepsDisk
<1>12. CASE Replace
  <2>1. pc = "replace" /\ (Rename("staged", "live") \/ Remove("live")) /\ UNCHANGED publications
    BY <1>12 DEF Replace, Goto, historyVars
  <2>2. CASE Rename("staged", "live")
    BY <1>0, <2>1, <2>2, MovedIsWhole, RenameKeepsDisk
  <2>3. QED BY <2>1, <2>2, <1>3
<1>13. CASE RestoreSwap
  <2>1. pc = "restoreSwap" /\ Rename("swap", "live") /\ UNCHANGED publications
    BY <1>13 DEF RestoreSwap, Goto, historyVars
  <2>2. QED BY <1>0, <2>1, MovedIsWhole, RenameKeepsDisk
<1>14. CASE PowerLoss
  BY <1>0, <1>14, PowerLossKeepsDisk
<1>15. CASE Fail
  BY <1>15, <1>2, <1>3 DEF Fail, historyVars
<1>16. CASE Begin \/ FlushCopy \/ FlushLive
  BY <1>16, <1>4 DEF Begin, FlushCopy, FlushLive, historyVars
<1>17. CASE SyncState \/ SyncSwap \/ SyncLive \/ SyncCommit \/ SyncRecovered \/ SyncNoState
            \/ SyncNoCommit
  BY <1>17, <1>5 DEF SyncState, SyncSwap, SyncLive, SyncCommit, SyncRecovered, SyncNoState,
                     SyncNoCommit, historyVars
<1>18. CASE Release \/ RemoveLive \/ DropLive \/ DropSwap \/ DropPending \/ DropState \/ DropCommit
  BY <1>18, <1>3 DEF Release, RemoveLive, DropLive, DropSwap, DropPending, DropState, DropCommit,
                     historyVars
<1>19. CASE DropStaged
  BY <1>19, <1>2, <1>3 DEF DropStaged, historyVars
<1>20. CASE Acquire \/ Recover \/ RecoveryFails \/ KillPublisher
  BY <1>20, <1>2 DEF Acquire, Recover, RecoveryFails, KillPublisher, historyVars
<1>21. ASSUME NEW r \in Readers, Open(r) \/ Close(r) PROVE DiskInv'
  BY <1>21, <1>2 DEF Open, Close, historyVars
<1>22. QED
  BY <1>1, <1>6, <1>7, <1>8, <1>9, <1>10, <1>11, <1>12, <1>13, <1>14, <1>15, <1>16, <1>17, <1>18,
     <1>19, <1>20, <1>21 DEF Next, PublisherStep

LEMMA FileSystemIsRigid ==
  ASSUME Next
  PROVE  fileSystem' = fileSystem
<1> USE DEF Set, Remove, Change, Rename, SyncDirectory, Flush, diskVars
<1>1. \A o : Start(o) => fileSystem' = fileSystem
  BY DEF Start
<1>2. Acquire \/ Release \/ Begin \/ WriteState \/ SyncState \/ Link \/ StartCopy \/ Copy \/ FlushCopy
      => fileSystem' = fileSystem
  BY DEF Acquire, Release, Begin, WriteState, SyncState, Link, StartCopy, Copy, FlushCopy
<1>3. RenameCopy \/ SyncSwap \/ Replace \/ FlushLive \/ RemoveLive \/ SyncLive \/ WriteCommit
      \/ SyncCommit \/ Fail => fileSystem' = fileSystem
  BY DEF RenameCopy, SyncSwap, Replace, FlushLive, RemoveLive, SyncLive, WriteCommit, SyncCommit, Fail
<1>4. Recover \/ DropLive \/ RestoreSwap \/ DropSwap \/ DropPending \/ SyncRecovered \/ DropStaged
      \/ DropState \/ SyncNoState \/ DropCommit \/ SyncNoCommit \/ RecoveryFails
      => fileSystem' = fileSystem
  BY DEF Recover, DropLive, RestoreSwap, DropSwap, DropPending, SyncRecovered, DropStaged, DropState,
         SyncNoState, DropCommit, SyncNoCommit, RecoveryFails
<1>5. (\E r \in Readers : Open(r) \/ Close(r)) \/ KillPublisher \/ PowerLoss => fileSystem' = fileSystem
  BY DEF Open, Close, KillPublisher, PowerLoss
<1>6. QED BY <1>1, <1>2, <1>3, <1>4, <1>5 DEF Next, PublisherStep

LEMMA LiveIsNumbered ==
  ASSUME Basics
  PROVE  /\ dir["live"] \in Files \cup {None}
         /\ GenerationOf(dir["live"]) \in (0..publications) \cup {None}
         /\ 0..publications \subseteq Generations
<1>1. dir["live"] \in Files \cup {None}
  BY NamesAre DEF Basics, Types, IsDirectory
<1>2. dir["live"] # None => dir["live"].gen \in 0..publications
  BY DEF Basics, Types, FilesInv, Whole
<1>3. 0..publications \subseteq Generations
  BY PublicationAssumption DEF Basics, Types, Generations
<1>4. QED BY <1>1, <1>2, <1>3 DEF GenerationOf

\* The markers that a position needs are there.
LEMMA MarkersAreTyped ==
  ASSUME Basics
  PROVE  /\ dir["state"] # None => dir["state"] \in StateMarkers /\ dir["state"].had \in BOOLEAN
         /\ dir["commit"] # None => dir["commit"] \in CommitMarkers
         /\ pc \in PublishPCs => op \in Operations
         /\ pc \in PublishPCs \ {"begin", "writeState"} => dir["state"] # None
<1>1. /\ dir["state"] # None => dir["state"] \in StateMarkers
      /\ dir["commit"] # None => dir["commit"] \in CommitMarkers
  BY DEF Basics, Types, IsDirectory
<1>2. \A m \in StateMarkers : m.had \in BOOLEAN
  BY DEF StateMarkers
<1>3. pc \in PublishPCs => op \in Operations
  BY DEF Basics, Types, StagedInv, PublishPCs
<1>4. pc \in PublishPCs \ {"begin", "writeState"} => dir["state"] # None
  BY DEF Basics, PublishInv
<1>5. QED BY <1>1, <1>2, <1>3, <1>4

\* The publisher is always at some step of the protocol.
LEMMA StepKeepsPosition ==
  ASSUME Basics, Next
  PROVE  pc' \in PCs
<1>1. pc \in PCs /\ op \in Operations \cup {"recover"} /\ after \in {"begin", "release"}
  BY DEF Basics, Types
<1> USE <1>1 DEF PCs, UnlockedPCs, PublishPCs, RecoveryPCs, Goto
<1>2. \A o : Start(o) => pc' \in PCs
  BY DEF Start
<1>3. SyncState => pc' \in PCs
  <2>1. SyncState => dir["state"].had \in BOOLEAN /\ op \in {"install", "clear"}
    BY MarkersAreTyped DEF SyncState, Operations
  <2>2. QED BY <2>1 DEF SyncState
<1>4. Acquire \/ Release \/ Begin \/ WriteState \/ Link \/ StartCopy \/ Copy \/ FlushCopy
      => pc' \in PCs
  BY DEF Acquire, Release, Begin, WriteState, Link, StartCopy, Copy, FlushCopy
<1>5. RenameCopy \/ SyncSwap \/ Replace \/ FlushLive \/ RemoveLive \/ SyncLive \/ WriteCommit
      \/ SyncCommit \/ Fail => pc' \in PCs
  BY DEF RenameCopy, SyncSwap, Replace, FlushLive, RemoveLive, SyncLive, WriteCommit, SyncCommit, Fail
<1>6. Recover => pc' \in PCs
  BY DEF Recover, Marked, RollsBack
<1>7. DropLive => pc' \in PCs
  <2>1. RollsBack(dir) => dir["state"].had \in BOOLEAN
    BY MarkersAreTyped DEF RollsBack
  <2>2. QED BY <2>1 DEF DropLive
<1>8. RestoreSwap \/ DropSwap \/ DropPending \/ SyncRecovered \/ DropStaged
      \/ DropState \/ SyncNoState \/ DropCommit \/ SyncNoCommit \/ RecoveryFails => pc' \in PCs
  BY DEF RestoreSwap, DropSwap, DropPending, SyncRecovered, DropStaged, DropState, SyncNoState,
         DropCommit, SyncNoCommit, RecoveryFails
<1>9. (\E r \in Readers : Open(r) \/ Close(r)) \/ KillPublisher \/ PowerLoss => pc' \in PCs
  BY DEF Open, Close, KillPublisher, PowerLoss
<1>10. QED BY <1>2, <1>3, <1>4, <1>5, <1>6, <1>7, <1>8, <1>9 DEF Next, PublisherStep

\* The steps that only change the disk and the position.
FileSteps ==
  \/ Acquire \/ Release \/ Begin \/ SyncState
  \/ Link \/ StartCopy \/ Copy \/ FlushCopy \/ RenameCopy \/ SyncSwap
  \/ Replace \/ FlushLive \/ RemoveLive \/ SyncLive \/ WriteCommit
  \/ DropLive \/ RestoreSwap \/ DropSwap \/ DropPending
  \/ SyncRecovered \/ DropStaged \/ DropState \/ SyncNoState \/ DropCommit

LEMMA FileStepsAreQuiet ==
  ASSUME FileSteps
  PROVE  UNCHANGED <<op, after, failed, seen, publications, old, target, reported, crashes, failures>>
<1> USE DEF publisherVars, historyVars, budgets
<1>1. Acquire \/ Release \/ Begin \/ SyncState \/ Link \/ StartCopy \/ Copy \/ FlushCopy
      => UNCHANGED <<op, after, failed, seen, publications, old, target, reported, crashes, failures>>
  BY DEF Acquire, Release, Begin, SyncState, Link, StartCopy, Copy, FlushCopy
<1>2. RenameCopy \/ SyncSwap \/ Replace \/ FlushLive \/ RemoveLive \/ SyncLive \/ WriteCommit
      => UNCHANGED <<op, after, failed, seen, publications, old, target, reported, crashes, failures>>
  BY DEF RenameCopy, SyncSwap, Replace, FlushLive, RemoveLive, SyncLive, WriteCommit
<1>3. DropLive \/ RestoreSwap \/ DropSwap \/ DropPending \/ SyncRecovered \/ DropStaged
      \/ DropState \/ SyncNoState \/ DropCommit
      => UNCHANGED <<op, after, failed, seen, publications, old, target, reported, crashes, failures>>
  BY DEF DropLive, RestoreSwap, DropSwap, DropPending, SyncRecovered, DropStaged, DropState,
         SyncNoState, DropCommit
<1>4. QED BY <1>1, <1>2, <1>3 DEF FileSteps

ControlTypes ==
  /\ op \in Operations \cup {"recover"} /\ after \in {"begin", "release"}
  /\ failed \in BOOLEAN
  /\ seen \in [Readers -> Files \cup {None, Closed}]
  /\ publications \in 0..MaxPublications /\ reported \in BOOLEAN
  /\ old \in Generations \cup {None} /\ target \in Generations \cup {None}
  /\ crashes \in 0..MaxCrashes[fileSystem] /\ failures \in 0..MaxFailures[fileSystem]

LEMMA StepKeepsControl ==
  ASSUME Basics, Next
  PROVE  ControlTypes'
<1>1. fileSystem' = fileSystem
  BY FileSystemIsRigid
<1>2. MaxCrashes[fileSystem] \in Nat /\ MaxFailures[fileSystem] \in Nat
  BY PublicationAssumption DEF Basics, Types
<1>3. ControlTypes
  BY DEF Basics, Types, ControlTypes
<1>4. CASE FileSteps
  BY <1>1, <1>3, <1>4, FileStepsAreQuiet DEF ControlTypes
<1>5. ASSUME NEW o \in Operations \cup {"recover"}, Start(o) PROVE ControlTypes'
  BY <1>1, <1>3, <1>5 DEF ControlTypes, Start, historyVars, budgets
<1>6. CASE WriteState
  <2>1. /\ GenerationOf(dir["live"]) \in Generations \cup {None}
        /\ GenerationOf(dir["staged"]) \in {None, publications + 1}
        /\ publications' \in 0..MaxPublications /\ publications' = publications + 1
    BY <1>6, LiveIsNumbered, WriteStateKeepsDisk DEF Basics, WriteState
  <2>2. QED BY <1>1, <1>3, <1>6, <2>1 DEF ControlTypes, WriteState, publisherVars, budgets, Generations
<1>7. CASE SyncCommit
  BY <1>1, <1>3, <1>7 DEF ControlTypes, SyncCommit, historyVars, budgets
<1>8. CASE Fail \/ RecoveryFails
  <2>1. /\ failures < MaxFailures[fileSystem] /\ failures' = failures + 1 /\ failed' = TRUE
        /\ after' \in {after, "release"}
        /\ UNCHANGED <<op, seen, publications, old, target, reported, crashes>>
    BY <1>8 DEF Fail, RecoveryFails, historyVars
  <2>2. QED BY <1>1, <1>2, <1>3, <2>1 DEF ControlTypes
<1>9. CASE Recover
  BY <1>1, <1>3, <1>9 DEF ControlTypes, Recover, historyVars, budgets
<1>10. CASE SyncNoCommit
  BY <1>1, <1>3, <1>10 DEF ControlTypes, SyncNoCommit, publisherVars, budgets
<1>11. ASSUME NEW r \in Readers, Open(r) \/ Close(r) PROVE ControlTypes'
  BY <1>1, <1>3, <1>11, LiveIsNumbered DEF ControlTypes, Open, Close, publisherVars, historyVars, budgets
<1>12. CASE KillPublisher
  BY <1>1, <1>2, <1>3, <1>12 DEF ControlTypes, KillPublisher, publisherVars, historyVars
<1>13. CASE PowerLoss
  BY <1>1, <1>2, <1>3, <1>13 DEF ControlTypes, PowerLoss, publisherVars, historyVars
<1>14. QED
  BY <1>4, <1>5, <1>6, <1>7, <1>8, <1>9, <1>10, <1>11, <1>12, <1>13
  DEF Next, PublisherStep, FileSteps

LEMMA StepKeepsTypes ==
  ASSUME Basics, Next
  PROVE  Types' /\ FilesInv'
<1>1. DiskInv' /\ pc' \in PCs /\ ControlTypes'
  BY StepKeepsDisk, StepKeepsPosition, StepKeepsControl
<1>2. QED BY <1>1 DEF DiskInv, DiskTypes, ControlTypes, Types

(***************************************************************************)
(* The positions of the publisher.                                         *)
(***************************************************************************)
PositionInv == StagedInv /\ PublishInv /\ RecoveryInv

\* What the changes do to the directory.
LEMMA SetDir ==
  ASSUME NEW name \in Names, NEW content, Set(name, content)
  PROVE  /\ dir'[name] = content /\ \A n \in Names \ {name} : dir'[n] = dir[n]
         /\ flushed' = flushed
BY DEF Set, Change, With

LEMMA RemoveDir ==
  ASSUME NEW name \in Names, Remove(name)
  PROVE  /\ dir'[name] = None /\ \A n \in Names \ {name} : dir'[n] = dir[n]
         /\ flushed' = flushed
BY SetDir DEF Remove

LEMMA RenameDir ==
  ASSUME NEW from \in DatabaseNames, NEW to \in DatabaseNames, from # to, Rename(from, to)
  PROVE  /\ dir'[to] = dir[from] /\ dir'[from] \in {None, dir[from]}
         /\ dir[from] # dir[to] => dir'[from] = None
         /\ \A n \in Names \ {from, to} : dir'[n] = dir[n]
         /\ flushed' = flushed
<1>1. CASE dir[from] = dir[to]
  BY <1>1 DEF Rename, diskVars
<1>2. CASE dir[from] # dir[to]
  <2>1. from \in Names /\ to \in Names
    BY DEF Names
  <2>2. QED BY <1>2, <2>1 DEF Rename, Change, With
<1>3. QED BY <1>1, <1>2

\* Nothing is assumed of a publisher that is not at work.
LEMMA AtRest ==
  ASSUME pc' \in {"idle", "release"}
  PROVE  PositionInv'
BY DEF PositionInv, StagedInv, PublishInv, RecoveryInv, PublishPCs, RecoveryPCs, BeforePCs

LEMMA StartKeepsPosition ==
  ASSUME Basics, NEW o \in Operations \cup {"recover"}, Start(o)
  PROVE  PositionInv'
<1> DEFINE file == [gen |-> publications + 1, inode |-> 0]
           content == IF o = "install" THEN file ELSE None
<1>1. /\ Change([n \in {"staged"} |-> content])
      /\ pc' = "acquire" /\ op' = o /\ after' = IF o = "recover" THEN "release" ELSE "begin"
      /\ UNCHANGED publications /\ (o # "recover" => publications < MaxPublications)
  BY DEF Start, historyVars, Goto
<1>2. dir'["staged"] = content
  BY <1>1, NamesAre DEF Change, With
<1>3. dir'["staged"] = Staged(publications + 1)'
  BY <1>1, <1>2 DEF Staged
<1>4. StagedInv'
  BY <1>1, <1>3 DEF StagedInv, PublishPCs
<1>5. PublishInv' /\ RecoveryInv'
  BY <1>1 DEF PublishInv, RecoveryInv, PublishPCs, RecoveryPCs
<1>6. QED BY <1>4, <1>5 DEF PositionInv

LEMMA BeginsKeepPosition ==
  ASSUME Basics, Acquire \/ Begin \/ WriteState \/ SyncState
  PROVE  PositionInv'
<1> USE DEF PositionInv, StagedInv, PublishInv, RecoveryInv, PublishPCs, RecoveryPCs, BeforePCs, Goto
<1>1. CASE Acquire
  <2>1. pc = "acquire" /\ pc' \in {"recover", "release"} /\ UNCHANGED <<dir, op, after, publications>>
    BY <1>1 DEF Acquire, diskVars, publisherVars, historyVars
  <2>2. QED BY <2>1 DEF Basics, Staged
<1>2. CASE Begin
  <2>1. /\ pc = "begin" /\ pc' = "writeState" /\ dir["staged"] \in flushed' \cup {None}
        /\ UNCHANGED <<dir, op, after, publications>>
    BY <1>2 DEF Begin, Flush, publisherVars, historyVars
  <2>2. QED BY <2>1 DEF Basics, Staged, Interrupted, Marked
<1>3. CASE WriteState
  <2> DEFINE content == [op |-> op, token |-> publications + 1, had |-> dir["live"] # None,
                         staging |-> GenerationOf(dir["staged"])]
  <2>1. /\ pc = "writeState" /\ pc' = "syncState" /\ Set("state", content)
        /\ publications' = publications + 1 /\ target' = GenerationOf(dir["staged"])
        /\ UNCHANGED <<op, after>>
    BY <1>3 DEF WriteState, publisherVars
  <2>2. content # None /\ content.op = op /\ (content.had <=> dir["live"] # None)
    <3>1. content \in StateMarkers
      BY <1>3, WriteStateKeepsDisk DEF Basics
    <3>2. content.op = op /\ content.had = (dir["live"] # None)
      OBVIOUS
    <3>3. content # None
      <4> HIDE DEF content
      <4>1. QED BY <3>1, <3>2, NoneIsNothing
    <3>4. QED BY <3>2, <3>3
  <2> HIDE DEF content
  <2>3. /\ dir'["state"] = content /\ flushed' = flushed
        /\ dir'["live"] = dir["live"] /\ dir'["swap"] = dir["swap"] /\ dir'["pending"] = dir["pending"]
        /\ dir'["staged"] = dir["staged"] /\ dir'["commit"] = dir["commit"]
    BY <2>1, SetDir, NamesAre
  <2>4. ~Interrupted(dir) /\ dir["staged"] = Staged(publications + 1) /\ dir["staged"] \in flushed \cup {None}
        /\ op # "recover" /\ after = "begin"
    BY <2>1 DEF Basics
  <2>5. dir["live"] # None => dir["live"].gen < publications'
    BY <2>1, LiveIsNumbered DEF Basics, Types, FilesInv, Whole
  <2>6. dir'["staged"] = Staged(publications)' /\ target' = GenerationOf(dir["staged"])'
    BY <2>1, <2>3, <2>4 DEF Staged, GenerationOf
  <2>7. StagedInv'
    BY <2>1, <2>3, <2>4, <2>5, <2>6
  <2>8. PublishInv'
    BY <2>1, <2>2, <2>3, <2>4 DEF Interrupted, Marked
  <2>9. RecoveryInv'
    BY <2>1
  <2>10. QED BY <2>7, <2>8, <2>9
<1>4. CASE SyncState
  <2>1. /\ pc = "syncState" /\ images' = {dir}
        /\ UNCHANGED <<dir, flushed, op, after, publications, target>>
        /\ dir["state"].had \in BOOLEAN /\ op \in {"install", "clear"}
    BY <1>4, MarkersAreTyped DEF SyncState, SyncDirectory, publisherVars, historyVars, Operations
  <2>2. pc' = CASE dir["state"].had -> "link"
                         [] op = "install" /\ ~dir["state"].had -> "replace"
                         [] op = "clear" /\ ~dir["state"].had -> "syncLive"
    BY <1>4 DEF SyncState
  <2>3. CASE pc' = "link"
    BY <2>1, <2>2, <2>3 DEF Basics, Staged, GenerationOf
  <2>4. CASE pc' = "replace"
    BY <2>1, <2>2, <2>4 DEF Basics, Staged, GenerationOf
  <2>5. CASE pc' = "syncLive"
    BY <2>1, <2>2, <2>5 DEF Basics, Staged, GenerationOf
  <2>6. QED BY <2>1, <2>2, <2>3, <2>4, <2>5
<1>5. QED BY <1>1, <1>2, <1>3, <1>4

LEMMA KeepingKeepsPosition ==
  ASSUME Basics, Link \/ StartCopy \/ Copy \/ FlushCopy \/ RenameCopy \/ SyncSwap
  PROVE  PositionInv'
<1> USE DEF PositionInv, StagedInv, PublishInv, RecoveryInv, PublishPCs, RecoveryPCs, BeforePCs, Goto,
            Staged, GenerationOf
<1>0. UNCHANGED <<op, after, publications, target>>
  BY FileStepsAreQuiet DEF FileSteps
<1>1. CASE Link
  <2>1. pc = "link" /\ pc' = "syncSwap" /\ Set("swap", dir["live"])
    BY <1>1 DEF Link
  <2>2. /\ dir'["swap"] = dir["live"] /\ flushed' = flushed
        /\ dir'["live"] = dir["live"] /\ dir'["pending"] = dir["pending"] /\ dir'["staged"] = dir["staged"] /\ dir'["state"] = dir["state"] /\ dir'["commit"] = dir["commit"]
    BY <2>1, SetDir, NamesAre
  <2>3. QED BY <1>0, <2>1, <2>2 DEF Basics
<1>2. CASE StartCopy
  <2> DEFINE content == [gen |-> Torn, inode |-> 1 - dir["live"].inode]
  <2>1. pc = "link" /\ pc' = "copy" /\ Set("pending", content)
    BY <1>2 DEF StartCopy
  <2>2. content # None /\ content.inode # dir["live"].inode
    <3>1. content \in Files
      BY <1>2, WrittenFits
    <3>2. dir["live"] \in Files
      BY <2>1, LiveIsNumbered DEF Basics
    <3>3. content.inode = 1 - dir["live"].inode /\ dir["live"].inode \in {0, 1}
      BY <3>2 DEF Files
    <3> HIDE DEF content
    <3>4. QED BY <3>1, <3>3, NoneIsNothing
  <2>3. Fits("pending", content)
    BY <1>2, WrittenFits
  <2> HIDE DEF content
  <2>4. /\ dir'["pending"] = content /\ flushed' = flushed
        /\ dir'["live"] = dir["live"] /\ dir'["swap"] = dir["swap"] /\ dir'["staged"] = dir["staged"] /\ dir'["state"] = dir["state"] /\ dir'["commit"] = dir["commit"]
    BY <2>1, SetDir, NamesAre
  <2>5. \A e \in images' : \E d \in images : \A n \in Names \ {"pending"} : e[n] = d[n]
    BY <2>1, <2>3, SetEffect, NamesAre DEF Basics
  <2>6. \A d \in images : d["live"] = dir["live"] /\ d["swap"] = None
    BY <2>1 DEF Basics
  <2>7. \A e \in images' : e["live"] = dir'["live"] /\ e["swap"] = None
    BY <2>4, <2>5, <2>6, NamesAre
  <2>8. QED BY <1>0, <2>1, <2>2, <2>4, <2>7 DEF Basics
<1>3. CASE Copy
  <2> DEFINE content == [gen |-> dir["live"].gen, inode |-> dir["pending"].inode]
  <2>1. /\ pc = "copy" /\ pc' = "flushCopy" /\ Change([n \in {"pending"} |-> content])
        /\ flushed' = flushed \ {content}
    BY <1>3 DEF Copy
  <2>2. content \in Files /\ content.gen = dir["live"].gen
    BY <1>3, CopyKeepsDisk DEF Basics
  <2>3. dir["staged"] = Staged(publications) /\ dir["live"].gen < publications
    BY <2>1 DEF Basics
  <2>4. /\ dir'["pending"] = content
        /\ dir'["live"] = dir["live"] /\ dir'["swap"] = dir["swap"] /\ dir'["staged"] = dir["staged"] /\ dir'["state"] = dir["state"] /\ dir'["commit"] = dir["commit"]
    BY <2>1, NamesAre DEF Change, With
  <2>5. dir'["staged"] \in flushed' \cup {None}
    <3>1. dir["staged"] \in flushed \cup {None}
      BY <2>1 DEF Basics
    <3>2. dir["live"].gen \in Nat /\ publications \in Nat
      <4>1. dir["live"] # None /\ dir["live"] \in flushed /\ dir["live"].gen \in 0..publications
        BY <2>1 DEF Basics, FilesInv, Whole, Types
      <4>2. QED BY <4>1, PublicationAssumption DEF Basics, Types
    <3>3. dir["staged"] # content \/ dir["staged"] = None
      BY <2>2, <2>3, <3>2
    <3>4. QED BY <2>1, <2>4, <3>1, <3>3
  <2> HIDE DEF content
  <2>6. QED BY <1>0, <2>1, <2>2, <2>4, <2>5, NoneIsNothing DEF Basics
<1>4. CASE FlushCopy
  <2>1. /\ pc = "flushCopy" /\ pc' = "renameCopy" /\ UNCHANGED dir
        /\ flushed \subseteq flushed' /\ dir["pending"] \in flushed' \cup {None}
    BY <1>4 DEF FlushCopy, Flush
  <2>2. QED BY <1>0, <2>1 DEF Basics
<1>5. CASE RenameCopy
  <2>1. pc = "renameCopy" /\ pc' = "syncSwap" /\ Rename("pending", "swap")
    BY <1>5 DEF RenameCopy
  <2>2. dir["pending"] # None /\ dir["swap"] = None
    BY <2>1 DEF Basics
  <2>3. /\ dir'["swap"] = dir["pending"] /\ dir'["pending"] = None /\ flushed' = flushed
        /\ dir'["live"] = dir["live"] /\ dir'["staged"] = dir["staged"] /\ dir'["state"] = dir["state"] /\ dir'["commit"] = dir["commit"]
    BY <2>1, <2>2, RenameDir, NamesAre
  <2>4. QED BY <1>0, <2>1, <2>2, <2>3 DEF Basics
<1>6. CASE SyncSwap
  <2>1. /\ pc = "syncSwap" /\ pc' = (IF op = "install" THEN "replace" ELSE "remove")
        /\ UNCHANGED <<dir, flushed>> /\ op \in {"install", "clear"}
    BY <1>6, MarkersAreTyped DEF SyncSwap, SyncDirectory, Operations
  <2>2. CASE op = "install"
    BY <1>0, <2>1, <2>2 DEF Basics
  <2>3. CASE op = "clear"
    BY <1>0, <2>1, <2>3 DEF Basics
  <2>4. QED BY <2>1, <2>2, <2>3
<1>7. QED BY <1>1, <1>2, <1>3, <1>4, <1>5, <1>6

LEMMA ReplacingKeepsPosition ==
  ASSUME Basics, Replace \/ FlushLive \/ RemoveLive \/ SyncLive \/ WriteCommit \/ SyncCommit \/ Fail
  PROVE  PositionInv'
<1> USE DEF PositionInv, StagedInv, PublishInv, RecoveryInv, PublishPCs, RecoveryPCs, BeforePCs, Goto,
            Staged, GenerationOf
<1>1. CASE Replace
  <2>1. UNCHANGED <<op, after, publications, target>>
    BY <1>1, FileStepsAreQuiet DEF FileSteps
  <2>2. CASE pc = "replace" /\ pc' = "flushLive" /\ Rename("staged", "live")
    <3>1. /\ dir'["live"] = dir["staged"] /\ flushed' = flushed
          /\ dir'["swap"] = dir["swap"] /\ dir'["pending"] = dir["pending"] /\ dir'["state"] = dir["state"] /\ dir'["commit"] = dir["commit"]
      BY <2>2, RenameDir, NamesAre
    <3>2. dir["staged"] # None
      BY <2>2, MovedIsWhole
    <3>3. QED BY <2>1, <2>2, <3>1, <3>2 DEF Basics
  <2>3. CASE pc = "replace" /\ pc' = "replace" /\ Remove("live") /\ dir["live"] # None
    <3>1. /\ dir'["live"] = None /\ flushed' = flushed
          /\ dir'["swap"] = dir["swap"] /\ dir'["pending"] = dir["pending"] /\ dir'["staged"] = dir["staged"] /\ dir'["state"] = dir["state"] /\ dir'["commit"] = dir["commit"]
      BY <2>3, RemoveDir, NamesAre
    <3>2. QED BY <2>1, <2>3, <3>1 DEF Basics
  <2>4. QED BY <1>1, <2>2, <2>3 DEF Replace
<1>2. CASE FlushLive \/ SyncLive
  <2>1. /\ <<pc, pc'>> \in {<<"flushLive", "syncLive">>, <<"syncLive", "writeCommit">>}
        /\ UNCHANGED <<dir, op, after, publications, target>>
    BY <1>2, FileStepsAreQuiet DEF FileSteps, FlushLive, SyncLive, Flush, SyncDirectory
  <2>2. QED BY <2>1 DEF Basics
<1>3. CASE RemoveLive
  <2>1. /\ pc = "remove" /\ pc' = "syncLive" /\ Remove("live")
        /\ UNCHANGED <<op, after, publications, target>>
    BY <1>3, FileStepsAreQuiet DEF FileSteps, RemoveLive
  <2>2. /\ dir'["live"] = None /\ flushed' = flushed
        /\ dir'["swap"] = dir["swap"] /\ dir'["pending"] = dir["pending"] /\ dir'["staged"] = dir["staged"] /\ dir'["state"] = dir["state"] /\ dir'["commit"] = dir["commit"]
    BY <2>1, RemoveDir, NamesAre
  <2>3. QED BY <2>1, <2>2 DEF Basics
<1>4. CASE WriteCommit
  <2> DEFINE content == [op |-> op, token |-> dir["state"].token]
  <2>1. /\ pc = "writeCommit" /\ pc' = "syncCommit" /\ Set("commit", content)
        /\ UNCHANGED <<op, after, publications, target>>
    BY <1>4, FileStepsAreQuiet DEF FileSteps, WriteCommit
  <2>2. content \in CommitMarkers /\ content.op = op /\ content.token = dir["state"].token
    BY <1>4, WrittenFits
  <2> HIDE DEF content
  <2>3. /\ dir'["commit"] = content /\ flushed' = flushed /\ content # None
        /\ dir'["live"] = dir["live"] /\ dir'["swap"] = dir["swap"] /\ dir'["pending"] = dir["pending"] /\ dir'["staged"] = dir["staged"] /\ dir'["state"] = dir["state"]
    BY <2>1, <2>2, SetDir, NamesAre, NoneIsNothing
  <2>4. QED BY <2>1, <2>2, <2>3 DEF Basics
<1>5. CASE SyncCommit
  <2>1. pc' = "recover" /\ after' = "release"
    BY <1>5 DEF SyncCommit
  <2>2. QED BY <2>1
<1>6. CASE Fail
  <2>1. pc' \in {"recover", "release"} /\ after' = "release"
    BY <1>6 DEF Fail
  <2>2. QED BY <2>1
<1>7. QED BY <1>1, <1>2, <1>3, <1>4, <1>5, <1>6

\* A recovery leaves alone what is staged for the publication that follows it.
LEMMA RecoveryKeepsStaged ==
  ASSUME Basics, pc \in RecoveryPCs, pc' \in RecoveryPCs \cup {"release", "begin"},
         UNCHANGED <<op, after, publications>>, dir'["staged"] = dir["staged"],
         pc' = "begin" => after = "begin"
  PROVE  StagedInv'
BY DEF Basics, StagedInv, PublishPCs, RecoveryPCs, BeforePCs, Staged

LEMMA RecoverKeepsPosition ==
  ASSUME Basics, Recover
  PROVE  PositionInv'
<1>1. pc = "recover" /\ UNCHANGED <<dir, op, after, publications, flushed>> /\ after \in {"begin", "release"}
  BY DEF Recover, diskVars, historyVars, Basics, Types
<1>2. CASE pc' = "release"
  BY <1>2, AtRest
<1>3. CASE pc' # "release"
  <2>1. /\ Recoverable(dir)
        /\ pc' = CASE ~Marked(dir) -> after
             [] RollsBack(dir) ->
                  IF dir["state"].had /\ dir["swap"] = None
                  THEN "dropPending" ELSE "dropLive"
             [] dir["commit"] # None ->
                  IF dir["commit"].op = "clear" THEN "dropLive" ELSE "dropSwap"
    BY <1>3 DEF Recover, Marked, RollsBack
  <2>2. pc' \in RecoveryPCs \cup {"release", "begin"} /\ (pc' = "begin" => after = "begin")
    BY <1>1, <1>3, <2>1 DEF RecoveryPCs, Marked, RollsBack
  <2>3. StagedInv'
    BY <1>1, <2>2, RecoveryKeepsStaged DEF RecoveryPCs
  <2>4. CASE ~Marked(dir)
    <3>1. pc' = "begin" /\ ~Interrupted(dir)
      BY <1>1, <1>3, <2>1, <2>4 DEF Recoverable, SwapIsRecorded, PendingIsRecorded, Interrupted, Marked,
                                   RollsBack
    <3>2. PublishInv' /\ RecoveryInv'
      BY <1>1, <3>1 DEF PublishInv, RecoveryInv, PublishPCs, RecoveryPCs, Interrupted, Marked
    <3>3. QED BY <2>3, <3>2 DEF PositionInv
  <2>5. CASE RollsBack(dir)
    <3>1. pc' = (IF dir["state"].had /\ dir["swap"] = None THEN "dropPending" ELSE "dropLive")
      BY <2>1, <2>5 DEF Marked, RollsBack
    <3>2. dir["swap"] # None => dir["state"].had
      BY <2>1, <2>5 DEF Recoverable, SwapIsRecorded, Marked, RollsBack
    <3>3. CASE pc' = "dropPending"
      <4>1. dir["state"].had /\ dir["swap"] = None
        BY <3>1, <3>3
      <4>2. Resolve(dir) = dir["live"] /\ Marked(dir)
        BY <2>5, <4>1 DEF Resolve, Marked, RollsBack
      <4>3. PublishInv' /\ RecoveryInv'
        BY <1>1, <2>1, <3>3, <4>1, <4>2 DEF PublishInv, RecoveryInv, PublishPCs, RecoveryPCs
      <4>4. QED BY <2>3, <4>3 DEF PositionInv
    <3>4. CASE pc' = "dropLive"
      <4>1. dir["state"].had => dir["swap"] # None
        BY <3>1, <3>4
      <4>2. PublishInv' /\ RecoveryInv'
        BY <1>1, <2>1, <2>5, <3>4, <4>1 DEF PublishInv, RecoveryInv, PublishPCs, RecoveryPCs
      <4>3. QED BY <2>3, <4>2 DEF PositionInv
    <3>5. QED BY <3>1, <3>3, <3>4
  <2>6. CASE dir["commit"] # None
    <3>1. pc' = IF dir["commit"].op = "clear" THEN "dropLive" ELSE "dropSwap"
      BY <2>1, <2>6 DEF Marked, RollsBack
    <3>2. CASE dir["commit"].op = "clear"
      BY <1>1, <2>1, <2>3, <2>6, <3>1, <3>2
      DEF PositionInv, PublishInv, RecoveryInv, PublishPCs, RecoveryPCs
    <3>3. CASE dir["commit"].op # "clear"
      <4>1. Resolve(dir) = dir["live"]
        BY <2>6, <3>3 DEF Resolve, RollsBack
      <4>2. QED BY <1>1, <2>1, <2>3, <2>6, <3>1, <3>3, <4>1
            DEF PositionInv, PublishInv, RecoveryInv, PublishPCs, RecoveryPCs
    <3>4. QED BY <3>2, <3>3
  <2>7. QED BY <2>4, <2>5, <2>6 DEF Marked, RollsBack
<1>4. QED BY <1>2, <1>3

\* The changes that a recovery makes to the files of the index.
LEMMA RestoringKeepsPosition ==
  ASSUME Basics, DropLive \/ RestoreSwap \/ DropSwap \/ DropPending \/ SyncRecovered
  PROVE  PositionInv'
<1> USE DEF PublishPCs, RecoveryPCs, Goto
<1>0. UNCHANGED <<op, after, publications, target>>
  BY FileStepsAreQuiet DEF FileSteps
<1>1. CASE DropLive
  <2>1. /\ pc = "dropLive" /\ Remove("live")
        /\ pc' = CASE ~RollsBack(dir) -> "dropSwap"
                        [] RollsBack(dir) /\ dir["state"].had  -> "restoreSwap"
                        [] RollsBack(dir) /\ ~dir["state"].had -> "dropPending"
    BY <1>1 DEF DropLive
  <2>2. /\ dir'["live"] = None /\ flushed' = flushed
        /\ dir'["swap"] = dir["swap"] /\ dir'["pending"] = dir["pending"] /\ dir'["staged"] = dir["staged"] /\ dir'["state"] = dir["state"] /\ dir'["commit"] = dir["commit"]
    BY <2>1, RemoveDir, NamesAre
  <2>3. /\ Recoverable(dir)
        /\ \/ RollsBack(dir) /\ (dir["state"].had => dir["swap"] # None)
           \/ dir["commit"] # None /\ dir["commit"].op = "clear"
    BY <2>1 DEF Basics, RecoveryInv
  <2>4. Recoverable(dir)'
    BY <2>2, <2>3 DEF Recoverable, MarkersAgree, SwapIsRecorded, PendingIsRecorded, NothingIsLost,
                      Marked, RollsBack
  <2>5. RollsBack(dir) => dir["state"].had \in BOOLEAN
    BY MarkersAreTyped DEF RollsBack
  <2>6. CASE ~RollsBack(dir)
    <3>1. pc' = "dropSwap" /\ dir["commit"] # None /\ dir["commit"].op = "clear"
      BY <2>1, <2>3, <2>6
    <3>2. Resolve(dir)' = None
      BY <2>2, <3>1 DEF Resolve, RollsBack
    <3>3. PublishInv' /\ RecoveryInv'
      BY <2>2, <2>4, <3>1, <3>2 DEF PublishInv, RecoveryInv
    <3>4. QED BY <1>0, <2>1, <2>2, <3>1, <3>3, RecoveryKeepsStaged DEF PositionInv
  <2>7. CASE RollsBack(dir) /\ dir["state"].had
    <3>1. pc' = "restoreSwap" /\ dir["swap"] # None
      BY <2>1, <2>3, <2>7 DEF RollsBack
    <3>2. PublishInv' /\ RecoveryInv'
      BY <2>2, <2>4, <2>7, <3>1 DEF PublishInv, RecoveryInv, RollsBack
    <3>3. QED BY <1>0, <2>1, <2>2, <3>1, <3>2, RecoveryKeepsStaged DEF PositionInv
  <2>8. CASE RollsBack(dir) /\ ~dir["state"].had
    <3>1. pc' = "dropPending" /\ dir["swap"] = None /\ Marked(dir)
      BY <2>1, <2>3, <2>8 DEF Recoverable, SwapIsRecorded, Marked, RollsBack
    <3>2. Resolve(dir)' = None
      BY <2>2, <2>8 DEF Resolve, RollsBack
    <3>3. PublishInv' /\ RecoveryInv'
      BY <2>2, <2>4, <3>1, <3>2 DEF PublishInv, RecoveryInv, Marked
    <3>4. QED BY <1>0, <2>1, <2>2, <3>1, <3>3, RecoveryKeepsStaged DEF PositionInv
  <2>9. QED BY <2>5, <2>6, <2>7, <2>8
<1>2. CASE RestoreSwap
  <2>1. pc = "restoreSwap" /\ pc' = "dropPending" /\ Rename("swap", "live")
    BY <1>2 DEF RestoreSwap
  <2>2. /\ Recoverable(dir)
        /\ RollsBack(dir) /\ dir["state"].had /\ dir["swap"] # None /\ dir["live"] = None
    BY <2>1 DEF Basics, RecoveryInv
  <2>3. /\ dir'["live"] = dir["swap"] /\ dir'["swap"] = None
        /\ dir'["pending"] = dir["pending"] /\ dir'["staged"] = dir["staged"] /\ dir'["state"] = dir["state"] /\ dir'["commit"] = dir["commit"]
    BY <2>1, <2>2, RenameDir, NamesAre
  <2>4. Recoverable(dir)'
    BY <2>2, <2>3 DEF Recoverable, MarkersAgree, SwapIsRecorded, PendingIsRecorded, NothingIsLost,
                      Marked, RollsBack
  <2>5. Resolve(dir)' = dir'["live"] /\ Marked(dir)'
    BY <2>2, <2>3 DEF Resolve, RollsBack, Marked
  <2>6. PublishInv' /\ RecoveryInv'
    BY <2>1, <2>3, <2>4, <2>5 DEF PublishInv, RecoveryInv
  <2>7. QED BY <1>0, <2>1, <2>3, <2>6, RecoveryKeepsStaged DEF PositionInv
<1>3. CASE DropSwap
  <2>1. pc = "dropSwap" /\ pc' = "dropPending" /\ Remove("swap")
    BY <1>3 DEF DropSwap
  <2>2. Recoverable(dir) /\ dir["commit"] # None /\ Resolve(dir) = dir["live"]
    BY <2>1 DEF Basics, RecoveryInv
  <2>3. /\ dir'["swap"] = None
        /\ dir'["live"] = dir["live"] /\ dir'["pending"] = dir["pending"] /\ dir'["staged"] = dir["staged"] /\ dir'["state"] = dir["state"] /\ dir'["commit"] = dir["commit"]
    BY <2>1, RemoveDir, NamesAre
  <2>4. Recoverable(dir)'
    BY <2>2, <2>3 DEF Recoverable, MarkersAgree, SwapIsRecorded, PendingIsRecorded, NothingIsLost,
                      Marked, RollsBack
  <2>5. Resolve(dir)' = dir'["live"] /\ Marked(dir)'
    BY <2>2, <2>3 DEF Resolve, RollsBack, Marked
  <2>6. PublishInv' /\ RecoveryInv'
    BY <2>1, <2>3, <2>4, <2>5 DEF PublishInv, RecoveryInv
  <2>7. QED BY <1>0, <2>1, <2>3, <2>6, RecoveryKeepsStaged DEF PositionInv
<1>4. CASE DropPending
  <2>1. pc = "dropPending" /\ pc' = "syncRecovered" /\ Remove("pending")
    BY <1>4 DEF DropPending
  <2>2. Recoverable(dir) /\ Marked(dir) /\ dir["swap"] = None /\ Resolve(dir) = dir["live"]
    BY <2>1 DEF Basics, RecoveryInv
  <2>3. /\ dir'["pending"] = None
        /\ dir'["live"] = dir["live"] /\ dir'["swap"] = dir["swap"] /\ dir'["staged"] = dir["staged"] /\ dir'["state"] = dir["state"] /\ dir'["commit"] = dir["commit"]
    BY <2>1, RemoveDir, NamesAre
  <2>4. Recoverable(dir)'
    BY <2>2, <2>3 DEF Recoverable, MarkersAgree, SwapIsRecorded, PendingIsRecorded, NothingIsLost,
                      Marked, RollsBack
  <2>5. Resolve(dir)' = dir'["live"] /\ Marked(dir)'
    BY <2>2, <2>3 DEF Resolve, RollsBack, Marked
  <2>6. PublishInv' /\ RecoveryInv'
    BY <2>1, <2>2, <2>3, <2>4, <2>5 DEF PublishInv, RecoveryInv
  <2>7. QED BY <1>0, <2>1, <2>3, <2>6, RecoveryKeepsStaged DEF PositionInv
<1>5. CASE SyncRecovered
  <2>1. pc = "syncRecovered" /\ pc' = "dropStaged" /\ UNCHANGED dir
    BY <1>5 DEF SyncRecovered, SyncDirectory
  <2>2. PublishInv' /\ RecoveryInv'
    BY <2>1 DEF Basics, PublishInv, RecoveryInv
  <2>3. QED BY <1>0, <2>1, <2>2, RecoveryKeepsStaged DEF PositionInv
<1>6. QED BY <1>1, <1>2, <1>3, <1>4, <1>5

\* The removal of the markers.
LEMMA UnmarkingKeepsPosition ==
  ASSUME Basics, DropStaged \/ DropState \/ SyncNoState \/ DropCommit \/ SyncNoCommit \/ RecoveryFails
  PROVE  PositionInv'
<1> USE DEF PublishPCs, RecoveryPCs, Goto
<1>1. CASE DropStaged
  <2>1. /\ pc = "dropStaged" /\ pc' = "dropState"
        /\ UNCHANGED <<op, after, publications, target>>
    BY <1>1, FileStepsAreQuiet DEF FileSteps, DropStaged
  <2>2. /\ \/ UNCHANGED dir
           \/ /\ dir["state"] # None /\ dir["staged"] # None /\ dir["state"].staging = dir["staged"].gen
              /\ Remove("staged")
    BY <1>1 DEF DropStaged, diskVars
  <2>3. dir'["live"] = dir["live"] /\ dir'["swap"] = dir["swap"] /\ dir'["pending"] = dir["pending"] /\ dir'["state"] = dir["state"] /\ dir'["commit"] = dir["commit"]
    BY <2>2, RemoveDir, NamesAre
  <2>4. PublishInv' /\ RecoveryInv'
    BY <2>1, <2>3 DEF Basics, PublishInv, RecoveryInv, Recoverable, MarkersAgree, SwapIsRecorded,
                      PendingIsRecorded, NothingIsLost, Marked, RollsBack, Resolve
  <2>5. CASE UNCHANGED dir
    BY <2>1, <2>4, <2>5, RecoveryKeepsStaged DEF PositionInv
  <2>6. CASE dir["state"] # None /\ dir["staged"] # None /\ dir["state"].staging = dir["staged"].gen
    <3>1. dir["state"].staging \in (0..publications) \cup {None}
      BY <2>6 DEF Basics, FilesInv, Numbered, Types
    <3>2. publications \in Nat /\ MaxPublications \in Nat
      BY PublicationAssumption DEF Basics, Types
    <3>3. after # "begin"
      <4>1. SUFFICES ASSUME after = "begin" PROVE FALSE
        OBVIOUS
      <4>2. publications < MaxPublications /\ dir["staged"] = Staged(publications + 1)
        BY <2>1, <4>1 DEF Basics, StagedInv, BeforePCs
      <4>3. dir["staged"].gen = publications + 1
        BY <2>6, <4>2 DEF Staged
      <4>4. publications + 1 # None
        <5>1. publications + 1 \in Generations
          BY <3>2, <4>2 DEF Generations
        <5>2. QED BY <5>1, NoneIsNothing
      <4>5. QED BY <2>6, <3>1, <3>2, <4>3, <4>4
    <3>4. StagedInv'
      BY <2>1, <3>3 DEF StagedInv
    <3>5. QED BY <2>4, <3>4 DEF PositionInv
  <2>7. QED BY <2>2, <2>5, <2>6
<1>2. CASE DropState
  <2>1. /\ pc = "dropState" /\ pc' = "syncNoState" /\ Remove("state")
        /\ UNCHANGED <<op, after, publications, target>>
    BY <1>2, FileStepsAreQuiet DEF FileSteps, DropState
  <2>2. /\ Recoverable(dir) /\ Marked(dir) /\ dir["swap"] = None /\ dir["pending"] = None
        /\ Resolve(dir) = dir["live"]
    BY <2>1 DEF Basics, RecoveryInv
  <2>3. /\ dir'["state"] = None
        /\ dir'["live"] = dir["live"] /\ dir'["swap"] = dir["swap"] /\ dir'["pending"] = dir["pending"] /\ dir'["staged"] = dir["staged"] /\ dir'["commit"] = dir["commit"]
    BY <2>1, RemoveDir, NamesAre
  <2>4. Recoverable(dir)'
    BY <2>2, <2>3 DEF Recoverable, MarkersAgree, SwapIsRecorded, PendingIsRecorded, NothingIsLost,
                      Marked, RollsBack
  <2>5. Resolve(dir)' = dir'["live"]
    <3>1. CASE dir["commit"] = None
      BY <2>3, <3>1 DEF Resolve, RollsBack
    <3>2. CASE dir["commit"] # None
      BY <2>2, <2>3, <3>2 DEF Resolve, RollsBack
    <3>3. QED BY <3>1, <3>2
  <2>6. PublishInv' /\ RecoveryInv'
    BY <2>1, <2>2, <2>3, <2>4, <2>5 DEF PublishInv, RecoveryInv
  <2>7. QED BY <2>1, <2>3, <2>6, RecoveryKeepsStaged DEF PositionInv
<1>3. CASE SyncNoState
  <2>1. /\ pc = "syncNoState" /\ pc' = "dropCommit" /\ UNCHANGED dir
        /\ UNCHANGED <<op, after, publications, target>>
    BY <1>3, FileStepsAreQuiet DEF FileSteps, SyncNoState, SyncDirectory
  <2>2. PublishInv' /\ RecoveryInv'
    BY <2>1 DEF Basics, PublishInv, RecoveryInv
  <2>3. QED BY <2>1, <2>2, RecoveryKeepsStaged DEF PositionInv
<1>4. CASE DropCommit
  <2>1. /\ pc = "dropCommit" /\ pc' = "syncNoCommit" /\ Remove("commit")
        /\ UNCHANGED <<op, after, publications, target>>
    BY <1>4, FileStepsAreQuiet DEF FileSteps, DropCommit
  <2>2. dir["state"] = None /\ dir["swap"] = None /\ dir["pending"] = None
    BY <2>1 DEF Basics, RecoveryInv
  <2>3. /\ dir'["commit"] = None
        /\ dir'["live"] = dir["live"] /\ dir'["swap"] = dir["swap"] /\ dir'["pending"] = dir["pending"] /\ dir'["staged"] = dir["staged"] /\ dir'["state"] = dir["state"]
    BY <2>1, RemoveDir, NamesAre
  <2>4. Recoverable(dir)' /\ ~Interrupted(dir)'
    BY <2>2, <2>3 DEF Recoverable, MarkersAgree, SwapIsRecorded, PendingIsRecorded, NothingIsLost,
                      Marked, RollsBack, Interrupted
  <2>5. PublishInv' /\ RecoveryInv'
    BY <2>1, <2>4 DEF PublishInv, RecoveryInv
  <2>6. QED BY <2>1, <2>3, <2>5, RecoveryKeepsStaged DEF PositionInv
<1>5. CASE SyncNoCommit
  <2>1. /\ pc = "syncNoCommit" /\ pc' = after /\ UNCHANGED <<dir, op, after, publications, target>>
        /\ after \in {"begin", "release"}
    BY <1>5 DEF SyncNoCommit, SyncDirectory, publisherVars, Basics, Types
  <2>2. PublishInv' /\ RecoveryInv'
    BY <2>1 DEF Basics, PublishInv, RecoveryInv, Interrupted, Marked
  <2>3. QED BY <2>1, <2>2, RecoveryKeepsStaged DEF PositionInv
<1>6. CASE RecoveryFails
  BY <1>6, AtRest DEF RecoveryFails
<1>7. QED BY <1>1, <1>2, <1>3, <1>4, <1>5, <1>6

LEMMA StepKeepsBasics ==
  ASSUME Basics, Next
  PROVE  Basics'
<1>1. Types' /\ FilesInv'
  BY StepKeepsTypes
<1>2. PositionInv'
  <2>1. CASE Release \/ KillPublisher \/ PowerLoss
    BY <2>1, AtRest DEF Release, KillPublisher, PowerLoss, Goto
  <2>2. ASSUME NEW r \in Readers, Open(r) \/ Close(r) PROVE PositionInv'
    <3>1. UNCHANGED <<dir, images, flushed, pc, op, after, publications, target>>
      BY <2>2 DEF Open, Close, diskVars, publisherVars, historyVars
    <3>2. QED BY <3>1 DEF Basics, PositionInv, StagedInv, PublishInv, RecoveryInv, Staged, GenerationOf,
                          Interrupted, Marked, Recoverable, MarkersAgree, SwapIsRecorded,
                          PendingIsRecorded, NothingIsLost, RollsBack, Resolve
  <2>3. QED
    BY <2>1, <2>2, StartKeepsPosition, BeginsKeepPosition, KeepingKeepsPosition,
       ReplacingKeepsPosition, RecoverKeepsPosition, RestoringKeepsPosition, UnmarkingKeepsPosition
    DEF Next, PublisherStep
<1>3. QED BY <1>1, <1>2 DEF Basics, PositionInv

LEMMA StutterKeepsBasics ==
  ASSUME Basics, UNCHANGED vars
  PROVE  Basics'
<1>1. /\ UNCHANGED <<fileSystem, dir, images, flushed, pc, op, after, failed, seen>>
      /\ UNCHANGED <<publications, old, target, reported, crashes, failures>>
  BY DEF vars, diskVars, publisherVars, historyVars, budgets
<1>2. Types' /\ FilesInv'
  BY <1>1 DEF Basics, Types, FilesInv, Whole, Numbered
<1>3. StagedInv' /\ PublishInv' /\ RecoveryInv'
  BY <1>1 DEF Basics, StagedInv, PublishInv, RecoveryInv, Staged, GenerationOf, Interrupted, Marked,
              Recoverable, MarkersAgree, SwapIsRecorded, PendingIsRecorded, NothingIsLost, RollsBack,
              Resolve
<1>4. QED BY <1>2, <1>3 DEF Basics

LEMMA InitBasics ==
  ASSUME Init
  PROVE  Basics
<1> DEFINE first == [gen |-> 0, inode |-> 0]
<1>1. 0 \in Generations /\ MaxPublications \in Nat /\ fileSystem \in FileSystems
  BY PublicationAssumption DEF Init, Generations
<1>2. first \in Files /\ first.gen = 0
  BY <1>1 DEF Files
<1>3. PICK live \in {None, first} : dir = [n \in Names |-> IF n = "live" THEN live ELSE None]
  BY DEF Init
<1>4. images = {dir} /\ flushed = {first}
  BY DEF Init
<1> HIDE DEF first
<1>5. /\ dir["live"] = live /\ dir["swap"] = None /\ dir["pending"] = None /\ dir["staged"] = None
      /\ dir["state"] = None /\ dir["commit"] = None
  BY <1>3, NamesAre
<1>6. IsDirectory(dir)
  BY <1>2, <1>3, <1>5, NamesAre DEF IsDirectory
<1>7. Whole(dir) /\ Numbered(dir)
  BY <1>1, <1>2, <1>4, <1>5 DEF Whole, Numbered, Init
<1>8. GenerationOf(dir["live"]) \in Generations \cup {None}
  BY <1>1, <1>2, <1>5 DEF GenerationOf
<1>9. seen \in [Readers -> Files \cup {None, Closed}]
  BY DEF Init
<1>10. MaxCrashes[fileSystem] \in Nat /\ MaxFailures[fileSystem] \in Nat
  BY <1>1, PublicationAssumption
<1>11. /\ pc = "idle" /\ op = "recover" /\ after = "release" /\ failed = FALSE /\ reported = FALSE
       /\ publications = 0 /\ crashes = 0 /\ failures = 0
       /\ old = GenerationOf(dir["live"]) /\ target = old
  BY DEF Init
<1>12. Types
  <2>1. dir \in images /\ (\A d \in images : IsDirectory(d)) /\ flushed \in SUBSET Files
    BY <1>2, <1>4, <1>6
  <2>2. 0 \in 0..MaxPublications /\ 0 \in 0..MaxCrashes[fileSystem] /\ 0 \in 0..MaxFailures[fileSystem]
    BY <1>1, <1>10
  <2>3. pc \in PCs /\ op \in Operations \cup {"recover"} /\ after \in {"begin", "release"}
    BY <1>11 DEF PCs, UnlockedPCs
  <2>4. old \in Generations \cup {None} /\ target \in Generations \cup {None}
    BY <1>8, <1>11
  <2>5. QED BY <1>1, <1>9, <1>11, <2>1, <2>2, <2>3, <2>4 DEF Types
<1>13. FilesInv
  BY <1>4, <1>7 DEF FilesInv
<1>14. StagedInv /\ PublishInv /\ RecoveryInv
  BY <1>11 DEF StagedInv, PublishInv, RecoveryInv, PublishPCs, RecoveryPCs, BeforePCs
<1>15. QED BY <1>12, <1>13, <1>14 DEF Basics

(***************************************************************************)
(* What a crash leaves.                                                    *)
(***************************************************************************)
\* Recovery reads four names, and whether there is a fifth.
LEMMA SameIndex ==
  ASSUME NEW d, NEW e, e["live"] = d["live"], e["swap"] = d["swap"], e["state"] = d["state"],
         e["commit"] = d["commit"], e["pending"] = None <=> d["pending"] = None
  PROVE  Value(e) = Value(d) /\ (Good(d) => Good(e))
<1>1. Value(e) = Value(d)
  BY DEF Value, Resolve, RollsBack
<1>2. Good(d) => Good(e)
  BY DEF Good, Recoverable, MarkersAgree, SwapIsRecorded, PendingIsRecorded, NothingIsLost, Marked,
            RollsBack
<1>3. QED BY <1>1, <1>2

\* Where the order of changes is kept, no other directory can appear.
LEMMA ImagesGrow ==
  ASSUME Basics, Ordered, Next
  PROVE  \/ PowerLoss
         \/ images' = {dir'} \/ images' = images \cup {dir'}
<1> DEFINE Grown == images' = {dir'} \/ images' = images \cup {dir'}
<1>0. dir \in images
  BY DEF Basics, Types
<1>1. \A c : Change(c) => Grown
  BY DEF Change, Ordered
<1>2. UNCHANGED diskVars \/ SyncDirectory => Grown
  BY <1>0 DEF diskVars, SyncDirectory
<1>3. \A names : Flush(names) => Grown
  BY <1>0 DEF Flush
<1>4. \A name, content : Set(name, content) => Grown
  BY <1>1 DEF Set
<1>5. \A name : Remove(name) => Grown
  BY <1>4 DEF Remove
<1>6. \A from, to : Rename(from, to) => Grown
  BY <1>1, <1>2 DEF Rename
<1>7. \A o : Start(o) => Grown
  BY <1>1 DEF Start
<1>8. Acquire \/ Release \/ Begin \/ WriteState \/ SyncState \/ Link \/ StartCopy \/ Copy \/ FlushCopy
      => Grown
  BY <1>1, <1>2, <1>3, <1>4, <1>5 DEF Acquire, Release, Begin, WriteState, SyncState, Link, StartCopy, Copy,
     FlushCopy
<1>9. RenameCopy \/ SyncSwap \/ Replace \/ FlushLive \/ RemoveLive \/ SyncLive \/ WriteCommit
      \/ SyncCommit \/ Fail => Grown
  BY <1>2, <1>3, <1>4, <1>5, <1>6
  DEF RenameCopy, SyncSwap, Replace, FlushLive, RemoveLive, SyncLive, WriteCommit, SyncCommit, Fail
<1>10. Recover \/ DropLive \/ RestoreSwap \/ DropSwap \/ DropPending \/ SyncRecovered \/ DropStaged
       \/ DropState \/ SyncNoState \/ DropCommit \/ SyncNoCommit \/ RecoveryFails
       => Grown
  BY <1>2, <1>5, <1>6 DEF Recover, DropLive, RestoreSwap, DropSwap, DropPending, SyncRecovered, DropStaged,
     DropState, SyncNoState, DropCommit, SyncNoCommit, RecoveryFails
<1>11. (\E r \in Readers : Open(r) \/ Close(r)) \/ KillPublisher => Grown
  BY <1>2 DEF Open, Close, KillPublisher
<1>12. QED BY <1>7, <1>8, <1>9, <1>10, <1>11 DEF Next, PublisherStep

\* The steps after which recovery makes the same of the directory as before.
SameValue == (Good(dir) => Good(dir')) /\ Value(dir') = Value(dir)

LEMMA StagingKeepsValue ==
  ASSUME Basics,
         \/ UNCHANGED dir \/ Remove("staged") \/ Remove("pending") \/ Copy
         \/ (\E o : Start(o)) \/ StartCopy
  PROVE  SameValue
<1>1. CASE UNCHANGED dir
  BY <1>1 DEF SameValue
<1>2. CASE Remove("staged")
  <2>1. dir'["live"] = dir["live"] /\ dir'["swap"] = dir["swap"] /\ dir'["pending"] = dir["pending"] /\ dir'["state"] = dir["state"] /\ dir'["commit"] = dir["commit"]
    BY <1>2, RemoveDir, NamesAre
  <2>2. QED BY <2>1, SameIndex DEF SameValue
<1>3. CASE Remove("pending")
  <2>1. /\ dir'["pending"] = None
        /\ dir'["live"] = dir["live"] /\ dir'["swap"] = dir["swap"] /\ dir'["staged"] = dir["staged"] /\ dir'["state"] = dir["state"] /\ dir'["commit"] = dir["commit"]
    BY <1>3, RemoveDir, NamesAre
  <2>2. Value(dir') = Value(dir)
    BY <2>1 DEF Value, Resolve, RollsBack
  <2>3. Good(dir) => Good(dir')
    BY <2>1 DEF Good, Recoverable, MarkersAgree, SwapIsRecorded, PendingIsRecorded, NothingIsLost, Marked,
            RollsBack
  <2>4. QED BY <2>2, <2>3 DEF SameValue
<1>4. CASE Copy
  <2> DEFINE content == [gen |-> dir["live"].gen, inode |-> dir["pending"].inode]
  <2>1. pc = "copy" /\ Change([n \in {"pending"} |-> content])
    BY <1>4 DEF Copy, Goto
  <2>2. content \in Files /\ dir["pending"] # None
    BY <1>4, <2>1, CopyKeepsDisk DEF Basics, PublishInv
  <2>3. /\ dir'["pending"] = content
        /\ dir'["live"] = dir["live"] /\ dir'["swap"] = dir["swap"] /\ dir'["staged"] = dir["staged"] /\ dir'["state"] = dir["state"] /\ dir'["commit"] = dir["commit"]
    BY <2>1, NamesAre DEF Change, With
  <2> HIDE DEF content
  <2>4. QED BY <2>2, <2>3, NoneIsNothing, SameIndex DEF SameValue
<1>5. ASSUME NEW o, Start(o) PROVE SameValue
  <2> DEFINE content == IF o = "install" THEN [gen |-> publications + 1, inode |-> 0] ELSE None
  <2>1. Change([n \in {"staged"} |-> content])
    BY <1>5 DEF Start
  <2> HIDE DEF content
  <2>2. dir'["live"] = dir["live"] /\ dir'["swap"] = dir["swap"] /\ dir'["pending"] = dir["pending"] /\ dir'["state"] = dir["state"] /\ dir'["commit"] = dir["commit"]
    BY <2>1, NamesAre DEF Change, With
  <2>3. QED BY <2>2, SameIndex DEF SameValue
<1>6. CASE StartCopy
  <2> DEFINE content == [gen |-> Torn, inode |-> 1 - dir["live"].inode]
  <2>1. pc = "link" /\ Set("pending", content)
    BY <1>6 DEF StartCopy, Goto
  <2> HIDE DEF content
  <2>2. dir'["live"] = dir["live"] /\ dir'["swap"] = dir["swap"] /\ dir'["staged"] = dir["staged"] /\ dir'["state"] = dir["state"] /\ dir'["commit"] = dir["commit"]
    BY <2>1, SetDir, NamesAre
  <2>3. dir["state"] # None /\ dir["commit"] = None
    BY <2>1 DEF Basics, PublishInv, PublishPCs
  <2>4. Value(dir') = Value(dir)
    BY <2>2 DEF Value, Resolve, RollsBack
  <2>5. Good(dir) => Good(dir')
    BY <2>2, <2>3 DEF Good, Recoverable, MarkersAgree, SwapIsRecorded, PendingIsRecorded, NothingIsLost, Marked,
            RollsBack
  <2>6. QED BY <2>4, <2>5 DEF SameValue
<1>7. QED BY <1>1, <1>2, <1>3, <1>4, <1>5, <1>6

LEMMA PublishingKeepsValue ==
  ASSUME Basics, WriteState \/ Link \/ RenameCopy \/ Replace \/ RemoveLive
  PROVE  SameValue
<1> USE DEF Goto
<1>1. CASE WriteState
  <2> DEFINE content == [op |-> op, token |-> publications + 1, had |-> dir["live"] # None,
                         staging |-> GenerationOf(dir["staged"])]
  <2>1. pc = "writeState" /\ Set("state", content)
    BY <1>1 DEF WriteState
  <2>2. content \in StateMarkers /\ (content.had <=> dir["live"] # None)
    BY <1>1, WriteStateKeepsDisk DEF Basics
  <2> HIDE DEF content
  <2>3. /\ dir'["state"] = content /\ content # None
        /\ dir'["live"] = dir["live"] /\ dir'["swap"] = dir["swap"] /\ dir'["pending"] = dir["pending"] /\ dir'["staged"] = dir["staged"] /\ dir'["commit"] = dir["commit"]
    BY <2>1, <2>2, SetDir, NamesAre, NoneIsNothing
  <2>4. ~Interrupted(dir)
    BY <2>1 DEF Basics, PublishInv
  <2>5. Resolve(dir) = dir["live"]
    BY <2>4 DEF Interrupted, Marked, Resolve, RollsBack
  <2>6. Resolve(dir') = dir["live"]
    BY <2>2, <2>3, <2>4 DEF Interrupted, Marked, Resolve, RollsBack
  <2>7. Good(dir')
    BY <2>2, <2>3, <2>4 DEF Good, Recoverable, MarkersAgree, SwapIsRecorded, PendingIsRecorded, NothingIsLost, Marked,
            RollsBack, Interrupted
  <2>8. QED BY <2>5, <2>6, <2>7 DEF SameValue, Value
<1>2. CASE Link
  <2>1. pc = "link" /\ Set("swap", dir["live"])
    BY <1>2 DEF Link
  <2>2. /\ dir["state"] # None /\ dir["commit"] = None /\ dir["state"].had /\ dir["live"] # None
        /\ dir["swap"] = None
    BY <2>1 DEF Basics, PublishInv, PublishPCs
  <2>3. /\ dir'["swap"] = dir["live"]
        /\ dir'["live"] = dir["live"] /\ dir'["pending"] = dir["pending"] /\ dir'["staged"] = dir["staged"] /\ dir'["state"] = dir["state"] /\ dir'["commit"] = dir["commit"]
    BY <2>1, SetDir, NamesAre
  <2>4. Value(dir') = Value(dir)
    BY <2>2, <2>3 DEF Value, Resolve, RollsBack
  <2>5. Good(dir) => Good(dir')
    BY <2>2, <2>3 DEF Good, Recoverable, MarkersAgree, SwapIsRecorded, PendingIsRecorded, NothingIsLost, Marked,
            RollsBack
  <2>6. QED BY <2>4, <2>5 DEF SameValue
<1>3. CASE RenameCopy
  <2>1. pc = "renameCopy" /\ Rename("pending", "swap")
    BY <1>3 DEF RenameCopy
  <2>2. /\ dir["state"] # None /\ dir["commit"] = None /\ dir["state"].had /\ dir["live"] # None
        /\ dir["swap"] = None /\ dir["pending"] # None /\ dir["pending"].gen = dir["live"].gen
    BY <2>1 DEF Basics, PublishInv, PublishPCs
  <2>3. /\ dir'["swap"] = dir["pending"] /\ dir'["pending"] = None
        /\ dir'["live"] = dir["live"] /\ dir'["staged"] = dir["staged"] /\ dir'["state"] = dir["state"] /\ dir'["commit"] = dir["commit"]
    BY <2>1, <2>2, RenameDir, NamesAre
  <2>4. Value(dir') = Value(dir)
    BY <2>2, <2>3 DEF Value, Resolve, RollsBack, GenerationOf
  <2>5. Good(dir) => Good(dir')
    BY <2>2, <2>3 DEF Good, Recoverable, MarkersAgree, SwapIsRecorded, PendingIsRecorded, NothingIsLost, Marked,
            RollsBack
  <2>6. QED BY <2>4, <2>5 DEF SameValue
<1>4. CASE Replace \/ RemoveLive
  <2>1. /\ pc \in {"replace", "remove"}
        /\ \/ pc = "replace" /\ Rename("staged", "live")
           \/ Remove("live") /\ (pc = "replace" => dir["live"] # None)
    BY <1>4 DEF Replace, RemoveLive
  <2>2. /\ dir["state"] # None /\ dir["commit"] = None
        /\ IF dir["state"].had THEN dir["swap"] # None ELSE dir["live"] = None /\ dir["swap"] = None
        /\ pc = "remove" => dir["state"].had
    BY <2>1 DEF Basics, PublishInv, PublishPCs
  <2>3. /\ dir'["live"] \in {None, dir["staged"]}
        /\ dir'["swap"] = dir["swap"] /\ dir'["pending"] = dir["pending"] /\ dir'["state"] = dir["state"] /\ dir'["commit"] = dir["commit"]
    BY <2>1, RenameDir, RemoveDir, NamesAre
  <2>4. Value(dir') = Value(dir)
    BY <2>2, <2>3 DEF Value, Resolve, RollsBack
  <2>5. Good(dir) => Good(dir')
    BY <2>2, <2>3 DEF Good, Recoverable, MarkersAgree, SwapIsRecorded, PendingIsRecorded, NothingIsLost, Marked,
            RollsBack
  <2>6. QED BY <2>4, <2>5 DEF SameValue
<1>5. QED BY <1>1, <1>2, <1>3, <1>4

LEMMA RecoveringKeepsValue ==
  ASSUME Basics, DropLive \/ RestoreSwap \/ DropSwap \/ DropState \/ DropCommit
  PROVE  SameValue
<1> USE DEF Goto, RecoveryPCs
<1>1. CASE DropLive
  <2>1. pc = "dropLive" /\ Remove("live")
    BY <1>1 DEF DropLive
  <2>2. /\ dir'["live"] = None
        /\ dir'["swap"] = dir["swap"] /\ dir'["pending"] = dir["pending"] /\ dir'["staged"] = dir["staged"] /\ dir'["state"] = dir["state"] /\ dir'["commit"] = dir["commit"]
    BY <2>1, RemoveDir, NamesAre
  <2>3. \/ RollsBack(dir) /\ (dir["state"].had => dir["swap"] # None)
        \/ dir["commit"] # None /\ dir["commit"].op = "clear"
    BY <2>1 DEF Basics, RecoveryInv
  <2>4. Value(dir') = Value(dir)
    BY <2>2, <2>3 DEF Value, Resolve, RollsBack
  <2>5. Good(dir) => Good(dir')
    BY <2>2, <2>3 DEF Good, Recoverable, MarkersAgree, SwapIsRecorded, PendingIsRecorded, NothingIsLost, Marked,
            RollsBack
  <2>6. QED BY <2>4, <2>5 DEF SameValue
<1>2. CASE RestoreSwap
  <2>1. pc = "restoreSwap" /\ Rename("swap", "live")
    BY <1>2 DEF RestoreSwap
  <2>2. RollsBack(dir) /\ dir["state"].had /\ dir["swap"] # None /\ dir["live"] = None
    BY <2>1 DEF Basics, RecoveryInv
  <2>3. /\ dir'["live"] = dir["swap"] /\ dir'["swap"] = None
        /\ dir'["pending"] = dir["pending"] /\ dir'["staged"] = dir["staged"] /\ dir'["state"] = dir["state"] /\ dir'["commit"] = dir["commit"]
    BY <2>1, <2>2, RenameDir, NamesAre
  <2>4. Value(dir') = Value(dir)
    BY <2>2, <2>3 DEF Value, Resolve, RollsBack
  <2>5. Good(dir) => Good(dir')
    BY <2>2, <2>3 DEF Good, Recoverable, MarkersAgree, SwapIsRecorded, PendingIsRecorded, NothingIsLost, Marked,
            RollsBack
  <2>6. QED BY <2>4, <2>5 DEF SameValue
<1>3. CASE DropSwap
  <2>1. pc = "dropSwap" /\ Remove("swap")
    BY <1>3 DEF DropSwap
  <2>2. dir["commit"] # None
    BY <2>1 DEF Basics, RecoveryInv
  <2>3. /\ dir'["swap"] = None
        /\ dir'["live"] = dir["live"] /\ dir'["pending"] = dir["pending"] /\ dir'["staged"] = dir["staged"] /\ dir'["state"] = dir["state"] /\ dir'["commit"] = dir["commit"]
    BY <2>1, RemoveDir, NamesAre
  <2>4. Value(dir') = Value(dir)
    BY <2>2, <2>3 DEF Value, Resolve, RollsBack
  <2>5. Good(dir) => Good(dir')
    BY <2>2, <2>3 DEF Good, Recoverable, MarkersAgree, SwapIsRecorded, PendingIsRecorded, NothingIsLost, Marked,
            RollsBack
  <2>6. QED BY <2>4, <2>5 DEF SameValue
<1>4. CASE DropState
  <2>1. pc = "dropState" /\ Remove("state")
    BY <1>4 DEF DropState
  <2>2. /\ dir["swap"] = None /\ dir["pending"] = None /\ Marked(dir)
        /\ Resolve(dir) = dir["live"]
    BY <2>1 DEF Basics, RecoveryInv
  <2>3. /\ dir'["state"] = None
        /\ dir'["live"] = dir["live"] /\ dir'["swap"] = dir["swap"] /\ dir'["pending"] = dir["pending"] /\ dir'["staged"] = dir["staged"] /\ dir'["commit"] = dir["commit"]
    BY <2>1, RemoveDir, NamesAre
  <2>4. Resolve(dir') = dir["live"]
    <3>1. CASE dir["commit"] = None
      BY <2>3, <3>1 DEF Resolve, RollsBack
    <3>2. CASE dir["commit"] # None
      BY <2>2, <2>3, <3>2 DEF Resolve, RollsBack
    <3>3. QED BY <3>1, <3>2
  <2>5. Good(dir) => Good(dir')
    BY <2>2, <2>3 DEF Good, Recoverable, MarkersAgree, SwapIsRecorded, PendingIsRecorded, NothingIsLost, Marked,
            RollsBack
  <2>6. QED BY <2>2, <2>4, <2>5 DEF SameValue, Value
<1>5. CASE DropCommit
  <2>1. pc = "dropCommit" /\ Remove("commit")
    BY <1>5 DEF DropCommit
  <2>2. /\ dir["swap"] = None /\ dir["pending"] = None /\ dir["state"] = None
        /\ Resolve(dir) = dir["live"]
    BY <2>1 DEF Basics, RecoveryInv
  <2>3. /\ dir'["commit"] = None
        /\ dir'["live"] = dir["live"] /\ dir'["swap"] = dir["swap"] /\ dir'["pending"] = dir["pending"] /\ dir'["staged"] = dir["staged"] /\ dir'["state"] = dir["state"]
    BY <2>1, RemoveDir, NamesAre
  <2>4. Resolve(dir') = dir["live"]
    BY <2>2, <2>3 DEF Resolve, RollsBack
  <2>5. Good(dir) => Good(dir')
    BY <2>2, <2>3 DEF Good, Recoverable, MarkersAgree, SwapIsRecorded, PendingIsRecorded, NothingIsLost, Marked,
            RollsBack
  <2>6. QED BY <2>2, <2>4, <2>5 DEF SameValue, Value
<1>6. QED BY <1>1, <1>2, <1>3, <1>4, <1>5

LEMMA StepKeepsValue ==
  ASSUME Basics, Next
  PROVE  PowerLoss \/ WriteCommit \/ SameValue
<1>1. CASE UNCHANGED dir
  BY <1>1, StagingKeepsValue
<1>2. Acquire \/ Begin \/ SyncState \/ FlushCopy \/ SyncSwap \/ FlushLive \/ SyncLive \/ SyncCommit
      \/ Recover \/ SyncRecovered \/ SyncNoState \/ SyncNoCommit \/ RecoveryFails \/ KillPublisher
      \/ (\E r \in Readers : Open(r) \/ Close(r)) => UNCHANGED dir
  BY DEF Acquire, Begin, SyncState, FlushCopy, SyncSwap, FlushLive, SyncLive, SyncCommit, Recover,
         SyncRecovered, SyncNoState, SyncNoCommit, RecoveryFails, KillPublisher, Open, Close,
         diskVars, SyncDirectory, Flush
<1>3. CASE Release \/ DropStaged
  <2>1. UNCHANGED dir \/ Remove("staged")
    BY <1>3 DEF Release, DropStaged, diskVars
  <2>2. QED BY <2>1, StagingKeepsValue
<1>4. CASE Fail \/ DropPending
  <2>1. UNCHANGED dir \/ Remove("pending")
    BY <1>4 DEF Fail, DropPending, diskVars
  <2>2. QED BY <2>1, StagingKeepsValue
<1>5. CASE (\E o \in Operations \cup {"recover"} : Start(o)) \/ StartCopy \/ Copy
  BY <1>5, StagingKeepsValue
<1>6. CASE WriteState \/ Link \/ RenameCopy \/ Replace \/ RemoveLive
  BY <1>6, PublishingKeepsValue
<1>7. CASE DropLive \/ RestoreSwap \/ DropSwap \/ DropState \/ DropCommit
  BY <1>7, RecoveringKeepsValue
<1>8. QED
  BY <1>1, <1>2, <1>3, <1>4, <1>5, <1>6, <1>7 DEF Next, PublisherStep

\* The commit puts the new index in the place of the old one.
LEMMA CommitEffect ==
  ASSUME Basics, WriteCommit
  PROVE  /\ dir'["state"] # None /\ dir'["commit"] # None /\ pc' = "syncCommit"
         /\ Good(dir) => Good(dir')
         /\ Value(dir') = target
<1> DEFINE content == [op |-> op, token |-> dir["state"].token]
<1>1. pc = "writeCommit" /\ pc' = "syncCommit" /\ Set("commit", content)
  BY DEF WriteCommit, Goto
<1>2. content \in CommitMarkers /\ content.op = op /\ content.token = dir["state"].token
  BY WrittenFits
<1> HIDE DEF content
<1>3. /\ dir'["commit"] = content /\ content # None
      /\ dir'["live"] = dir["live"] /\ dir'["swap"] = dir["swap"] /\ dir'["pending"] = dir["pending"] /\ dir'["staged"] = dir["staged"] /\ dir'["state"] = dir["state"]
  BY <1>1, <1>2, SetDir, NamesAre, NoneIsNothing
<1>4. /\ dir["state"] # None /\ dir["state"].op = op /\ dir["pending"] = None /\ dir["commit"] = None
      /\ dir["live"] # None <=> op = "install"
      /\ target = GenerationOf(dir["live"]) /\ op \in {"install", "clear"}
      /\ dir["state"].had <=> dir["swap"] # None
  BY <1>1, MarkersAreTyped DEF Basics, PublishInv, PublishPCs, Operations
<1>5. Resolve(dir') = dir["live"]
  BY <1>2, <1>3, <1>4 DEF Resolve, RollsBack
<1>6. Good(dir) => Good(dir')
  BY <1>2, <1>3, <1>4 DEF Good, Recoverable, MarkersAgree, SwapIsRecorded, PendingIsRecorded, NothingIsLost, Marked,
            RollsBack
<1>7. QED BY <1>1, <1>3, <1>4, <1>5, <1>6 DEF Value

LEMMA PowerLossEffect ==
  ASSUME Basics, PowerLoss
  PROVE  \E d \in images : /\ images' = {dir'}
                           /\ Good(d) => Good(dir')
                           /\ Value(dir') = Value(d)
<1>1. PICK d \in images : dir' = Remains(d) /\ images' = {Remains(d)}
  BY DEF PowerLoss
<1>2. /\ dir'["live"] = d["live"] /\ dir'["swap"] = d["swap"]
      /\ dir'["state"] = d["state"] /\ dir'["commit"] = d["commit"]
      /\ dir'["pending"] = None <=> d["pending"] = None
  BY <1>1, RemainsEffect DEF Basics
<1>3. QED BY <1>1, <1>2, SameIndex

LEMMA StepKeepsGood ==
  ASSUME Basics, Ordered, GoodInv, Next
  PROVE  GoodInv'
<1>1. dir \in images /\ \A d \in images : Good(d)
  BY DEF Basics, Types, GoodInv
<1>2. CASE PowerLoss
  <2>1. images' = {dir'} /\ Good(dir')
    BY <1>1, <1>2, PowerLossEffect
  <2>2. QED BY <2>1 DEF GoodInv, Good, Recoverable, MarkersAgree, SwapIsRecorded, PendingIsRecorded,
                        NothingIsLost, Marked, RollsBack
<1>3. CASE ~PowerLoss
  <2>1. images' \subseteq images \cup {dir'}
    BY <1>3, ImagesGrow
  <2>2. Good(dir')
    BY <1>1, <1>3, StepKeepsValue, CommitEffect DEF SameValue
  <2>3. QED BY <1>1, <2>1, <2>2 DEF GoodInv
<1>4. QED BY <1>2, <1>3

\* While both markers are there only a sync separates the possible outcomes.
LEMMA BothMarkersStay ==
  ASSUME Basics, Next, ~PowerLoss, dir["state"] # None, dir["commit"] # None,
         pc \notin {"dropStaged", "dropState"}
  PROVE  \/ images' = {dir'}
         \/ dir'["state"] # None /\ dir'["commit"] # None /\ pc' \notin {"dropStaged", "dropState"}
<1> USE DEF Goto
<1> DEFINE Stays == dir'["state"] # None /\ dir'["commit"] # None /\ pc' \notin {"dropStaged", "dropState"}
<1>0. Types /\ PublishInv /\ RecoveryInv /\ Interrupted(dir)
  BY DEF Basics, Interrupted, Marked
<1>1. pc \notin PublishPCs \ {"syncCommit"}
  BY <1>0 DEF PublishInv, PublishPCs
<1>2. pc \notin {"restoreSwap", "syncNoState", "dropCommit", "syncNoCommit"}
  BY <1>0 DEF RecoveryInv, RollsBack
<1>3. ASSUME NEW o \in Operations \cup {"recover"}, Start(o) PROVE Stays
  <2>1. pc' = "acquire" /\ \E content : Change([n \in {"staged"} |-> content])
    BY <1>3 DEF Start
  <2>2. dir'["state"] = dir["state"] /\ dir'["commit"] = dir["commit"]
    BY <2>1, NamesAre DEF Change, With
  <2>3. QED BY <2>1, <2>2
<1>4. CASE Release
  <2>1. dir'["state"] = dir["state"] /\ dir'["commit"] = dir["commit"] /\ pc' = "idle"
    BY <1>4, RemoveDir, NamesAre DEF Release
  <2>2. QED BY <2>1
<1>5. CASE Acquire \/ RecoveryFails \/ KillPublisher \/ (\E r \in Readers : Open(r) \/ Close(r))
  <2>1. UNCHANGED dir /\ pc' \in {pc, "recover", "release", "idle"}
    BY <1>5 DEF Acquire, RecoveryFails, KillPublisher, Open, Close, diskVars
  <2>2. QED BY <2>1
<1>6. CASE Recover
  <2>1. UNCHANGED dir /\ ~RollsBack(dir) /\ Marked(dir)
    BY <1>6 DEF Recover, diskVars, RollsBack, Marked
  <2>2. pc' \in {"release", "dropLive", "dropSwap"}
    BY <1>6, <2>1 DEF Recover
  <2>3. QED BY <2>1, <2>2
<1>7. CASE DropLive
  <2>1. dir'["state"] = dir["state"] /\ dir'["commit"] = dir["commit"]
    BY <1>7, RemoveDir, NamesAre DEF DropLive
  <2>2. pc' = "dropSwap"
    BY <1>7 DEF DropLive, RollsBack
  <2>3. QED BY <2>1, <2>2
<1>8. CASE DropSwap \/ DropPending
  <2>1. /\ Remove("swap") \/ Remove("pending")
        /\ pc' \in {"dropPending", "syncRecovered"}
    BY <1>8 DEF DropSwap, DropPending
  <2>2. dir'["state"] = dir["state"] /\ dir'["commit"] = dir["commit"]
    BY <2>1, RemoveDir, NamesAre
  <2>3. QED BY <2>1, <2>2
<1>9. CASE SyncCommit \/ SyncRecovered
  BY <1>9 DEF SyncCommit, SyncRecovered, SyncDirectory
<1>10. CASE Fail
  <2>1. pc = "syncCommit"
    BY <1>1, <1>10 DEF Fail
  <2>2. UNCHANGED dir /\ pc' = "recover"
    BY <1>10, <2>1 DEF Fail, diskVars
  <2>3. QED BY <2>2
<1>11. pc \notin {"begin", "writeState", "syncState", "link", "copy", "flushCopy", "renameCopy", "syncSwap",
                  "replace", "flushLive", "remove", "syncLive", "writeCommit"}
  BY <1>1 DEF PublishPCs
<1>12. ~(Begin \/ WriteState \/ SyncState \/ Link \/ StartCopy \/ Copy \/ FlushCopy \/ RenameCopy \/ SyncSwap
         \/ Replace \/ FlushLive \/ RemoveLive \/ SyncLive \/ WriteCommit)
  BY <1>11 DEF Begin, WriteState, SyncState, Link, StartCopy, Copy, FlushCopy, RenameCopy, SyncSwap,
               Replace, FlushLive, RemoveLive, SyncLive, WriteCommit
<1>13. ~(RestoreSwap \/ DropStaged \/ DropState \/ SyncNoState \/ DropCommit \/ SyncNoCommit)
  BY <1>2 DEF RestoreSwap, DropStaged, DropState, SyncNoState, DropCommit, SyncNoCommit
<1>14. QED
  BY <1>3, <1>4, <1>5, <1>6, <1>7, <1>8, <1>9, <1>10, <1>12, <1>13 DEF Next, PublisherStep

LEMMA StepKeepsValues ==
  ASSUME Basics, Ordered, ValueInv, Next
  PROVE  ValueInv'
<1>1. dir \in images
  BY DEF Basics, Types
<1>2. CASE images' = {dir'}
  BY <1>2 DEF ValueInv
<1>3. CASE WriteCommit
  <2>1. dir'["state"] # None /\ dir'["commit"] # None /\ pc' = "syncCommit"
    BY <1>3, CommitEffect
  <2>2. QED BY <2>1 DEF ValueInv
<1>4. CASE ~PowerLoss /\ ~WriteCommit /\ images' # {dir'}
  <2>1. images' \subseteq images \cup {dir'} /\ Value(dir') = Value(dir)
    BY <1>4, ImagesGrow, StepKeepsValue DEF SameValue
  <2>2. ASSUME NEW e \in images'
        PROVE  \/ Value(e) = Value(dir')
               \/ dir'["state"] # None /\ dir'["commit"] # None /\ pc' \notin {"dropStaged", "dropState"}
    <3>1. CASE e = dir'
      BY <3>1
    <3>2. CASE e \in images
      <4>1. \/ Value(e) = Value(dir)
            \/ dir["state"] # None /\ dir["commit"] # None /\ pc \notin {"dropStaged", "dropState"}
        BY <3>2 DEF ValueInv
      <4>2. QED BY <1>4, <2>1, <4>1, BothMarkersStay
    <3>3. QED BY <2>1, <3>1, <3>2
  <2>3. QED BY <2>2 DEF ValueInv
<1>5. CASE PowerLoss
  BY <1>2, <1>5, PowerLossEffect
<1>6. QED BY <1>2, <1>3, <1>4, <1>5

LEMMA StepKeepsReports ==
  ASSUME Basics, Ordered, ReportInv, Next
  PROVE  ReportInv'
<1> USE DEF PublishPCs, RecoveryPCs, Goto
<1>0. dir \in images
  BY DEF Basics, Types
<1>1. CASE WriteState
  <2>1. pc' = "syncState" /\ reported' = FALSE
    BY <1>1 DEF WriteState
  <2>2. QED BY <2>1 DEF ReportInv
<1>2. CASE PowerLoss
  <2>1. PICK d \in images : images' = {dir'} /\ Value(dir') = Value(d)
    BY <1>2, PowerLossEffect
  <2>2. pc' = "idle" /\ UNCHANGED <<reported, target>>
    BY <1>2 DEF PowerLoss, historyVars
  <2>3. QED BY <2>1, <2>2 DEF ReportInv
<1>3. CASE WriteCommit
  <2>1. pc = "writeCommit" /\ pc' = "syncCommit" /\ UNCHANGED reported
    BY <1>3 DEF WriteCommit, historyVars
  <2>2. ~reported
    BY <2>1 DEF ReportInv
  <2>3. QED BY <2>1, <2>2 DEF ReportInv
<1>4. CASE SyncCommit
  <2>1. /\ pc = "syncCommit" /\ pc' = "recover" /\ images' = {dir} /\ UNCHANGED <<dir, target, reported>>
    BY <1>4 DEF SyncCommit, SyncDirectory, historyVars
  <2>2. /\ dir["commit"] # None /\ dir["commit"].op = op /\ target = GenerationOf(dir["live"])
        /\ dir["live"] # None <=> op = "install"
        /\ op \in {"install", "clear"}
    BY <2>1, MarkersAreTyped DEF Basics, PublishInv, Operations
  <2>3. Value(dir) = target
    BY <2>2 DEF Value, Resolve, RollsBack
  <2>4. ~reported
    BY <2>1 DEF ReportInv
  <2>5. QED BY <2>1, <2>3, <2>4 DEF ReportInv
<1>5. CASE SyncNoCommit
  <2>1. /\ pc = "syncNoCommit" /\ pc' = after /\ images' = {dir} /\ UNCHANGED <<dir, target>>
        /\ reported' = IF after = "release" THEN op # "recover" /\ ~failed ELSE reported
        /\ after \in {"begin", "release"} /\ failed \in BOOLEAN /\ reported \in BOOLEAN
    BY <1>5 DEF SyncNoCommit, SyncDirectory, Basics, Types
  <2>2. reported' => Value(dir) = target
    <3>1. CASE after = "release"
      BY <2>1, <3>1 DEF ReportInv
    <3>2. CASE after = "begin"
      BY <1>0, <2>1, <3>2 DEF ReportInv
    <3>3. QED BY <2>1, <3>1, <3>2
  <2>3. QED BY <2>1, <2>2 DEF ReportInv
<1>6. CASE ~(WriteState \/ PowerLoss \/ WriteCommit \/ SyncCommit \/ SyncNoCommit)
  <2>1. images' \subseteq images \cup {dir'} /\ Value(dir') = Value(dir)
    BY <1>6, ImagesGrow, StepKeepsValue DEF SameValue
  <2>2. UNCHANGED <<target, reported>>
    <3>1. CASE FileSteps
      BY <3>1, FileStepsAreQuiet
    <3>2. QED
      BY <1>6, <3>1 DEF Next, PublisherStep, FileSteps, Start, Fail, Recover, RecoveryFails, Open, Close,
                        KillPublisher, historyVars
  <2>3. reported' => \A d \in images' : Value(d) = target'
    BY <1>0, <2>1, <2>2 DEF ReportInv
  <2>4. pc' \in PublishPCs \ {"begin", "writeState"} => pc \in PublishPCs \ {"begin", "writeState"}
    <3>1. after \in {"begin", "release"}
      BY DEF Basics, Types
    <3>2. CASE FileSteps
      BY <3>2 DEF FileSteps, Acquire, Release, Begin, SyncState, Link, StartCopy, Copy, FlushCopy, RenameCopy,
                  SyncSwap, Replace, FlushLive, RemoveLive, SyncLive, WriteCommit, DropLive, RestoreSwap,
                  DropSwap, DropPending, SyncRecovered, DropStaged, DropState, SyncNoState, DropCommit
    <3>3. CASE ~FileSteps
      BY <1>6, <3>1, <3>3
      DEF Next, PublisherStep, FileSteps, Start, Fail, Recover, RecoveryFails, Open, Close, KillPublisher,
          Marked, RollsBack
    <3>4. QED BY <3>2, <3>3
  <2>5. pc' \in RecoveryPCs /\ after' = "release" /\ op' # "recover" /\ ~failed' =>
          pc \in RecoveryPCs /\ after = "release" /\ op # "recover" /\ ~failed
    <3>1. /\ pc = "acquire" => (after = "begin" <=> op # "recover")
          /\ after \in {"begin", "release"}
      BY DEF Basics, StagedInv, Types
    <3>2. CASE Acquire
      BY <3>1, <3>2 DEF Acquire, publisherVars
    <3>3. CASE FileSteps /\ ~Acquire
      <4>1. UNCHANGED <<op, after, failed>>
        BY <3>3, FileStepsAreQuiet
      <4>2. pc = "syncState" => dir["state"].had \in BOOLEAN /\ op \in {"install", "clear"}
        BY MarkersAreTyped DEF Operations
      <4>3. pc' \in RecoveryPCs => pc \in RecoveryPCs
        BY <3>3, <4>2 DEF FileSteps, Release, Begin, SyncState, Link, StartCopy, Copy, FlushCopy, RenameCopy,
                    SyncSwap, Replace, FlushLive, RemoveLive, SyncLive, WriteCommit, DropLive, RestoreSwap,
                    DropSwap, DropPending, SyncRecovered, DropStaged, DropState, SyncNoState, DropCommit
      <4>4. QED BY <4>1, <4>3
    <3>4. CASE Recover
      BY <3>4 DEF Recover
    <3>5. CASE ~FileSteps /\ ~Recover
      BY <1>6, <3>5 DEF Next, PublisherStep, FileSteps, Start, Fail, RecoveryFails, Open, Close,
                        KillPublisher, publisherVars
    <3>6. QED BY <3>2, <3>3, <3>4, <3>5
  <2>6. QED BY <2>1, <2>2, <2>3, <2>4, <2>5 DEF ReportInv
<1>7. QED BY <1>1, <1>2, <1>3, <1>4, <1>5, <1>6

LEMMA StepKeepsReaders ==
  ASSUME Basics, Ordered, ValueInv, ReaderInv, Next
  PROVE  ReaderInv'
<1> USE DEF Goto, UnlockedPCs
<1>0. dir \in images /\ seen \in [Readers -> Files \cup {None, Closed}]
  BY DEF Basics, Types
<1>1. CASE PowerLoss
  BY <1>1 DEF PowerLoss, ReaderInv
<1>2. ASSUME NEW r \in Readers, Open(r) PROVE ReaderInv'
  <2>1. /\ UNCHANGED <<dir, images, pc>> /\ pc \in UnlockedPCs \cup {"release"} /\ ~Interrupted(dir)
        /\ seen' = [seen EXCEPT ![r] = dir["live"]]
    BY <1>2 DEF Open, diskVars
  <2>2. Value(dir) = GenerationOf(dir["live"])
    BY <2>1 DEF Interrupted, Marked, Value, Resolve, RollsBack
  <2>3. \A d \in images : Value(d) = Value(dir)
    BY <2>1 DEF ValueInv, Interrupted, Marked
  <2>4. \A q \in Readers : seen'[q] = IF q = r THEN dir["live"] ELSE seen[q]
    BY <1>0, <2>1
  <2>5. QED BY <2>1, <2>2, <2>3, <2>4 DEF ReaderInv
<1>3. ASSUME NEW r \in Readers, Close(r) PROVE ReaderInv'
  <2>1. UNCHANGED <<dir, images, pc>> /\ seen' = [seen EXCEPT ![r] = Closed]
    BY <1>3 DEF Close, diskVars
  <2>2. \A q \in Readers : seen'[q] = IF q = r THEN Closed ELSE seen[q]
    BY <1>0, <2>1
  <2>3. QED BY <2>1, <2>2 DEF ReaderInv
<1>4. CASE ~PowerLoss /\ ~\E r \in Readers : Open(r) \/ Close(r)
  <2>1. UNCHANGED seen
    <3>1. CASE FileSteps
      BY <3>1, FileStepsAreQuiet
    <3>2. QED
      BY <1>4, <3>1 DEF Next, PublisherStep, FileSteps, Start, WriteState, SyncCommit, SyncNoCommit, Fail,
                        Recover, RecoveryFails, KillPublisher
  <2>2. SUFFICES ASSUME NEW r \in Readers, seen[r] # Closed
                 PROVE  /\ pc' \in UnlockedPCs \cup {"release"}
                        /\ \A d \in images' : Value(d) = GenerationOf(seen[r])
    BY <2>1 DEF ReaderInv
  <2>3. /\ pc \in UnlockedPCs \cup {"release"}
        /\ \A d \in images : Value(d) = GenerationOf(seen[r])
    BY <2>2 DEF ReaderInv
  <2>4. (\E o : Start(o)) \/ Acquire \/ Release \/ KillPublisher
    BY <1>4, <2>3
    DEF Next, PublisherStep, Begin, WriteState, SyncState, Link, StartCopy, Copy, FlushCopy,
        RenameCopy, SyncSwap, Replace, FlushLive, RemoveLive, SyncLive, WriteCommit, SyncCommit, Fail,
        Recover, DropLive, RestoreSwap, DropSwap, DropPending, SyncRecovered, DropStaged, DropState,
        SyncNoState, DropCommit, SyncNoCommit, RecoveryFails, PublishPCs, RecoveryPCs
  <2>5. pc' \in UnlockedPCs \cup {"release"}
    BY <2>2, <2>4 DEF Start, Acquire, Release, KillPublisher
  <2>6. images' \subseteq images \cup {dir'}
    BY <1>4, ImagesGrow
  <2>7. Value(dir') = Value(dir)
    <3>1. ~WriteCommit
      BY <2>3 DEF WriteCommit
    <3>2. QED BY <1>4, <3>1, StepKeepsValue DEF SameValue
  <2>8. QED BY <1>0, <2>3, <2>5, <2>6, <2>7
<1>5. QED BY <1>1, <1>2, <1>3, <1>4

(***************************************************************************)
(* The theorems.                                                           *)
(***************************************************************************)
Inv == Basics /\ OrderedInv

LEMMA InitInv ==
  ASSUME Init
  PROVE  Inv
<1>1. Basics
  BY InitBasics
<1>2. /\ images = {dir} /\ pc = "idle" /\ reported = FALSE /\ \A r \in Readers : seen[r] = Closed
  BY DEF Init
<1>3. /\ dir["swap"] = None /\ dir["pending"] = None /\ dir["state"] = None /\ dir["commit"] = None
  <2>1. PICK live : dir = [n \in Names |-> IF n = "live" THEN live ELSE None]
    BY DEF Init
  <2>2. QED BY <2>1, NamesAre
<1>4. Good(dir)
  BY <1>3 DEF Good, Recoverable, MarkersAgree, SwapIsRecorded, PendingIsRecorded, NothingIsLost, Marked,
              RollsBack
<1>5. GoodInv /\ ValueInv /\ ReportInv /\ ReaderInv
  BY <1>2, <1>4 DEF GoodInv, ValueInv, ReportInv, ReaderInv, RecoveryPCs, PublishPCs
<1>6. QED BY <1>1, <1>5 DEF Inv, OrderedInv

LEMMA NextKeepsInv ==
  ASSUME Inv, [Next]_vars
  PROVE  Inv'
<1>1. CASE Next
  <2>1. Basics'
    BY <1>1, StepKeepsBasics DEF Inv
  <2>2. Ordered' <=> Ordered
    BY <1>1, FileSystemIsRigid DEF Ordered
  <2>3. ASSUME Ordered PROVE (GoodInv /\ ValueInv /\ ReportInv /\ ReaderInv)'
    BY <1>1, <2>3, StepKeepsGood, StepKeepsValues, StepKeepsReports, StepKeepsReaders DEF Inv, OrderedInv
  <2>4. QED BY <2>1, <2>2, <2>3 DEF Inv, OrderedInv
<1>2. CASE UNCHANGED vars
  <2>1. Basics'
    BY <1>2, StutterKeepsBasics DEF Inv
  <2>2. /\ UNCHANGED <<fileSystem, dir, images, flushed, pc, op, after, failed, seen>>
        /\ UNCHANGED <<target, reported>>
    BY <1>2 DEF vars, diskVars, publisherVars, historyVars, budgets
  <2>3. OrderedInv'
    BY <2>2 DEF Inv, OrderedInv, Ordered, GoodInv, ValueInv, ReportInv, ReaderInv
  <2>4. QED BY <2>1, <2>3 DEF Inv
<1>3. QED BY <1>1, <1>2

LEMMA InvHolds == Spec => []Inv
<1>1. Init => Inv
  BY InitInv
<1>2. Inv /\ [Next]_vars => Inv'
  BY NextKeepsInv
<1>3. QED BY <1>1, <1>2, PTL DEF Spec

\* Everything has its type on every file system: the cache directory and
\* whatever a power loss may leave of it, the markers, the files that readers
\* have open.
THEOREM TypeCorrect == Spec => []TypeOK
<1>1. Inv => TypeOK
  BY DEF Inv, Basics, Types, IsDirectory, TypeOK, PCs
<1>2. QED BY <1>1, InvHolds, PTL

\* recover_interrupted_publication never refuses what the publisher, its
\* failures, kills and power losses left behind, however many there were,
\* where the order of changes to a directory is kept.
THEOREM RecoveryAlwaysWorks == Spec => [](fileSystem # "reordering" => AlwaysRecoverable)
<1>1. Inv => (fileSystem # "reordering" => AlwaysRecoverable)
  BY DEF Inv, Basics, Types, OrderedInv, Ordered, GoodInv, Good, AlwaysRecoverable
<1>2. QED BY <1>1, InvHolds, PTL

\* What may be found after a crash.
LEMMA OutcomesAre ==
  ASSUME Basics
  PROVE  /\ fileSystem = "windows" => Outcomes = {Value(dir)}
         /\ fileSystem # "windows" => Outcomes = {Value(d) : d \in images}
<1>1. CASE fileSystem = "windows"
  BY <1>1 DEF Outcomes, Survivors, Value
<1>2. CASE fileSystem # "windows"
  <2>1. \A d \in images : Value(Remains(d)) = Value(d)
    BY RemainsEffect DEF Basics, Value
  <2>2. dir \in images
    BY DEF Basics, Types
  <2>3. Outcomes = {Value(e) : e \in {Remains(d) : d \in images} \cup {dir}}
    BY <1>2 DEF Outcomes, Survivors, Value
  <2>4. QED BY <1>2, <2>1, <2>2, <2>3
<1>3. QED BY <1>1, <1>2

\* A publication that was reported to the user as done is what every crash
\* leaves, until the next one begins.
THEOREM ReportedIsNeverLost == Spec => [](fileSystem # "reordering" => ReportedIsDurable)
<1>1. ASSUME Inv, fileSystem # "reordering", reported PROVE Outcomes = {target}
  <2>1. dir \in images /\ \A d \in images : Value(d) = target
    BY <1>1 DEF Inv, Basics, Types, OrderedInv, Ordered, ReportInv
  <2>2. QED BY <1>1, <2>1, OutcomesAre DEF Inv
<1>2. Inv => (fileSystem # "reordering" => ReportedIsDurable)
  BY <1>1 DEF ReportedIsDurable
<1>3. QED BY <1>2, InvHolds, PTL

\* A reader never has a generation open that a crash may yet take back.
THEOREM ReadersAreSafe == Spec => [](fileSystem # "reordering" => ReadersSeeTheIndex)
<1>1. ASSUME Inv, fileSystem # "reordering", NEW r \in Readers, seen[r] # Closed
      PROVE  Outcomes = {GenerationOf(seen[r])}
  <2>1. dir \in images /\ \A d \in images : Value(d) = GenerationOf(seen[r])
    BY <1>1 DEF Inv, Basics, Types, OrderedInv, Ordered, ReaderInv
  <2>2. QED BY <1>1, <2>1, OutcomesAre DEF Inv
<1>2. Inv => (fileSystem # "reordering" => ReadersSeeTheIndex)
  BY <1>1 DEF ReadersSeeTheIndex
<1>3. QED BY <1>2, InvHolds, PTL

(***************************************************************************)
(* The files implement the abstract register.                              *)
(***************************************************************************)
LEMMA OutcomesWillBe ==
  Basics' => (/\ fileSystem = "windows" => Outcomes = {Value(dir)}
              /\ fileSystem # "windows" => Outcomes = {Value(d) : d \in images})'
<1>1. Basics => /\ fileSystem = "windows" => Outcomes = {Value(dir)}
                /\ fileSystem # "windows" => Outcomes = {Value(d) : d \in images}
  BY OutcomesAre
<1>2. QED BY <1>1, PTL

LEMMA InitIsRegisterInit ==
  ASSUME Init, Inv
  PROVE  Register!Init
<1>1. /\ images = {dir} /\ target = GenerationOf(dir["live"])
      /\ \E live : dir = [n \in Names |-> IF n = "live" THEN live ELSE None]
  BY DEF Init
<1>2. dir["state"] = None /\ dir["commit"] = None
  BY <1>1, NamesAre
<1>3. Value(dir) = GenerationOf(dir["live"])
  BY <1>2 DEF Value, Resolve, RollsBack
<1>4. Outcomes = {Value(dir)}
  BY <1>1, OutcomesAre DEF Inv
<1>5. target \in Generations \cup {None}
  BY DEF Inv, Basics, Types
<1>6. QED BY <1>1, <1>3, <1>4, <1>5 DEF Register!Init, Value

LEMMA StepIsRegisterStep ==
  ASSUME Inv, Next, fileSystem # "reordering"
  PROVE  [Register!Next]_(Register!vars)
<1> DEFINE current == GenerationOf(Resolve(dir))
<1>0. /\ Basics /\ Basics' /\ Ordered /\ ValueInv /\ current = Value(dir) /\ current' = Value(dir')
      /\ fileSystem' = fileSystem /\ dir \in images /\ dir' \in images'
  <2>1. Inv'
    BY NextKeepsInv
  <2>2. QED BY <2>1, FileSystemIsRigid DEF Inv, OrderedInv, Ordered, Basics, Types, Value
<1>1. /\ fileSystem = "windows" => Outcomes = {current} /\ Outcomes' = {current'}
      /\ fileSystem # "windows" =>
           Outcomes = {Value(d) : d \in images} /\ Outcomes' = {Value(d) : d \in images'}
  <2>1. /\ fileSystem = "windows" => Outcomes = {current}
        /\ fileSystem # "windows" => Outcomes = {Value(d) : d \in images}
    BY <1>0, OutcomesAre
  <2>2. /\ fileSystem' = "windows" => Outcomes' = {Value(dir')}
        /\ fileSystem' # "windows" => Outcomes' = {Value(d) : d \in images'}
    BY <1>0, OutcomesWillBe
  <2>3. QED BY <1>0, <2>1, <2>2
<1>2. PowerLoss \/ images' = {dir'} \/ images' = images \cup {dir'}
  BY <1>0, ImagesGrow
<1> HIDE DEF current
<1>3. CASE WriteState
  <2>1. pc = "writeState" /\ target' \in Generations \cup {None}
    BY <1>0, <1>3 DEF WriteState, Goto, Basics, Types
  <2>2. dir["state"] = None
    BY <1>0, <2>1 DEF Basics, PublishInv, Interrupted, Marked
  <2>3. \A d \in images : Value(d) = Value(dir)
    BY <1>0, <2>2 DEF ValueInv
  <2>4. Value(dir') = Value(dir)
    BY <1>0, <1>3, PublishingKeepsValue DEF SameValue
  <2>5. images' = {dir'} \/ images' = images \cup {dir'}
    BY <1>2, <1>3 DEF WriteState, PowerLoss, Goto
  <2>6. Outcomes = {current} /\ Outcomes' = {current}
    BY <1>0, <1>1, <2>3, <2>4, <2>5
  <2>7. Register!Offer
    BY <1>0, <2>1, <2>4, <2>6 DEF Register!Offer, current
  <2>8. QED BY <2>7 DEF Register!Next
<1>4. CASE WriteCommit
  <2>1. pc = "writeCommit" /\ UNCHANGED target
    BY <1>4 DEF WriteCommit, Goto, historyVars
  <2>2. dir["commit"] = None
    BY <1>0, <2>1 DEF Basics, PublishInv, PublishPCs
  <2>3. \A d \in images : Value(d) = Value(dir)
    BY <1>0, <2>2 DEF ValueInv
  <2>4. Value(dir') = target
    BY <1>0, <1>4, CommitEffect
  <2>5. images' = {dir'} \/ images' = images \cup {dir'}
    <3>1. pc' = "syncCommit"
      BY <1>4 DEF WriteCommit, Goto
    <3>2. QED BY <1>2, <3>1 DEF PowerLoss
  <2>6. Outcomes = {current} /\ Outcomes' \in {{target}, {current, target}}
    BY <1>0, <1>1, <2>3, <2>4, <2>5
  <2>7. Register!Replace
    BY <1>0, <2>1, <2>4, <2>6 DEF Register!Replace, current
  <2>8. QED BY <2>7 DEF Register!Next
<1>5. CASE PowerLoss
  <2>1. PICK d \in images : images' = {dir'} /\ Value(dir') = Value(d)
    BY <1>0, <1>5, PowerLossEffect
  <2>2. fileSystem # "windows" /\ UNCHANGED target
    BY <1>5 DEF PowerLoss, historyVars
  <2>3. current' \in Outcomes /\ Outcomes' = {current'}
    BY <1>0, <1>1, <2>1, <2>2
  <2>4. Register!Settle
    BY <2>2, <2>3 DEF Register!Settle, current
  <2>5. QED BY <2>4 DEF Register!Next
<1>6. CASE ~WriteState /\ ~WriteCommit /\ ~PowerLoss
  <2>1. Value(dir') = Value(dir)
    BY <1>0, <1>6, StepKeepsValue DEF SameValue
  <2>2. UNCHANGED target
    <3>1. CASE FileSteps
      BY <3>1, FileStepsAreQuiet
    <3>2. QED
      BY <1>6, <3>1 DEF Next, PublisherStep, FileSteps, Start, SyncCommit, SyncNoCommit, Fail, Recover,
                        RecoveryFails, Open, Close, KillPublisher, historyVars
  <2>3. CASE fileSystem # "windows" /\ images' = {dir'}
    <3>1. current' \in Outcomes /\ Outcomes' = {current'}
      BY <1>0, <1>1, <2>1, <2>3
    <3>2. Register!Settle
      BY <2>2, <3>1 DEF Register!Settle, current
    <3>3. QED BY <3>2 DEF Register!Next
  <2>4. CASE fileSystem = "windows" \/ images' = images \cup {dir'}
    <3>1. current' = current /\ Outcomes' = Outcomes
      BY <1>0, <1>1, <2>1, <2>4
    <3>2. QED BY <2>2, <3>1 DEF Register!vars, current
  <2>5. QED BY <1>2, <1>6, <2>3, <2>4
<1>7. QED BY <1>3, <1>4, <1>5, <1>6

\* Publishing replaces the index at one instant, that of the commit marker,
\* and a crash leaves the old index or the new one: nothing else, and never
\* the old one again once the marker is durable.
THEOREM PublishingIsAtomic == Spec => ImplementsRegister
<1>1. Init => Register!Init
  BY InitInv, InitIsRegisterInit
<1>2. Inv /\ [Next]_vars =>
        [fileSystem = "reordering" \/ Register!Next]_(Register!vars)
  <2>1. CASE Next
    BY <2>1, StepIsRegisterStep
  <2>2. CASE UNCHANGED vars
    <3>1. UNCHANGED <<fileSystem, dir, images, flushed, target>>
      BY <2>2 DEF vars, diskVars, historyVars
    <3>2. UNCHANGED Register!vars
      BY <3>1 DEF Register!vars, Outcomes, Survivors, Remains, Resolve, RollsBack, GenerationOf
    <3>3. QED BY <3>2
  <2>3. QED BY <2>1, <2>2
<1>3. QED BY <1>1, <1>2, InvHolds, PTL DEF Spec, ImplementsRegister
=============================================================================

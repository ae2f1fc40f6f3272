----------------------------- MODULE GitHistory -----------------------------
(***************************************************************************)
(* hotspots --collect: what every commit did to every path is kept in a    *)
(* store inside the index; a collection moves the store from the commit it *)
(* was last collected at (the cursor) to HEAD by the difference of the two *)
(* histories, and replays the history of the affected paths only.          *)
(*                                                                         *)
(* A collector first reads the cursor, then plans from Git and the store   *)
(* outside of any transaction, then applies its plan in one immediate      *)
(* transaction.  Collectors take no lock against each other; a rebuild     *)
(* copies the history into the index that it stages and publishes it later.*)
(*                                                                         *)
(* Statistics of a path are the number of times each commit was counted    *)
(* for it; commits, churn, authors and dates are all derived from that.    *)
(* Content of a file is the commit that wrote it; it stands for the number *)
(* of lines.  Path ids never leave a transaction and are left out, commit  *)
(* ids do leave it and are kept.                                           *)
(***************************************************************************)
EXTENDS Integers, FiniteSets, FiniteSetsExt, Functions

CONSTANTS None,             \* no cursor, no base, no row, nothing staged
          Collectors,       \* processes that may run hotspots --collect
          Paths,            \* paths of the repository
          Instances,        \* the repositories to consider, with their bounds
          MaxCommitId,      \* bound on row ids of the store
          DeadCommitsLimit, \* more unreachable commits than this are pruned
          HeadMovesAnytime  \* bound: does HEAD also move during a collection?

Absent == 0  \* content of a path that is not in a tree

\* The tree of every commit of a repository: what the commit wrote, what it
\* left alone, and in a merge the newer side of every path.
TreeOf(r) ==
  LET t[c \in DOMAIN r.parents] ==
        [p \in Paths |->
           LET own == {ch \in r.changes[c] : ch.path = p}
           IN  IF \E ch \in own : ch.kind # "delete" THEN c
               ELSE IF own # {} \/ \E ch \in r.changes[c] : ch.from = p THEN Absent
               ELSE Max({Absent} \cup {t[q][p] : q \in r.parents[c]})]
  IN  t

\* Every commit that a commit reaches, itself included.
ReachOf(r) ==
  LET reach[c \in DOMAIN r.parents] == {c} \cup UNION {reach[q] : q \in r.parents[c]}
  IN  reach

WithTrees(r) ==
  LET commits == DOMAIN r.parents
  IN  [parents |-> r.parents, date |-> r.date, changes |-> r.changes,
       reach |-> [c \in commits |-> ReachOf(r)[c]],
       tree  |-> [c \in commits |-> TreeOf(r)[c]]]

Changes == [kind : {"write", "delete", "rename"}, path : Paths, from : Paths]

\* Finitely many commits, numbered so that parents are smaller; the number
\* also stands for the hash where hashes break ties.  What is deleted or
\* renamed was there, the target of a rename was not, and merges rename
\* nothing.
WellFormed(r) ==
  LET commits == DOMAIN r.parents
  IN  /\ IsFiniteSet(commits) /\ commits \subseteq Nat \ {Absent} /\ None \notin commits
      /\ DOMAIN r.date = commits /\ DOMAIN r.changes = commits
      /\ \A c \in commits :
           /\ r.parents[c] \subseteq commits /\ \A q \in r.parents[c] : q < c
           /\ r.date[c] \in Nat /\ r.changes[c] \subseteq Changes
           /\ \A ch, other \in r.changes[c] : ch.path = other.path => ch = other
           /\ \A ch \in r.changes[c] :
                LET Was(p) == \E q \in r.parents[c] : TreeOf(r)[q][p] # Absent
                IN  CASE ch.kind = "write"  -> ch.from = ch.path
                      [] ch.kind = "delete" -> ch.from = ch.path /\ Was(ch.path)
                      [] ch.kind = "rename" ->
                           Was(ch.from) /\ ~Was(ch.path) /\ Cardinality(r.parents[c]) = 1

ASSUME HistoryAssumption ==
  /\ IsFiniteSet(Paths)
  /\ \A i \in Instances :
       /\ WellFormed(i.graph)
       /\ i.collectors \subseteq Collectors /\ i.scopes \subseteq SUBSET Paths
       /\ i.rebuilds \in Nat /\ i.rescopes \in Nat
  /\ MaxCommitId \in Nat
  /\ DeadCommitsLimit \in Nat /\ HeadMovesAnytime \in BOOLEAN

VARIABLES
  repo,        \* the commit graph with what Git derives from it; never changes
  bounds,      \* which collectors there are, how the scope may change and how
               \* often that and a rebuild happen; never changes
  fullAt,      \* what a collection from scratch finds, for every scope and
               \* commit; never changes
  head,        \* the commit that is checked out
  scope,       \* the paths of the repository that the project contains
  db,          \* the collected history in the live index
  staged,      \* its copy in an index that is being rebuilt, or None
  pc, plan,    \* collectors: position, and what they have found out
  rebuilds, rescopes

rigid == <<repo, bounds, fullAt>>
vars == <<rigid, head, scope, db, staged, pc, plan, rebuilds, rescopes>>

(***************************************************************************)
(* The repository, as Git shows it.                                        *)
(***************************************************************************)
Commits == DOMAIN repo.parents
IsMerge(c) == Cardinality(repo.parents[c]) > 1

Reach == repo.reach
Tree  == repo.tree

\* git rev-list c --not excluded
RevList(c, excluded) == Reach[c] \ UNION {Reach[e] : e \in excluded}

\* What git log --numstat -- scope lists for a commit that is no merge.  A
\* rename into or out of the scope looks like a new or a deleted file.
NumstatIn(c, s) ==
  LET Seen(ch) ==
        IF ch.kind = "rename" /\ ch.path \in s /\ ch.from \in s
        THEN {ch}
        ELSE {[kind |-> "touch", path |-> p, from |-> p] :
                p \in s \cap (IF ch.kind = "rename" THEN {ch.path, ch.from} ELSE {ch.path})}
  IN  IF IsMerge(c) THEN {} ELSE UNION {Seen(ch) : ch \in repo.changes[c]}

\* git log leaves out merges, and with a pathspec what lies outside of it.
LoggedIn(commits, s) ==
  {c \in commits : ~IsMerge(c) /\ (s = Paths \/ NumstatIn(c, s) # {})}

Numstat(c) == NumstatIn(c, scope)
Logged(commits) == LoggedIn(commits, scope)

\* git diff-tree from..to -- scope
ChangedPaths(from, to) == {p \in scope : Tree[from][p] # Tree[to][p]}

(***************************************************************************)
(* Corrected commit dates: never before a parent's.  Parents outside of    *)
(* pending are asked for in known, which may not know them.                *)
(***************************************************************************)
OrderKeys(pending, known) ==
  LET key[c \in pending] ==
        Max({repo.date[c]} \cup
            {(IF p \in pending THEN key[p] ELSE known[p]) + 1 :
               p \in repo.parents[c] \cap (pending \cup DOMAIN known)})
  IN  key

(***************************************************************************)
(* Replaying history, oldest commit first.                                 *)
(***************************************************************************)
Blank == [c \in Commits |-> 0]

\* One commit on top of what was accumulated before it.  A rename hands the
\* history of the old path to the new one, which is renamed to only once in
\* a commit, and leaves the old path blank.
Replay(paths, c, changes) ==
  LET To(p)        == {ch \in changes : ch.kind = "rename" /\ ch.path = p}
      Inherited(p) == IF To(p) = {} THEN Blank ELSE paths[(CHOOSE ch \in To(p) : TRUE).from]
      Held(p)      == IF \E ch \in changes : ch.kind = "rename" /\ ch.from = p
                      THEN Blank ELSE paths[p]
  IN  [p \in Paths |->
         IF \E ch \in changes : ch.path = p
         THEN [d \in Commits |-> Held(p)[d] + Inherited(p)[d] + (IF d = c THEN 1 ELSE 0)]
         ELSE Held(p)]

FoldHistory(commits, key, changes) ==
  LET Before(c, d) == key[c] < key[d] \/ (key[c] = key[d] /\ c <= d)
      fold[S \in SUBSET commits] ==
        IF S = {} THEN [p \in Paths |-> Blank]
        ELSE LET last == CHOOSE c \in S : \A d \in S : Before(d, c)
             IN  Replay(fold[S \ {last}], last, changes[last])
  IN  fold[commits]

\* The paths of a fold that have a history.
Dirty(folded) == {p \in Paths : folded[p] # Blank}

\* Rows for the paths of a tree that have a history.
RowsOf(folded, tree) ==
  [p \in Paths |-> IF folded[p] # Blank /\ tree[p] # Absent
                   THEN [counts |-> folded[p], lines |-> tree[p]] ELSE None]

(***************************************************************************)
(* What a collection from scratch finds at commit c.                       *)
(***************************************************************************)
FullKeys(c) == OrderKeys(Reach[c], <<>>)

FullCollection(s, c) ==
  LET changes == [d \in Reach[c] |-> NumstatIn(d, s)]
      folded  == FoldHistory(Reach[c], FullKeys(c), changes)
  IN  [rows |-> RowsOf(folded, Tree[c]),
       commits |-> Cardinality(LoggedIn(Reach[c], s)),
       paths |-> Cardinality(Dirty(folded))]

(***************************************************************************)
(* The history in an index: the store, a function from row ids to commits, *)
(* and what is derived from it.                                            *)
(***************************************************************************)
NoHistory ==
  [store |-> <<>>, cursor |-> None, scope |-> None, commits |-> 0, paths |-> 0,
   rows |-> [p \in Paths |-> None]]

Stored(d) == {d.store[i].sha : i \in DOMAIN d.store}
IdOf(d, c) == CHOOSE i \in DOMAIN d.store : d.store[i].sha = c
IsLive(d, c) == c \in Stored(d) /\ d.store[IdOf(d, c)].live
KeysOf(d) == [c \in Stored(d) |-> d.store[IdOf(d, c)].key]

\* Live commits that changed the project.
CountLive(store) ==
  Cardinality({i \in DOMAIN store : store[i].live /\ store[i].authored})

\* Rows are numbered on from the largest id, in the order of git rev-list.
WithCommits(store, keys, read) ==
  LET top   == IF DOMAIN store = {} THEN 0 ELSE Max(DOMAIN store)
      new   == DOMAIN keys
      Id(c) == top + Cardinality({d \in new : d >= c})
      row   == [i \in {Id(c) : c \in new} |-> CHOOSE c \in new : Id(c) = i]
  IN  [i \in DOMAIN store \cup DOMAIN row |->
         IF i \in DOMAIN store THEN store[i]
         ELSE [sha |-> row[i], key |-> keys[row[i]], live |-> TRUE,
               authored |-> row[i] \in read,
               changes |-> IF row[i] \in read THEN Numstat(row[i]) ELSE {}]]

\* An UPDATE of a row that is gone does nothing.
Marked(store, ids, live) ==
  [i \in DOMAIN store |-> IF i \in ids THEN [store[i] EXCEPT !.live = live] ELSE store[i]]

\* Slip: renames are not followed.
OnlySeeds(seeds, store) == seeds

\* seeds and every path that a live commit's renames connect to them
RenameClosure(seeds, store) ==
  LET links == UNION {{{ch.path, ch.from} : ch \in {x \in store[i].changes : x.kind = "rename"}} :
                        i \in {j \in DOMAIN store : store[j].live}}
      grow[n \in 0..Cardinality(Paths)] ==
        IF n = 0 THEN seeds
        ELSE grow[n-1] \cup UNION {l \in links : l \cap grow[n-1] # {}}
  IN  grow[Cardinality(Paths)]

\* Replays the changes of some rows to some paths.
FoldRows(store, ids, paths) ==
  LET commits == {store[i].sha : i \in ids}
      row     == [c \in commits |-> store[CHOOSE i \in ids : store[i].sha = c]]
      changes == [c \in commits |-> {ch \in row[c].changes : ch.path \in paths}]
  IN  FoldHistory(commits, [c \in commits |-> row[c].key], changes)

LiveIds(store) == {i \in DOMAIN store : store[i].live}

TouchedBy(store, ids) ==
  UNION {UNION {{ch.path, ch.from} : ch \in store[i].changes} : i \in ids \cap DOMAIN store}

(***************************************************************************)
(* Collecting.                                                             *)
(***************************************************************************)
NoPlan == [head |-> None, base |-> None, full |-> FALSE, reset |-> "none", keys |-> <<>>, read |-> {}, restored |-> {}, dropped |-> {}, moved |-> {}]

Init ==
  /\ \E i \in Instances :
       /\ repo = WithTrees(i.graph)
       /\ bounds = [collectors |-> i.collectors, scopes |-> i.scopes,
                    rebuilds |-> i.rebuilds, rescopes |-> i.rescopes]
  /\ fullAt = [s \in bounds.scopes |-> [c \in Commits |-> FullCollection(s, c)]]
  /\ head \in Commits /\ scope \in bounds.scopes
  /\ db = NoHistory /\ staged = None
  /\ pc = [k \in Collectors |-> "idle"] /\ plan = [k \in Collectors |-> NoPlan]
  /\ rebuilds = 0 /\ rescopes = 0

Idle == \A k \in Collectors : pc[k] = "idle"

\* The base of an incremental collection, unless everything is read anew:
\* because the user asks for it, or because the stored history is that of
\* another scope.
Resolve(k, full) ==
  /\ pc[k] = "idle"
  /\ LET base == IF full \/ db.scope # scope THEN None ELSE db.cursor
     IN  plan' = [plan EXCEPT ![k] =
           [NoPlan EXCEPT !.head = head, !.base = base,
              !.reset = IF ~full /\ db.cursor # None /\ base = None THEN "scope" ELSE "none"]]
  /\ pc' = [pc EXCEPT ![k] = "resolved"]
  /\ UNCHANGED <<rigid, head, scope, db, staged, rebuilds, rescopes>>

Planned(k, p) ==
  /\ plan' = [plan EXCEPT ![k] = p]
  /\ pc' = [pc EXCEPT ![k] = "planned"]
  /\ UNCHANGED <<rigid, head, scope, db, staged, rebuilds, rescopes>>

Arrived(p)  == RevList(p.head, {p.base})
Departed(p) == RevList(p.base, {p.head})
MergesMoved(p) == \E c \in Arrived(p) \cup Departed(p) : IsMerge(c)

\* Commits that have not been stored, and the stored commits and the base
\* that bound the part of the log that has not been read.
Unread(p) == Arrived(p) \ Stored(db)
Boundary(p) == {p.base} \cup ((UNION {repo.parents[c] : c \in Unread(p)}) \cap Stored(db))

UnreadLog(p) ==
  IF \E c \in Unread(p) : ~IsMerge(c) THEN Logged(RevList(p.head, Boundary(p))) ELSE {}

StoreMatches(p) ==
  /\ \A c \in Departed(p) : IsLive(db, c)
  /\ \A c \in Arrived(p) : ~IsLive(db, c)
  /\ UNION {repo.parents[c] : c \in Unread(p)} \subseteq Unread(p) \cup Stored(db)
  /\ UnreadLog(p) \subseteq Unread(p)

PlanSync(k) ==
  /\ pc[k] = "resolved" /\ plan[k].base # None
  /\ StoreMatches(plan[k])
  /\ LET p == plan[k]
     IN  Planned(k, [p EXCEPT
           !.keys = OrderKeys(Unread(p), KeysOf(db)), !.read = UnreadLog(p),
           !.restored = {IdOf(db, c) : c \in Arrived(p) \ Unread(p)},
           !.dropped = {IdOf(db, c) : c \in Departed(p)},
           !.moved = IF MergesMoved(p) THEN ChangedPaths(p.base, p.head) ELSE {}])

\* Everything is read from scratch if there is no base, if Git no longer has
\* the base, if a list of moved paths is too long or if the store does not
\* match the repository.
PlanFull(k) ==
  /\ pc[k] = "resolved"
  /\ LET p == plan[k]
     IN  \E reset \in {"none", "scope", "gone", "overflow", "mismatch"} :
           /\ CASE reset \in {"none", "scope"} -> p.base = None /\ p.reset = reset
                [] reset = "gone"     -> p.base # None /\ p.base \notin Reach[p.head]
                [] reset = "overflow" -> p.base # None /\ MergesMoved(p)
                [] reset = "mismatch" -> p.base # None /\ ~StoreMatches(p)
           /\ Planned(k, [p EXCEPT
                !.full = TRUE, !.reset = reset,
                !.keys = OrderKeys(Reach[p.head], <<>>), !.read = Logged(Reach[p.head])])

(***************************************************************************)
(* Applying a plan, in one transaction.                                    *)
(***************************************************************************)
\* All or nothing, so that stored commits stay closed under "parent of".
Prune(store) ==
  IF Cardinality(DOMAIN store \ LiveIds(store)) > DeadCommitsLimit
  THEN Restrict(store, LiveIds(store)) ELSE store

\* Slip: a collection from scratch counts on from what was there before.
PathsAlwaysAdded(d, p, gained, lost) == Max({0, d.paths + gained - lost})

PathsInHistory(d, p, gained, lost) ==
  IF p.full THEN gained ELSE Max({0, d.paths + gained - lost})

\* What a plan makes of a history; the derived tables follow the store.
Applied(d, p) ==
  LET old      == IF p.full THEN <<>> ELSE d.store
      added    == WithCommits(old, p.keys, p.read)
      store    == Marked(Marked(added, p.restored, TRUE), p.dropped, FALSE)
      arrived  == (DOMAIN added \ DOMAIN old) \cup p.restored
      touched  == TouchedBy(store, arrived \cup p.dropped) \cup p.moved
      closure  == IF p.full THEN Paths ELSE RenameClosure(touched, store)
      before   == (LiveIds(store) \ arrived) \cup (p.dropped \cap DOMAIN store)
      after    == FoldRows(store, LiveIds(store), closure)
      gained   == Cardinality(Dirty(after))
      lost     == Cardinality(Dirty(FoldRows(store, before, closure)))
      rows     == RowsOf(after, Tree[head])
  IN  [store   |-> Prune(store), cursor |-> p.head, scope |-> scope,
       commits |-> CountLive(store),
       paths   |-> PathsInHistory(d, p, gained, lost),
       rows    |-> [q \in Paths |-> IF q \in closure THEN rows[q] ELSE d.rows[q]]]

Done(k) ==
  /\ pc' = [pc EXCEPT ![k] = "idle"] /\ plan' = [plan EXCEPT ![k] = NoPlan]
  /\ UNCHANGED <<rigid, head, scope, staged, rebuilds, rescopes>>

\* Another collection has moved the cursor, or has stored the same commits.
Outdated(p) ==
  /\ ~p.full
  /\ db.cursor # p.base \/ DOMAIN p.keys \cap Stored(db) # {}

Apply(k) ==
  /\ pc[k] = "planned" /\ ~Outdated(plan[k])
  /\ LET new == Applied(db, plan[k])
     IN  DOMAIN new.store \subseteq 1..MaxCommitId /\ db' = new
  /\ Done(k)

\* A collection that bails out, runs out of time or is killed.
GiveUp(k) ==
  /\ pc[k] # "idle"
  /\ UNCHANGED db
  /\ Done(k)

(***************************************************************************)
(* Around it: HEAD moves, the scope changes, the index is rebuilt.         *)
(***************************************************************************)
Checkout(c) ==
  /\ c # head /\ (HeadMovesAnytime \/ Idle)
  /\ head' = c
  /\ UNCHANGED <<rigid, scope, db, staged, pc, plan, rebuilds, rescopes>>

Rescope(s) ==
  /\ s # scope /\ Idle /\ rescopes < bounds.rescopes
  /\ scope' = s /\ rescopes' = rescopes + 1
  /\ UNCHANGED <<rigid, head, db, staged, pc, plan, rebuilds>>

\* The stored history is left behind if it was collected for another scope
\* or disagrees with its own count of commits.
CarryHistory(d) ==
  /\ d.cursor # None /\ d.scope = scope
  /\ d.commits = CountLive(d.store)

StageRebuild ==
  /\ staged = None /\ rebuilds < bounds.rebuilds
  /\ staged' = IF CarryHistory(db) THEN db ELSE NoHistory
  /\ rebuilds' = rebuilds + 1
  /\ UNCHANGED <<rigid, head, scope, db, pc, plan, rescopes>>

\* A collector has the index open, so nothing is published meanwhile.
PublishRebuild ==
  /\ staged # None /\ Idle
  /\ db' = staged /\ staged' = None
  /\ UNCHANGED <<rigid, head, scope, pc, plan, rebuilds, rescopes>>

Next ==
  \/ \E k \in bounds.collectors :
       \/ \E full \in BOOLEAN : Resolve(k, full)
       \/ PlanSync(k) \/ PlanFull(k) \/ Apply(k) \/ GiveUp(k)
  \/ \E c \in Commits : Checkout(c)
  \/ \E s \in bounds.scopes : Rescope(s)
  \/ StageRebuild \/ PublishRebuild

Spec == Init /\ [][Next]_vars

(***************************************************************************)
(* Properties.                                                             *)
(***************************************************************************)
Histories == {d \in {db, staged} \ {None} : d.cursor # None /\ d.scope = scope}

HistoryOK(d) ==
  /\ DOMAIN d.store \subseteq 1..MaxCommitId
  /\ \A i \in DOMAIN d.store :
       /\ d.store[i].sha \in Commits /\ d.store[i].key \in Nat
       /\ d.store[i].live \in BOOLEAN /\ d.store[i].authored \in BOOLEAN
       /\ \A ch \in d.store[i].changes : {ch.path, ch.from} \subseteq Paths
  /\ d.cursor \in Commits \cup {None} /\ d.scope \in bounds.scopes \cup {None}
  /\ d.commits \in Nat /\ d.paths \in 0..Cardinality(Paths)
  /\ \A p \in Paths : d.rows[p] # None =>
       d.rows[p].counts \in [Commits -> Nat] /\ d.rows[p].lines \in Commits

TypeOK ==
  /\ head \in Commits /\ scope \in bounds.scopes
  /\ HistoryOK(db) /\ (staged # None => HistoryOK(staged))
  /\ pc \in [Collectors -> {"idle", "resolved", "planned"}]
  /\ \A k \in Collectors :
       /\ plan[k].head \in Commits \cup {None} /\ plan[k].base \in Commits \cup {None}
       /\ plan[k].read \subseteq DOMAIN plan[k].keys /\ DOMAIN plan[k].keys \subseteq Commits
       /\ plan[k].restored \cup plan[k].dropped \subseteq 1..MaxCommitId
  /\ rebuilds \in 0..bounds.rebuilds /\ rescopes \in 0..bounds.rescopes

\* "The result is the same as a full collection at HEAD, row for row": the
\* rows, the number of commits and the number of paths with history.
SameAsFullCollection ==
  \A d \in Histories :
    [rows |-> d.rows, commits |-> d.commits, paths |-> d.paths] = fullAt[scope][d.cursor]

=============================================================================

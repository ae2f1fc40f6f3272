------------------------- MODULE IncrementalUpdate -------------------------
(***************************************************************************)
(* The incremental update of an index: walk the project, compare what is   *)
(* there with the rows, drop the rows of files that are gone, parse what   *)
(* changed, and re-derive the module graph if a build file changed.  It    *)
(* runs in several transactions while files are being edited, and may be   *)
(* killed between any two of them.  The symbol graph is built at any time, *)
(* without a lock, from the rows and from the sources themselves, of which *)
(* it reads the imports, and says later whether it still matches the rows. *)
(*                                                                         *)
(* Each edit of a file makes a version, and versions stand for what stat   *)
(* shows: an edit that leaves size and mtime (in seconds) as they were is  *)
(* not noticed by the program and left out here.  The build files are one  *)
(* file.  The filter for minified files is on, as it is by default.        *)
(*                                                                         *)
(* An operator introduced as a slip is no part of the model: it is a       *)
(* mistake that the operator below it could contain and that some property *)
(* excludes.                                                               *)
(***************************************************************************)
EXTENDS Integers, FiniteSets

CONSTANTS Sources,     \* source files
          Absent,      \* no row, no graph, no fingerprint
          Indexes,     \* the indexes to start with, and the bounds on what
                       \* happens to each
          MaxEdits     \* bound on edits

ASSUME UpdateAssumption ==
  IsFiniteSet(Sources) /\ MaxEdits \in Nat

\* "unreadable" is a file that cannot be opened or parsed.
Kinds == {"plain", "minified", "unreadable", "gone"}
Versions == 1..MaxEdits + 1
NoStat == 0      \* (0, 0), for a file that stat does not find
Older  == 0      \* build files before the first version, or none at all

\* What is stored of a file: the stat it had and the version that was read.
Rows == [stat : Versions, content : Versions, minified : BOOLEAN]
ASSUME AbsentAssumption == Absent \notin Rows /\ Absent \notin Nat

\* What can be on record of the module graph when it all begins.
LeftModules == [fingerprint : {Absent, Older, 1}, list : {Older, 1},
                deps : {Older, 1}, closure : {Older, 1}]
\* An index: the files it was made of, whether the filter was on, and how many
\* updates of it are killed or fail and how often its symbol graph is built.
ASSUME IndexesAssumption ==
  Indexes \subseteq [kind : [Sources -> Kinds \ {"unreadable"}], filtered : BOOLEAN,
                    modules : LeftModules, crashes : Nat, graphs : Nat]

VARIABLES
  disk, build,     \* each source's version and kind; the build files' version
  rows, dirty, generation, filtered,
                   \* index: rows; the marker of an update that may be half
                   \* applied; a count of the writes to the rows; whether no
                   \* minified file is left
  modules,         \* index: the stat of the build files on record, and the
                   \* version of them that each part of the graph comes from
  derived,         \* history: whether the graph was derived when that stat
                   \* was recorded, and from the same build files
  graph,           \* index: the stored symbol graph
  run,             \* the running update
  builder,         \* the process that builds the symbol graph
  untouched, covered,
                   \* history: files not touched since the running update
                   \* began, since the last one that returned began
  owed, writes,    \* history: files with a planned change that is not stored,
                   \* how often rows were written
  edits, crashes, graphs
                   \* how many edits there were, how many crashes and builds
                   \* of the graph there may still be

files   == <<disk, build, edits>>
tables  == <<rows, generation, writes>>
markers == <<dirty, filtered>>
touched == <<untouched, covered>>
budgets == <<crashes, graphs>>
derivation == <<modules, derived>>
vars == <<files, tables, markers, derivation, graph, run, builder, touched, owed,
          budgets>>

PCs == {"idle", "list", "stat", "decide", "delete", "parse",
        "complete", "record", "fingerprint", "assume", "modules", "deps", "closure",
        "store", "return"}

\* What became of a file that is to be parsed.
Queued == [state |-> "queued"]
Unparsed == [state |-> "failed"]
Opened(stat) == [state |-> "opened", stat |-> stat]
Parsed(row) == [state |-> "parsed", row |-> row]

\* An update: the files left in this phase, their stat, those that stay,
\* those to parse, what became of them, and the stat of the build files.
NoRun == [pc |-> "idle", todo |-> {}, seen |-> [f \in Sources |-> NoStat],
          keep |-> {}, plan |-> {}, parsed |-> [f \in Sources |-> Queued],
          build |-> NoStat]

NotBuilding == [pc |-> "idle", generation |-> 0, files |-> 0, todo |-> {},
                imports |-> [f \in Sources |-> NoStat], symbols |-> 0, refs |-> 0]

\* The graph is all from the build files whose stat is on record.
IsDerived(m) == {m.list, m.deps, m.closure} = {m.fingerprint}

\* An index as a rebuild of the files leaves it; one that an older version made
\* may hold minified files.  Of the module graph a rebuild may have derived
\* all, some or nothing: a full one takes the fingerprint after it has read the
\* modules, one of the modules leaves the closure as it was, and one of the
\* files of a new index records no fingerprint, like an older version.
Init ==
  /\ \E index \in Indexes :
       /\ filtered = index.filtered
       /\ disk = [f \in Sources |-> [version |-> 1, kind |-> index.kind[f]]]
       /\ rows = [f \in Sources |->
            IF index.kind[f] = "plain" \/ (index.kind[f] = "minified" /\ ~index.filtered)
            THEN [stat |-> 1, content |-> 1, minified |-> index.kind[f] = "minified"]
            ELSE Absent]
       /\ modules = index.modules
       /\ crashes = index.crashes /\ graphs = index.graphs
  /\ derived = IsDerived(modules)
  /\ build = 1 /\ dirty = FALSE
  /\ generation = 1 /\ writes = 1
  /\ graph = Absent /\ run = NoRun /\ builder = NotBuilding
  /\ untouched = {} /\ covered = {} /\ owed = {}
  /\ edits = 0

(***************************************************************************)
(* The environment.                                                        *)
(***************************************************************************)
Edit(f) ==
  /\ edits < MaxEdits /\ edits' = edits + 1
  /\ \E kind \in Kinds :
       /\ {kind, disk[f].kind} # {"gone"}
       /\ disk' = [disk EXCEPT ![f] = [version |-> @.version + 1, kind |-> kind]]
  /\ untouched' = untouched \ {f} /\ covered' = covered \ {f}
  /\ UNCHANGED <<build, tables, markers, derivation, graph, run, builder, owed, budgets>>

EditBuild ==
  /\ edits < MaxEdits /\ edits' = edits + 1
  /\ build' = build + 1
  /\ UNCHANGED <<disk, tables, markers, derivation, graph, run, builder, touched, owed,
                 budgets>>

(***************************************************************************)
(* The update.  It holds the mutation lock, so that there is one at a time.*)
(***************************************************************************)
\* The running update passes from one position to another and changes some
\* of what it remembers.
Move(from, to) == run.pc = from /\ run' = [run EXCEPT !.pc = to]

\* A command, the worker of a background update, or the watcher.  All of them
\* try the mutation lock once: an event that the watcher gets while somebody
\* else holds the lock starts nothing and is forgotten.
StartUpdate ==
  /\ Move("idle", "list")
  /\ untouched' = Sources
  /\ UNCHANGED <<files, tables, markers, derivation, graph, builder, covered, owed, budgets>>

\* Nothing but what the update remembers changes.
Looks == UNCHANGED <<files, tables, markers, derivation, graph, builder, touched, owed,
                     budgets>>

ListFiles ==
  /\ run.pc = "list"
  /\ LET listed == {f \in Sources : disk[f].kind # "gone"}
     IN  run' = [run EXCEPT !.pc = "stat", !.todo = listed, !.keep = listed]
  /\ Looks

StatOf(f) == IF disk[f].kind = "gone" THEN NoStat ELSE disk[f].version

Stat(f) ==
  /\ run.pc = "stat" /\ f \in run.todo
  /\ run' = [run EXCEPT !.todo = @ \ {f}, !.seen[f] = StatOf(f)]
  /\ Looks

AllStatted ==
  /\ run.pc = "stat" /\ run.todo = {}
  /\ run' = [run EXCEPT !.pc = "decide", !.todo = run.keep]
  /\ Looks

\* Slip: what turns out to be minified is left out, and its row stays.
DecideKeepsRow(f) ==
  LET changed == rows[f] = Absent \/ rows[f].stat # run.seen[f]
      skipped == (changed \/ ~filtered) /\ disk[f].kind = "minified"
  IN  /\ run.pc = "decide" /\ f \in run.todo
      /\ run' = [run EXCEPT !.todo = @ \ {f}, !.seen[f] = NoStat,
                            !.plan = IF changed /\ ~skipped THEN @ \cup {f} ELSE @]
      /\ Looks

\* A file is parsed if its stat is not that of its row.  What turns out to be
\* minified is not kept, and its row is dropped like that of a deleted file;
\* unchanged files are only looked at as long as that was never done.
Decide(f) ==
  LET changed == rows[f] = Absent \/ rows[f].stat # run.seen[f]
      skipped == (changed \/ ~filtered) /\ disk[f].kind = "minified"
  IN  /\ run.pc = "decide" /\ f \in run.todo
      /\ run' = [run EXCEPT !.todo = @ \ {f}, !.seen[f] = NoStat,
                            !.keep = IF skipped THEN @ \ {f} ELSE @,
                            !.plan = IF changed /\ ~skipped THEN @ \cup {f} ELSE @]
      /\ Looks

Dropped == {f \in Sources \ run.keep : rows[f] # Absent}

Mark ==
  /\ run.todo = {} /\ Move("decide", "delete")
  /\ dirty' = (dirty \/ run.plan \cup Dropped # {})
  /\ owed' = run.plan \cup Dropped
  /\ UNCHANGED <<files, tables, filtered, derivation, graph, builder, touched, budgets>>

WriteRows(new, counted) ==
  /\ rows' = new
  /\ writes' = IF new # rows THEN writes + 1 ELSE writes
  /\ generation' = IF counted THEN generation + 1 ELSE generation

\* Slip: the rows go and the generation stays.
DeleteUncounted ==
  /\ run.pc = "delete"
  /\ run' = [run EXCEPT !.pc = "parse", !.keep = {}, !.todo = run.plan]
  /\ WriteRows([f \in Sources |-> IF f \in Dropped THEN Absent ELSE rows[f]], FALSE)
  /\ owed' = owed \ Dropped
  /\ UNCHANGED <<files, markers, derivation, graph, builder, touched, budgets>>

Delete ==
  /\ run.pc = "delete"
  /\ run' = [run EXCEPT !.pc = "parse", !.keep = {}, !.todo = run.plan]
  /\ WriteRows([f \in Sources |-> IF f \in Dropped THEN Absent ELSE rows[f]],
               Dropped # {})
  /\ owed' = owed \ Dropped
  /\ UNCHANGED <<files, markers, derivation, graph, builder, touched, budgets>>

\* Slip: a file that stat does not find is read all the same.
ParseStatAlways(f) ==
  /\ run.pc = "parse" /\ f \in run.todo /\ run.parsed[f] = Queued
  /\ run' = [run EXCEPT !.parsed[f] = Opened(StatOf(f))]
  /\ Looks

\* parse_file_keyed: stat first, then read.  That stat goes into the row.
ParseStat(f) ==
  /\ run.pc = "parse" /\ f \in run.todo /\ run.parsed[f] = Queued
  /\ run' = IF disk[f].kind = "gone"
            THEN [run EXCEPT !.todo = @ \ {f}, !.parsed[f] = Unparsed]
            ELSE [run EXCEPT !.parsed[f] = Opened(disk[f].version)]
  /\ Looks

Reading(f) == run.pc = "parse" /\ f \in run.todo /\ run.parsed[f].state = "opened"

\* Slip: the file is read first, and its row gets the stat it has later.
ReadThenStat(f) ==
  /\ Reading(f)
  /\ run' = [run EXCEPT !.todo = @ \ {f}, !.parsed[f] =
               IF disk[f].kind # "plain" THEN Unparsed
               ELSE Parsed([stat |-> disk[f].version, content |-> @.stat,
                            minified |-> FALSE])]
  /\ Looks

\* Slip: whatever can be read is stored.
ReadAnything(f) ==
  /\ Reading(f)
  /\ run' = [run EXCEPT !.todo = @ \ {f}, !.parsed[f] =
               IF disk[f].kind \in {"gone", "unreadable"} THEN Unparsed
               ELSE Parsed([stat |-> @.stat, content |-> disk[f].version,
                            minified |-> disk[f].kind = "minified"])]
  /\ Looks

ParseRead(f) ==
  /\ Reading(f)
  /\ run' = [run EXCEPT !.todo = @ \ {f}, !.parsed[f] =
               IF disk[f].kind # "plain" THEN Unparsed
               ELSE Parsed([stat |-> @.stat, content |-> disk[f].version,
                            minified |-> FALSE])]
  /\ Looks

Written == {f \in run.plan : run.parsed[f] # Unparsed}

\* One transaction; with nothing to write it does not count as a write.
Write ==
  /\ run.todo = {} /\ Move("parse", "complete")
  /\ WriteRows([f \in Sources |-> IF f \in Written THEN run.parsed[f].row ELSE rows[f]],
               Written # {})
  /\ owed' = owed \ Written
  /\ UNCHANGED <<files, markers, derivation, graph, builder, touched, budgets>>

\* Slip: completed whatever became of the files.
CompleteAnyway ==
  /\ Move("complete", "record")
  /\ dirty' = FALSE
  /\ UNCHANGED <<files, tables, filtered, derivation, graph, builder, touched, owed, budgets>>

\* Slip: only an update that had something to do completes.
CompleteOwnPlan ==
  /\ Move("complete", "record")
  /\ dirty' = (dirty /\ (run.plan = {} \/ Written # run.plan))
  /\ UNCHANGED <<files, tables, filtered, derivation, graph, builder, touched, owed, budgets>>

\* Also an update that finds nothing to do after one that was killed.
Complete ==
  /\ Move("complete", "record")
  /\ dirty' = (dirty /\ Written # run.plan)
  /\ UNCHANGED <<files, tables, filtered, derivation, graph, builder, touched, owed, budgets>>

RecordFilter ==
  /\ run.pc = "record"
  /\ run' = [NoRun EXCEPT !.pc = "fingerprint"]
  /\ filtered' = TRUE
  /\ UNCHANGED <<files, tables, dirty, derivation, graph, builder, touched, owed, budgets>>

CompareFingerprint ==
  /\ run.pc = "fingerprint"
  /\ run' = [run EXCEPT !.build = build,
               !.pc = CASE modules.fingerprint = Absent -> "assume"
                        [] modules.fingerprint = build -> "return"
                        [] modules.fingerprint \notin {build, Absent} -> "modules"]
  /\ Looks

Derive(from, to, new, isDerived) ==
  /\ Move(from, to)
  /\ modules' = new /\ derived' = isDerived
  /\ UNCHANGED <<files, tables, markers, graph, builder, touched, owed, budgets>>

\* An index without a fingerprint gets one, and its module graph is taken to
\* have just been derived.
AssumeDerived ==
  Derive("assume", "return", [modules EXCEPT !.fingerprint = run.build], FALSE)

\* refresh_module_graph: three transactions, of which two read build files.
SyncModules ==
  Derive("modules", "deps", [modules EXCEPT !.list = build], derived)
IndexDependencies ==
  Derive("deps", "closure", [modules EXCEPT !.deps = build], derived)
BuildTransitive ==
  Derive("closure", "store", [modules EXCEPT !.closure = modules.deps], derived)

\* Slip: the fingerprint is taken again when the graph has been derived.
StoreFingerprintNow ==
  Derive("store", "return", [modules EXCEPT !.fingerprint = build], TRUE)

StoreFingerprint ==
  Derive("store", "return", [modules EXCEPT !.fingerprint = run.build], TRUE)

Return ==
  /\ run.pc = "return" /\ run' = NoRun
  /\ covered' = untouched /\ untouched' = {}
  /\ UNCHANGED <<files, tables, markers, derivation, graph, builder, owed, budgets>>

\* Killed, or stopped by an error of the database.
Crash ==
  /\ run.pc # "idle" /\ run' = NoRun
  /\ crashes > 0 /\ crashes' = crashes - 1
  /\ untouched' = {}
  /\ UNCHANGED <<files, tables, markers, derivation, graph, builder, covered, owed, graphs>>

(***************************************************************************)
(* Building the symbol graph: the rows are read in several statements, each*)
(* of which sees the index as it is at that moment, and between them the   *)
(* imports from the sources as they are on disk.  All sources are taken to *)
(* be in a language whose imports are read; a version stands for what they *)
(* are, which is nothing if it cannot be read.                             *)
(***************************************************************************)
BuilderMoves(from, new) ==
  /\ builder.pc = from /\ builder' = new
  /\ UNCHANGED <<files, tables, markers, derivation, run, touched, owed, crashes>>

ReadGeneration ==
  /\ BuilderMoves("idle", [builder EXCEPT !.pc = "files", !.generation = generation])
  /\ graphs > 0 /\ graphs' = graphs - 1
  /\ UNCHANGED graph

ReadFiles ==
  /\ BuilderMoves("files", [builder EXCEPT !.pc = "sources", !.files = writes,
                            !.todo = {f \in Sources : rows[f] # Absent}])
  /\ UNCHANGED <<graph, graphs>>

ReadSource(f) ==
  /\ f \in builder.todo
  /\ BuilderMoves("sources", [builder EXCEPT !.todo = @ \ {f}, !.imports[f] = disk[f].version])
  /\ UNCHANGED <<graph, graphs>>

ReadSymbols ==
  /\ builder.todo = {}
  /\ BuilderMoves("sources", [builder EXCEPT !.pc = "refs", !.symbols = writes])
  /\ UNCHANGED <<graph, graphs>>

ReadRefs ==
  /\ BuilderMoves("refs", [builder EXCEPT !.pc = "store", !.refs = writes])
  /\ UNCHANGED <<graph, graphs>>

StoreGraph ==
  /\ BuilderMoves("store", NotBuilding)
  /\ graph' = [generation |-> builder.generation, files |-> builder.files,
               imports |-> builder.imports, symbols |-> builder.symbols,
               refs |-> builder.refs]
  /\ UNCHANGED graphs

\* symbol_graph_state: what a query makes of the stored graph.
GraphIsFresh == graph # Absent /\ ~dirty /\ graph.generation = generation

UpdateStep ==
  \/ ListFiles \/ AllStatted \/ Mark \/ Delete
  \/ Write \/ Complete \/ RecordFilter \/ AssumeDerived \/ CompareFingerprint \/ SyncModules
  \/ IndexDependencies \/ BuildTransitive \/ StoreFingerprint \/ Return
  \/ \E f \in Sources : Stat(f) \/ Decide(f) \/ ParseStat(f) \/ ParseRead(f)

GraphStep ==
  \/ ReadGeneration \/ ReadFiles \/ ReadSymbols \/ ReadRefs \/ StoreGraph
  \/ \E f \in Sources : ReadSource(f)

Next ==
  \/ \E f \in Sources : Edit(f)
  \/ EditBuild
  \/ StartUpdate \/ UpdateStep \/ Crash
  \/ GraphStep

\* A running update goes on, and sooner or later somebody runs another one.
Fairness == WF_vars(UpdateStep) /\ WF_vars(StartUpdate)

Spec == Init /\ [][Next]_vars /\ Fairness

(***************************************************************************)
(* Properties.                                                             *)
(***************************************************************************)
\* Types; and what an update remembers of a phase ends with the phase.
TypeOK ==
  /\ disk \in [Sources -> [version : Versions, kind : Kinds]] /\ build \in Versions
  /\ rows \in [Sources -> Rows \cup {Absent}]
  /\ dirty \in BOOLEAN /\ filtered \in BOOLEAN
  /\ generation \in Nat /\ writes \in Nat
  /\ modules.fingerprint \in Versions \cup {Older, Absent} /\ derived \in BOOLEAN
  /\ {modules.list, modules.deps, modules.closure} \subseteq Versions \cup {Older}
  /\ run.pc \in PCs /\ run.build \in Versions \cup {NoStat}
  /\ run.todo \cup run.keep \cup run.plan \subseteq Sources
  /\ run.seen \in [Sources -> Versions \cup {NoStat}]
  /\ \A f \in Sources :
       run.parsed[f].state = "parsed" => run.parsed[f].row \in Rows
  /\ \A f \in Sources \ run.plan : run.parsed[f] = Queued
  /\ untouched \subseteq Sources /\ covered \subseteq Sources /\ owed \subseteq Sources
  /\ edits \in 0..MaxEdits /\ crashes \in Nat /\ graphs \in Nat

\* Whatever is outdated can be told by looking, so that an edit that no update
\* has seen, or whose event the watcher lost, is found by the next one: a row
\* that has the stat of its file has its content, and text search skips files
\* on the same grounds; and the filter counts as done only if every minified
\* file that is still in the index would be looked at anyway.
OutdatedIsNoticed ==
  /\ \A f \in Sources :
       rows[f] # Absent /\ rows[f].stat = disk[f].version =>
         rows[f].content = disk[f].version
  /\ filtered => \A f \in Sources :
       rows[f] # Absent /\ rows[f].minified => rows[f].stat # StatOf(f)

Exact(f) ==
  CASE disk[f].kind = "plain" -> rows[f] # Absent /\ rows[f].content = disk[f].version
    [] disk[f].kind \in {"gone", "minified"} -> rows[f] = Absent
    [] disk[f].kind = "unreadable" -> TRUE

\* A file that was not touched since an update began that has returned is in
\* the index as it is on disk, whatever happened to other files and however
\* many updates were killed.  This is what the update coordinator takes a
\* scan that succeeded for.
ReturnedMeansIndexed == \A f \in covered : Exact(f)

\* A change that an update had planned and not stored is never forgotten: the
\* marker is there until it is stored or no longer needed.
HalfAppliedIsDirty == owed # {} => dirty

\* If the graph was derived when the fingerprint on record was, by an update
\* or by a rebuild that no edit disturbed, and the build files still have it,
\* then the whole module graph is theirs.  Without the first condition this is
\* false: the first fingerprint of an index says nothing about its graph, and
\* hides that it is outdated until a build file changes.
FingerprintMeansDerived ==
  derived /\ modules.fingerprint = build =>
    {modules.list, modules.deps, modules.closure} = {build}

\* A symbol graph that passes for fresh was built from the rows that are in
\* the index now, all of them, and none of them is half of an update; and what
\* it read from a source itself is what the row was made of, unless the source
\* has been edited since, which the next update notices.
FreshGraphIsExact ==
  GraphIsFresh =>
    /\ {graph.files, graph.symbols, graph.refs} = {writes} /\ owed = {}
    /\ \A f \in Sources : rows[f] # Absent /\ rows[f].content = disk[f].version =>
         graph.imports[f] = rows[f].content

\* When edits and crashes stop, the index comes to agree with the files, and
\* the marker stays only for files that cannot be read; the module graph does
\* if it was derived when its fingerprint was last recorded.
Settled ==
  /\ \A f \in Sources : Exact(f)
  /\ modules.fingerprint = build /\ (derived => IsDerived(modules))
  /\ dirty <=> \E f \in Sources : disk[f].kind = "unreadable"
EventuallySettles == <>[]Settled
=============================================================================

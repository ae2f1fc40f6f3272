----------------------- MODULE IncrementalUpdateProofs -----------------------
(***************************************************************************)
(* Proofs about IncrementalUpdate, for any sources and any number of edits,*)
(* killed updates and builds of the symbol graph.                          *)
(***************************************************************************)
EXTENDS IncrementalUpdate, TLAPS

(***************************************************************************)
(* The inductive invariant.                                                *)
(***************************************************************************)
\* What an update remembers of a file that is to be parsed.
Attempts == {Queued, Unparsed} \cup {Opened(stat) : stat \in Versions}
                               \cup {Parsed(row) : row \in Rows}

Runs == [pc : PCs, todo : SUBSET Sources, seen : [Sources -> Versions \cup {NoStat}],
         keep : SUBSET Sources, plan : SUBSET Sources,
         parsed : [Sources -> Attempts], build : Versions \cup {NoStat}]

Imports == [Sources -> Versions \cup {NoStat}]

Builders == [pc : {"idle", "files", "sources", "refs", "store"}, generation : Nat,
             files : Nat, todo : SUBSET Sources, imports : Imports,
             symbols : Nat, refs : Nat]

Graphs == [generation : Nat, files : Nat, imports : Imports, symbols : Nat, refs : Nat]

Derivations == [fingerprint : Versions \cup {Older, Absent}, list : Versions \cup {Older},
                deps : Versions \cup {Older}, closure : Versions \cup {Older}]

\* What each phase has to do with the files that are left in it.
PhaseInv ==
  /\ run.pc \in {"idle", "list", "stat"} => run.plan = {}
  /\ run.pc \in {"stat", "decide"} => run.todo \subseteq run.keep
  /\ run.pc = "decide" => run.plan \subseteq run.keep \ run.todo
  /\ run.pc = "delete" => run.todo = {} /\ run.plan \subseteq run.keep
  /\ run.pc \in {"idle", "list", "stat", "decide", "delete"} =>
       \A f \in Sources : run.parsed[f] = Queued
  /\ run.pc = "parse" => run.todo \subseteq run.plan
  /\ run.pc = "complete" => run.todo = {}
  /\ run.pc \in {"parse", "complete"} =>
       /\ \A f \in run.todo : run.parsed[f].state \in {"queued", "opened"}
       /\ \A f \in run.plan \ run.todo : run.parsed[f].state \in {"failed", "parsed"}
  /\ run.pc \in {"assume", "modules", "deps", "closure", "store"} => run.build \in Versions

RunTypes ==
  /\ run \in Runs
  /\ \A f \in Sources \ run.plan : run.parsed[f] = Queued
  /\ PhaseInv

StoreTypes ==
  /\ disk \in [Sources -> [version : Versions, kind : Kinds]] /\ build \in Versions
  /\ \A f \in Sources : disk[f].version <= edits + 1
  /\ build <= edits + 1
  /\ rows \in [Sources -> Rows \cup {Absent}]
  /\ dirty \in BOOLEAN /\ filtered \in BOOLEAN
  /\ generation \in Nat /\ writes \in Nat
  /\ modules \in Derivations /\ derived \in BOOLEAN
  /\ builder \in Builders /\ graph \in Graphs \cup {Absent}
  /\ untouched \in SUBSET Sources /\ covered \in SUBSET Sources
  /\ owed \in SUBSET Sources
  /\ edits \in 0..MaxEdits /\ crashes \in Nat /\ graphs \in Nat

Types == RunTypes /\ StoreTypes

\* A row is older than its file, or made from the file as it is.
Agrees(row, f) ==
  /\ row.stat <= disk[f].version /\ row.content <= disk[f].version
  /\ row.stat = disk[f].version =>
       /\ row.content = disk[f].version
       /\ disk[f].kind = IF row.minified THEN "minified" ELSE "plain"

UpToDate(f) == rows[f] # Absent /\ rows[f].stat = disk[f].version

RowsAgree ==
  /\ \A f \in Sources : rows[f] # Absent => Agrees(rows[f], f)
  /\ \A f \in Sources :
       /\ run.parsed[f].state = "opened" => run.parsed[f].stat <= disk[f].version
       /\ run.parsed[f].state = "parsed" =>
            Agrees(run.parsed[f].row, f) /\ ~run.parsed[f].row.minified

\* A row of a file that is minified is on its way out once it was looked at.
MinifiedGoes ==
  \A f \in Sources : UpToDate(f) /\ rows[f].minified =>
    /\ ~filtered
    /\ run.pc \notin {"parse", "complete", "record"}
    /\ run.pc \in {"decide", "delete"} => f \in run.todo \/ f \notin run.keep

\* What the running update has made of a file that nobody touched meanwhile.
Looked(f) ==
  /\ f \in run.keep <=> disk[f].kind # "gone"
  /\ f \in run.keep \ run.todo => run.seen[f] = disk[f].version

Seen(f) == disk[f].kind # "gone" /\ run.seen[f] = disk[f].version

Decided(f) ==
  CASE disk[f].kind = "plain" -> f \in run.keep /\ (f \in run.plan \/ UpToDate(f))
    [] disk[f].kind \in {"gone", "minified"} -> f \notin run.keep
    [] disk[f].kind = "unreadable" -> TRUE

Handled(f) ==
  CASE disk[f].kind = "plain" ->
         IF f \notin run.plan THEN UpToDate(f)
         ELSE f \in run.todo \/ ( /\ run.parsed[f].state = "parsed"
                                  /\ run.parsed[f].row.content = disk[f].version )
    [] disk[f].kind \in {"gone", "minified"} -> f \notin run.plan /\ rows[f] = Absent
    [] disk[f].kind = "unreadable" -> TRUE

Followed ==
  \A f \in untouched :
    /\ run.pc = "stat" => Looked(f)
    /\ run.pc = "decide" => IF f \in run.todo THEN Seen(f) ELSE Decided(f)
    /\ run.pc = "delete" => Decided(f)
    /\ run.pc = "parse"  => Handled(f)
    /\ run.pc \notin {"idle", "list", "stat", "decide", "delete", "parse"} => Exact(f)

CoveredInv ==
  /\ ReturnedMeansIndexed
  /\ run.pc # "idle" => covered \subseteq untouched

\* Which changes are not stored yet, and that the marker covers them.
OwedInv ==
  /\ HalfAppliedIsDirty
  /\ run.pc = "delete"   => owed = run.plan \cup Dropped
  /\ run.pc = "parse"    => owed = run.plan
  /\ run.pc = "complete" => owed = run.plan \ Written

\* Which parts of the module graph are those of the build files that the
\* running update has taken the stat of.
DerivedInv ==
  /\ FingerprintMeansDerived
  /\ modules.fingerprint \in 0..build \cup {Absent}
  /\ {modules.list, modules.deps, modules.closure} \subseteq 0..build
  /\ run.pc = "assume" => run.build \in 1..build
  /\ run.pc \in {"modules", "deps", "closure", "store"} =>
       modules.fingerprint # build /\ run.build \in 1..build
  /\ run.pc \in {"deps", "closure", "store"} /\ run.build = build => modules.list = build
  /\ run.pc \in {"closure", "store"} /\ run.build = build => modules.deps = build
  /\ run.pc = "store" /\ run.build = build => modules.closure = build

\* The imports of a file that were read are those its row was made with, if the
\* row is still that of the file.
ImportsOfRow(imports, f) ==
  rows[f] # Absent /\ rows[f].content = disk[f].version => imports[f] = rows[f].content

\* What the builder has read since the generation of the rows was last counted.
BuilderInv ==
  /\ builder.pc \in {"sources", "refs", "store"} =>
       /\ builder.files = writes
       /\ \A f \in Sources \ builder.todo : ImportsOfRow(builder.imports, f)
  /\ builder.pc \in {"refs", "store"} => builder.todo = {} /\ builder.symbols = writes
  /\ builder.pc = "store" => builder.refs = writes

StoredInv ==
  /\ {graph.files, graph.symbols, graph.refs} = {writes}
  /\ \A f \in Sources : ImportsOfRow(graph.imports, f)

GraphInv ==
  /\ builder.generation <= generation
  /\ builder.generation = generation => BuilderInv
  /\ graph # Absent =>
       graph.generation <= generation /\ (graph.generation = generation => StoredInv)

\* The transactions that write the module graph or its fingerprint.
ModuleStep == AssumeDerived \/ SyncModules \/ IndexDependencies \/ BuildTransitive
                            \/ StoreFingerprint

(***************************************************************************)
(* Types.                                                                  *)
(***************************************************************************)
LEMMA AttemptsDiffer ==
  /\ Queued \in Attempts /\ Queued.state = "queued"
  /\ Unparsed \in Attempts /\ Unparsed.state = "failed"
  /\ \A stat \in Versions : Opened(stat) \in Attempts /\ Opened(stat).state = "opened"
                             /\ Opened(stat).stat = stat
  /\ \A row \in Rows : Parsed(row) \in Attempts /\ Parsed(row).state = "parsed"
                        /\ Parsed(row).row = row
  /\ \A a \in Attempts :
       /\ a.state = "queued" => a = Queued
       /\ a.state = "failed" => a = Unparsed
       /\ a.state = "opened" => \E stat \in Versions : a = Opened(stat)
       /\ a.state = "parsed" => \E row \in Rows : a = Parsed(row)
       /\ a.state \in {"queued", "failed", "opened", "parsed"}
<1>1. /\ Queued \in Attempts /\ Queued.state = "queued"
      /\ Unparsed \in Attempts /\ Unparsed.state = "failed"
  BY DEF Attempts, Queued, Unparsed
<1>2. ASSUME NEW stat \in Versions
      PROVE  /\ Opened(stat) \in Attempts /\ Opened(stat).state = "opened"
             /\ Opened(stat).stat = stat
  BY DEF Attempts, Opened
<1>3. ASSUME NEW row \in Rows
      PROVE  /\ Parsed(row) \in Attempts /\ Parsed(row).state = "parsed"
             /\ Parsed(row).row = row
  BY DEF Attempts, Parsed
<1>4. ASSUME NEW a \in Attempts
      PROVE  /\ a.state = "queued" => a = Queued
             /\ a.state = "failed" => a = Unparsed
             /\ a.state = "opened" => \E stat \in Versions : a = Opened(stat)
             /\ a.state = "parsed" => \E row \in Rows : a = Parsed(row)
             /\ a.state \in {"queued", "failed", "opened", "parsed"}
  <2>1. \/ a = Queued \/ a = Unparsed
        \/ \E stat \in Versions : a = Opened(stat)
        \/ \E row \in Rows : a = Parsed(row)
    BY DEF Attempts
  <2>2. QED BY <1>1, <1>2, <1>3, <2>1
<1>5. QED BY <1>1, <1>2, <1>3, <1>4

LEMMA InitialTypes == Init => Types
<1> SUFFICES ASSUME Init PROVE Types
  OBVIOUS
<1>1. 1 \in Versions
  BY UpdateAssumption DEF Versions
<1>a. PICK index \in Indexes :
        /\ filtered = index.filtered
        /\ disk = [f \in Sources |-> [version |-> 1, kind |-> index.kind[f]]]
        /\ rows = [f \in Sources |->
             IF index.kind[f] = "plain" \/ (index.kind[f] = "minified" /\ ~index.filtered)
             THEN [stat |-> 1, content |-> 1, minified |-> index.kind[f] = "minified"]
             ELSE Absent]
        /\ modules = index.modules
        /\ crashes = index.crashes /\ graphs = index.graphs
  BY DEF Init
<1>b. /\ index.kind \in [Sources -> Kinds] /\ index.filtered \in BOOLEAN
      /\ index.modules \in LeftModules /\ index.crashes \in Nat /\ index.graphs \in Nat
  BY IndexesAssumption
<1>2. RunTypes
  BY <1>1, AttemptsDiffer DEF Init, NoRun, Runs, PCs, PhaseInv, NoStat, RunTypes
<1>3. /\ disk \in [Sources -> [version : Versions, kind : Kinds]]
      /\ \A f \in Sources : disk[f].version = 1
  BY <1>1, <1>a, <1>b
<1>4. rows \in [Sources -> Rows \cup {Absent}]
  BY <1>1, <1>a, <1>b DEF Rows
<1>5. builder \in Builders
  BY DEF Init, NotBuilding, Builders, Imports
<1>6. modules \in Derivations /\ derived \in BOOLEAN
  BY <1>1, <1>a, <1>b DEF Init, IsDerived, LeftModules, Derivations
<1>7. StoreTypes
  <2>1. /\ \A f \in Sources : disk[f].version <= edits + 1
        /\ build \in Versions /\ build <= edits + 1
        /\ edits \in 0..MaxEdits /\ crashes \in Nat /\ graphs \in Nat
        /\ generation \in Nat /\ writes \in Nat
    BY <1>1, <1>3, <1>a, <1>b, UpdateAssumption DEF Init
  <2>2. /\ untouched \in SUBSET Sources /\ covered \in SUBSET Sources
        /\ owed \in SUBSET Sources
    BY DEF Init
  <2>3. dirty \in BOOLEAN /\ filtered \in BOOLEAN /\ graph \in Graphs \cup {Absent}
    BY <1>a, <1>b DEF Init
  <2>4. QED BY <1>3, <1>4, <1>5, <1>6, <2>1, <2>2, <2>3 DEF StoreTypes
<1>8. QED
  BY <1>2, <1>7 DEF Types

(***************************************************************************)
(* What the steps do to the running update, field by field.                *)
(***************************************************************************)
LEMMA MoveEffect ==
  ASSUME run \in Runs, NEW from, NEW to \in PCs, Move(from, to)
  PROVE  /\ run' \in Runs /\ run.pc = from /\ run'.pc = to
         /\ UNCHANGED <<run.todo, run.seen, run.keep, run.plan, run.parsed, run.build>>
BY DEF Move, Runs

LEMMA WalkEffects ==
  ASSUME run \in Runs
  PROVE  /\ ListFiles =>
              /\ run' \in Runs /\ run.pc = "list" /\ run'.pc = "stat"
              /\ run'.todo = {f \in Sources : disk[f].kind # "gone"} /\ run'.keep = run'.todo
              /\ UNCHANGED <<run.seen, run.plan, run.parsed, run.build>>
         /\ AllStatted =>
              /\ run' \in Runs /\ run.pc = "stat" /\ run'.pc = "decide"
              /\ run.todo = {} /\ run'.todo = run.keep
              /\ UNCHANGED <<run.seen, run.keep, run.plan, run.parsed, run.build>>
<1>1. CASE ListFiles
  <2> DEFINE listed == {f \in Sources : disk[f].kind # "gone"}
  <2>1. listed \in SUBSET Sources
    OBVIOUS
  <2>2. run.pc = "list" /\ run' = [run EXCEPT !.pc = "stat", !.todo = listed, !.keep = listed]
    BY <1>1 DEF ListFiles
  <2> HIDE DEF listed
  <2>3. /\ run' \in Runs /\ run'.pc = "stat" /\ run'.todo = listed /\ run'.keep = listed
        /\ UNCHANGED <<run.seen, run.plan, run.parsed, run.build>>
    BY <2>1, <2>2 DEF Runs, PCs
  <2>4. QED BY <2>2, <2>3 DEF listed, AllStatted
<1>2. CASE AllStatted
  BY <1>2 DEF ListFiles, AllStatted, Runs, PCs
<1>3. QED BY <1>1, <1>2

LEMMA StatEffect ==
  ASSUME run \in Runs, NEW f \in Sources, StatOf(f) \in Versions \cup {NoStat}, Stat(f)
  PROVE  /\ run' \in Runs /\ run.pc = "stat" /\ run'.pc = "stat"
         /\ f \in run.todo /\ run'.todo = run.todo \ {f}
         /\ run'.seen = [run.seen EXCEPT ![f] = StatOf(f)]
         /\ UNCHANGED <<run.keep, run.plan, run.parsed, run.build>>
BY DEF Stat, Runs

\* Whether Decide takes f for changed, and whether it leaves it out.
IsChanged(f) == rows[f] = Absent \/ rows[f].stat # run.seen[f]
IsSkipped(f) == (IsChanged(f) \/ ~filtered) /\ disk[f].kind = "minified"

LEMMA DecideEffect ==
  ASSUME run \in Runs, NEW f \in Sources, Decide(f)
  PROVE  /\ run' \in Runs /\ run.pc = "decide" /\ run'.pc = "decide"
         /\ f \in run.todo /\ run'.todo = run.todo \ {f}
         /\ \A g \in Sources \ {f} : run'.seen[g] = run.seen[g]
         /\ run'.keep = IF IsSkipped(f) THEN run.keep \ {f} ELSE run.keep
         /\ run'.plan = IF IsChanged(f) /\ ~IsSkipped(f) THEN run.plan \cup {f} ELSE run.plan
         /\ UNCHANGED <<run.parsed, run.build>>
BY DEF Decide, Runs, IsChanged, IsSkipped

LEMMA DeleteEffect ==
  ASSUME run \in Runs, Delete
  PROVE  /\ run' \in Runs /\ run.pc = "delete" /\ run'.pc = "parse"
         /\ run'.keep = {} /\ run'.todo = run.plan
         /\ UNCHANGED <<run.seen, run.plan, run.parsed, run.build>>
BY DEF Delete, Runs, PCs

LEMMA ParseStatEffect ==
  ASSUME run \in Runs, NEW f \in Sources, disk[f].version \in Versions, ParseStat(f)
  PROVE  /\ run' \in Runs /\ run.pc = "parse" /\ run'.pc = "parse"
         /\ f \in run.todo /\ run.parsed[f] = Queued
         /\ IF disk[f].kind = "gone"
            THEN /\ run'.todo = run.todo \ {f}
                 /\ run'.parsed = [run.parsed EXCEPT ![f] = Unparsed]
            ELSE /\ run'.todo = run.todo
                 /\ run'.parsed = [run.parsed EXCEPT ![f] = Opened(disk[f].version)]
         /\ UNCHANGED <<run.seen, run.keep, run.plan, run.build>>
<1> USE AttemptsDiffer DEF ParseStat, Runs
<1>1. CASE disk[f].kind = "gone"
  BY <1>1
<1>2. CASE disk[f].kind # "gone"
  BY <1>2
<1>3. QED BY <1>1, <1>2

\* What ParseRead makes of a file that was opened.
Reads(f) ==
  IF disk[f].kind # "plain" THEN Unparsed
  ELSE Parsed([stat |-> run.parsed[f].stat, content |-> disk[f].version,
               minified |-> FALSE])

LEMMA ParseReadEffect ==
  ASSUME run \in Runs, NEW f \in Sources, disk[f].version \in Versions, ParseRead(f)
  PROVE  /\ run' \in Runs /\ run.pc = "parse" /\ run'.pc = "parse"
         /\ f \in run.todo /\ run.parsed[f].state = "opened"
         /\ run'.todo = run.todo \ {f}
         /\ run'.parsed = [run.parsed EXCEPT ![f] = Reads(f)]
         /\ UNCHANGED <<run.seen, run.keep, run.plan, run.build>>
<1>1. run.parsed[f] \in Attempts /\ run.parsed[f].state = "opened"
  BY DEF ParseRead, Reading, Runs
<1>2. run.parsed[f].stat \in Versions
  BY <1>1, AttemptsDiffer
<1>3. [stat |-> run.parsed[f].stat, content |-> disk[f].version, minified |-> FALSE] \in Rows
  BY <1>2 DEF Rows
<1>4. Reads(f) \in Attempts
  BY <1>3, AttemptsDiffer DEF Reads
<1>5. run' = [run EXCEPT !.todo = @ \ {f}, !.parsed[f] = Reads(f)]
  BY DEF ParseRead, Reads
<1>6. QED
  <2>1. run.pc = "parse" /\ f \in run.todo
    BY DEF ParseRead, Reading
  <2>2. /\ run' \in Runs /\ run'.pc = run.pc
        /\ run'.todo = run.todo \ {f}
        /\ run'.parsed = [run.parsed EXCEPT ![f] = Reads(f)]
        /\ UNCHANGED <<run.seen, run.keep, run.plan, run.build>>
    BY <1>4, <1>5 DEF Runs
  <2>3. QED BY <1>1, <2>1, <2>2

LEMMA RecordEffect ==
  ASSUME run \in Runs, RecordFilter
  PROVE  /\ run' \in Runs /\ run.pc = "record" /\ run'.pc = "fingerprint"
         /\ run'.plan = {} /\ \A f \in Sources : run'.parsed[f] = Queued
BY AttemptsDiffer DEF RecordFilter, NoRun, Runs, PCs

LEMMA CompareEffect ==
  ASSUME run \in Runs, build \in Versions, CompareFingerprint
  PROVE  /\ run' \in Runs /\ run.pc = "fingerprint" /\ run'.build = build
         /\ run'.pc \in {"assume", "return", "modules"}
         /\ run'.pc = "modules" => modules.fingerprint # build
         /\ UNCHANGED <<run.todo, run.seen, run.keep, run.plan, run.parsed>>
BY DEF CompareFingerprint, Runs, PCs

LEMMA NoRunEffect ==
  /\ NoRun \in Runs /\ NoRun.pc = "idle" /\ NoRun.plan = {}
  /\ \A f \in Sources : NoRun.parsed[f] = Queued
BY AttemptsDiffer DEF NoRun, Runs, PCs

\* Edits, and steps of the builder, leave the running update alone.
LEMMA OthersLeaveRun ==
  /\ \A f \in Sources : Edit(f) => UNCHANGED run
  /\ EditBuild \/ GraphStep \/ UNCHANGED vars => UNCHANGED run
BY DEF Edit, EditBuild, GraphStep, ReadGeneration, ReadFiles, ReadSource, ReadSymbols, ReadRefs, StoreGraph,
       BuilderMoves, vars

LEMMA DeriveEffect ==
  ASSUME run \in Runs,
         ModuleStep
  PROVE  /\ run' \in Runs
         /\ UNCHANGED <<run.todo, run.seen, run.keep, run.plan, run.parsed, run.build>>
         /\ \/ run.pc = "assume" /\ run'.pc = "return"
            \/ run.pc = "modules" /\ run'.pc = "deps"
            \/ run.pc = "deps" /\ run'.pc = "closure"
            \/ run.pc = "closure" /\ run'.pc = "store"
            \/ run.pc = "store" /\ run'.pc = "return"
<1>1. ASSUME NEW from \in PCs, NEW to \in PCs, NEW new, NEW isDerived,
             Derive(from, to, new, isDerived)
      PROVE  /\ run' \in Runs /\ run.pc = from /\ run'.pc = to
             /\ UNCHANGED <<run.todo, run.seen, run.keep, run.plan, run.parsed, run.build>>
  BY <1>1, MoveEffect DEF Derive
<1>2. {"assume", "modules", "deps", "closure", "store", "return"} \subseteq PCs
  BY DEF PCs
<1>3. CASE SyncModules
  BY <1>1, <1>2, <1>3 DEF SyncModules
<1>4. CASE IndexDependencies
  BY <1>1, <1>2, <1>4 DEF IndexDependencies
<1>5. CASE BuildTransitive
  BY <1>1, <1>2, <1>5 DEF BuildTransitive
<1>6. CASE StoreFingerprint
  BY <1>1, <1>2, <1>6 DEF StoreFingerprint
<1>7. CASE AssumeDerived
  BY <1>1, <1>2, <1>7 DEF AssumeDerived
<1>8. QED BY <1>3, <1>4, <1>5, <1>6, <1>7 DEF ModuleStep

LEMMA StepKeepsRunTypes == Types /\ [Next]_vars => RunTypes'
<1> SUFFICES ASSUME Types, [Next]_vars PROVE RunTypes'
  OBVIOUS
<1>0. run \in Runs
  BY DEF Types, RunTypes
<1> USE DEF Types, RunTypes, PhaseInv
<1>1. CASE UNCHANGED run
  BY <1>1
<1>2. CASE StartUpdate
  BY <1>0, <1>2, MoveEffect DEF StartUpdate, PCs
<1>3. CASE ListFiles \/ AllStatted
  BY <1>0, <1>3, WalkEffects
<1>4. ASSUME NEW f \in Sources, Stat(f) PROVE RunTypes'
  BY <1>0, <1>4, StatEffect DEF StatOf, StoreTypes
<1>5. ASSUME NEW f \in Sources, Decide(f) PROVE RunTypes'
  <2>1. run' \in Runs /\ run'.pc = "decide" /\ run'.parsed = run.parsed
    BY <1>0, <1>5, DecideEffect
  <2>2. run'.todo \subseteq run'.keep /\ run'.plan \subseteq run'.keep \ run'.todo
    <3>1. /\ run.pc = "decide" /\ f \in run.todo /\ run'.todo = run.todo \ {f}
          /\ run'.keep = IF IsSkipped(f) THEN run.keep \ {f} ELSE run.keep
          /\ run'.plan = IF IsChanged(f) /\ ~IsSkipped(f) THEN run.plan \cup {f}
                                                          ELSE run.plan
      BY <1>0, <1>5, DecideEffect
    <3>2. QED BY <3>1
  <2>3. \A g \in Sources : run'.parsed[g] = Queued
    BY <1>0, <1>5, <2>1, DecideEffect
  <2>4. QED BY <2>1, <2>2, <2>3
<1>6. CASE Mark
  BY <1>0, <1>6, MoveEffect DEF Mark, PCs
<1>7. CASE Delete
  <2>1. \A f \in Sources : run'.parsed[f] = Queued /\ run'.parsed[f].state = "queued"
    BY <1>0, <1>7, DeleteEffect, AttemptsDiffer
  <2>2. run' \in Runs /\ run'.pc = "parse" /\ run'.todo = run'.plan
    BY <1>0, <1>7, DeleteEffect
  <2>3. run'.todo \subseteq Sources
    BY <2>2 DEF Runs
  <2>4. QED BY <2>1, <2>2, <2>3
<1>8. ASSUME NEW f \in Sources, ParseStat(f) PROVE RunTypes'
  <2>1. disk[f].version \in Versions
    BY DEF StoreTypes
  <2>2. QED
    <3>1. run' \in Runs /\ run.pc = "parse" /\ run'.pc = "parse" /\ run'.plan = run.plan
      BY <1>0, <1>8, <2>1, ParseStatEffect
    <3>2. f \in run.todo
      BY <1>0, <1>8, <2>1, ParseStatEffect
    <3>3. CASE disk[f].kind = "gone"
      <4>1. /\ run'.todo = run.todo \ {f}
            /\ run'.parsed = [run.parsed EXCEPT ![f] = Unparsed]
        BY <1>0, <1>8, <2>1, <3>3, ParseStatEffect
      <4>2. /\ \A g \in Sources \ {f} : run'.parsed[g] = run.parsed[g]
            /\ run'.parsed[f].state = "failed"
        BY <1>0, <4>1, AttemptsDiffer DEF Runs
      <4>3. QED BY <3>1, <3>2, <4>1, <4>2 DEF Runs
    <3>4. CASE disk[f].kind # "gone"
      <4>1. /\ run'.todo = run.todo
            /\ run'.parsed = [run.parsed EXCEPT ![f] = Opened(disk[f].version)]
        BY <1>0, <1>8, <2>1, <3>4, ParseStatEffect
      <4>2. /\ \A g \in Sources \ {f} : run'.parsed[g] = run.parsed[g]
            /\ run'.parsed[f].state = "opened"
        BY <1>0, <2>1, <4>1, AttemptsDiffer DEF Runs
      <4>3. QED BY <3>1, <3>2, <4>1, <4>2 DEF Runs
    <3>5. QED BY <3>3, <3>4
<1>9. ASSUME NEW f \in Sources, ParseRead(f) PROVE RunTypes'
  <2>1. disk[f].version \in Versions
    BY DEF StoreTypes
  <2>2. Reads(f).state \in {"failed", "parsed"}
    BY DEF Reads, Unparsed, Parsed
  <2>3. QED
    BY <1>0, <1>9, <2>1, <2>2, ParseReadEffect DEF Runs
<1>10. CASE Write
  BY <1>0, <1>10, MoveEffect DEF Write, PCs
<1>11. CASE Complete
  BY <1>0, <1>11, MoveEffect DEF Complete, PCs
<1>12. CASE RecordFilter
  BY <1>0, <1>12, RecordEffect
<1>13. CASE CompareFingerprint
  BY <1>0, <1>13, CompareEffect DEF StoreTypes
<1>14. CASE ModuleStep
  BY <1>0, <1>14, DeriveEffect
<1>15. CASE Return \/ Crash
  BY <1>15, NoRunEffect DEF Return, Crash
<1>16. QED
  BY <1>1, <1>2, <1>3, <1>4, <1>5, <1>6, <1>7, <1>8, <1>9, <1>10, <1>11, <1>12, <1>13,
     <1>14, <1>15, OthersLeaveRun DEF Next, UpdateStep, ModuleStep

LEMMA StepKeepsStoreTypes == Types /\ [Next]_vars => StoreTypes'
<1> SUFFICES ASSUME Types, [Next]_vars PROVE StoreTypes'
  OBVIOUS
<1> USE UpdateAssumption
    DEF Types, StoreTypes, Versions, files, tables, markers, derivation, touched, budgets,
        Looks
<1>1. ASSUME NEW f \in Sources, Edit(f) PROVE StoreTypes'
  BY <1>1 DEF Edit, Kinds
<1>2. CASE EditBuild
  BY <1>2 DEF EditBuild
<1>3. CASE StartUpdate \/ Return \/ Crash
  BY <1>3 DEF StartUpdate, Return, Crash
<1>4. CASE Mark
  BY <1>4 DEF Mark, Dropped, RunTypes, Runs
<1>5. CASE Delete
  <2>1. rows' \in [Sources -> Rows \cup {Absent}] /\ writes' \in Nat /\ generation' \in Nat
    BY <1>5 DEF Delete, WriteRows
  <2>2. QED
    BY <1>5, <2>1 DEF Delete
<1>6. CASE Write
  <2>1. ASSUME NEW f \in Written PROVE run.parsed[f].row \in Rows
    BY <1>6, <2>1, AttemptsDiffer DEF Write, Move, Written, RunTypes, PhaseInv, Runs
  <2>2. rows' \in [Sources -> Rows \cup {Absent}] /\ writes' \in Nat /\ generation' \in Nat
    BY <1>6, <2>1 DEF Write, WriteRows
  <2>3. QED
    BY <1>6, <2>2 DEF Write
<1>7. CASE Complete \/ RecordFilter
  BY <1>7 DEF Complete, RecordFilter
<1>8. CASE ModuleStep
  <2>1. UNCHANGED <<files, tables, markers, graph, builder, touched, owed, budgets>>
    BY <1>8 DEF ModuleStep, AssumeDerived, SyncModules, IndexDependencies, BuildTransitive,
         StoreFingerprint, Derive, derivation
  <2>2. modules' \in Derivations /\ derived' \in BOOLEAN
    <3> USE DEF Derive, Derivations
    <3>1. CASE SyncModules
      BY <3>1 DEF SyncModules
    <3>2. CASE IndexDependencies
      BY <3>2 DEF IndexDependencies
    <3>3. CASE BuildTransitive
      BY <3>3 DEF BuildTransitive
    <3>4. CASE StoreFingerprint
      <4>1. run.build \in Versions
        BY <3>4 DEF RunTypes, PhaseInv, StoreFingerprint, Move
      <4>2. QED BY <3>4, <4>1 DEF StoreFingerprint
    <3>5. CASE AssumeDerived
      <4>1. run.build \in Versions
        BY <3>5 DEF RunTypes, PhaseInv, AssumeDerived, Move
      <4>2. QED BY <3>5, <4>1 DEF AssumeDerived
    <3>6. QED BY <1>8, <3>1, <3>2, <3>3, <3>4, <3>5 DEF ModuleStep
  <2>3. QED
    BY <2>1, <2>2
<1>9. CASE GraphStep
  <2>1. builder' \in Builders /\ graph' \in Graphs \cup {Absent} /\ graphs' \in Nat
    <3> USE DEF BuilderMoves, Builders, Graphs, Imports
    <3>1. CASE ReadGeneration
      <4>1. builder' \in Builders
        BY <3>1 DEF ReadGeneration
      <4>2. graph' = graph /\ graphs' \in Nat
        BY <3>1 DEF ReadGeneration
      <4>3. QED BY <4>1, <4>2
    <3>2. CASE ReadFiles
      <4>1. {f \in Sources : rows[f] # Absent} \in SUBSET Sources
        OBVIOUS
      <4>2. QED BY <3>2, <4>1 DEF ReadFiles
    <3>3. ASSUME NEW f \in Sources, ReadSource(f)
          PROVE  builder' \in Builders /\ graph' = graph /\ graphs' = graphs
      BY <3>3 DEF ReadSource
    <3>4. CASE ReadSymbols
      BY <3>4 DEF ReadSymbols
    <3>5. CASE ReadRefs
      BY <3>5 DEF ReadRefs
    <3>6. CASE StoreGraph
      BY <3>6 DEF StoreGraph, NotBuilding
    <3>7. QED BY <1>9, <3>1, <3>2, <3>3, <3>4, <3>5, <3>6 DEF GraphStep
  <2>2. UNCHANGED <<files, tables, markers, derivation, touched, owed, crashes>>
    BY <1>9 DEF GraphStep, ReadGeneration, ReadFiles, ReadSource, ReadSymbols, ReadRefs, StoreGraph, BuilderMoves
  <2>3. QED
    BY <2>1, <2>2
<1>10. CASE Looks \/ UNCHANGED vars
  BY <1>10 DEF vars
<1>11. ASSUME NEW f \in Sources, Stat(f) \/ Decide(f) \/ ParseStat(f) \/ ParseRead(f)
       PROVE  Looks
  BY <1>11 DEF Stat, Decide, ParseStat, ParseRead
<1>12. ListFiles \/ AllStatted \/ CompareFingerprint => Looks
  BY DEF ListFiles, AllStatted, CompareFingerprint
<1>13. QED
  BY <1>1, <1>2, <1>3, <1>4, <1>5, <1>6, <1>7, <1>8, <1>9, <1>10, <1>11, <1>12
     DEF Next, UpdateStep, ModuleStep

LEMMA StepKeepsAllTypes == Types /\ [Next]_vars => Types'
BY StepKeepsRunTypes, StepKeepsStoreTypes DEF Types

LEMMA TypesImplyTypeOK == Types => TypeOK
<1> SUFFICES ASSUME Types PROVE TypeOK
  OBVIOUS
<1>1. /\ modules.fingerprint \in Versions \cup {Older, Absent}
      /\ {modules.list, modules.deps, modules.closure} \subseteq Versions \cup {Older}
  BY DEF Types, StoreTypes, Derivations
<1>2. run.pc \in PCs /\ run.build \in Versions \cup {NoStat}
      /\ run.todo \cup run.keep \cup run.plan \subseteq Sources
      /\ run.seen \in [Sources -> Versions \cup {NoStat}]
  BY DEF Types, RunTypes, Runs
<1>3. \A f \in Sources :
        run.parsed[f].state = "parsed" => run.parsed[f].row \in Rows
  BY AttemptsDiffer DEF Types, RunTypes, Runs
<1>4. QED
  BY <1>1, <1>2, <1>3 DEF Types, RunTypes, StoreTypes, TypeOK

\* Types; and what an update remembers of a phase ends with the phase.
THEOREM TypeCorrect == Spec => []TypeOK
BY InitialTypes, StepKeepsAllTypes, TypesImplyTypeOK, PTL DEF Spec

(***************************************************************************)
(* Rows and files.                                                         *)
(***************************************************************************)
\* Steps that touch neither files nor rows nor what was parsed.
LEMMA QuietSteps ==
  ASSUME Types, [Next]_vars,
         ~ \E f \in Sources : Edit(f) \/ ParseStat(f) \/ ParseRead(f),
         ~ (Delete \/ Write \/ RecordFilter \/ Return \/ Crash)
  PROVE  UNCHANGED <<disk, rows, run.parsed>>
<1>1. run \in Runs /\ build \in Versions
      /\ \A f \in Sources : StatOf(f) \in Versions \cup {NoStat}
  BY DEF Types, RunTypes, StoreTypes, StatOf
<1>2. CASE EditBuild \/ GraphStep \/ UNCHANGED vars
  BY <1>2, OthersLeaveRun
     DEF EditBuild, GraphStep, ReadGeneration, ReadFiles, ReadSource, ReadSymbols, ReadRefs, StoreGraph,
         BuilderMoves, vars, tables, files
<1>3. CASE StartUpdate \/ Mark \/ Complete
  BY <1>1, <1>3, MoveEffect DEF StartUpdate, Mark, Complete, PCs, tables, files
<1>4. CASE ListFiles \/ AllStatted
  BY <1>1, <1>4, WalkEffects DEF ListFiles, AllStatted, Looks, tables, files
<1>5. CASE CompareFingerprint
  BY <1>1, <1>5, CompareEffect DEF CompareFingerprint, Looks, tables, files
<1>6. CASE ModuleStep
  BY <1>1, <1>6, DeriveEffect
     DEF ModuleStep, AssumeDerived, SyncModules, IndexDependencies, BuildTransitive,
         StoreFingerprint, Derive, derivation,
         tables, files
<1>7. ASSUME NEW f \in Sources, Stat(f) \/ Decide(f)
      PROVE  UNCHANGED <<disk, rows, run.parsed>>
  BY <1>1, <1>7, StatEffect, DecideEffect DEF Stat, Decide, Looks, tables, files
<1>8. QED
  BY <1>2, <1>3, <1>4, <1>5, <1>6, <1>7 DEF Next, UpdateStep, ModuleStep

\* An edit makes a version that no row has the stat of.
LEMMA EditEffect ==
  ASSUME Types, NEW f \in Sources, Edit(f)
  PROVE  /\ disk'[f].version = disk[f].version + 1
         /\ \A g \in Sources \ {f} : disk'[g] = disk[g]
         /\ UNCHANGED <<rows, run>>
         /\ \A row : row.stat \in Int /\ row.content \in Int /\ Agrees(row, f) =>
              Agrees(row, f)' /\ row.stat < disk'[f].version
<1>1. disk[f].version \in Int
  BY DEF Types, StoreTypes, Versions
<1>2. /\ disk'[f].version = disk[f].version + 1
      /\ \A g \in Sources \ {f} : disk'[g] = disk[g]
      /\ UNCHANGED <<rows, run>>
  BY DEF Edit, Types, StoreTypes, tables
<1>3. QED
  BY <1>1, <1>2 DEF Agrees

LEMMA StepKeepsRowsAgree == Types /\ RowsAgree /\ [Next]_vars => RowsAgree'
<1> SUFFICES ASSUME Types, RowsAgree, [Next]_vars PROVE RowsAgree'
  OBVIOUS
<1>0. /\ run \in Runs
      /\ \A f \in Sources : disk[f].version \in Versions
      /\ \A f \in Sources : rows[f] # Absent =>
           rows[f] \in Rows /\ rows[f].stat \in Int /\ rows[f].content \in Int
      /\ Versions \subseteq Int
  BY DEF Types, RunTypes, StoreTypes, Rows, Versions
<1>a. \A f \in Sources :
        /\ run.parsed[f] \in Attempts
        /\ run.parsed[f].state = "opened" => run.parsed[f].stat \in Versions
        /\ run.parsed[f].state = "parsed" =>
             /\ run.parsed[f].row \in Rows /\ run.parsed[f].row.stat \in Versions
             /\ run.parsed[f].row.content \in Versions
  BY <1>0, AttemptsDiffer DEF Runs, Rows
<1>1. CASE UNCHANGED <<disk, rows, run.parsed>>
  BY <1>1 DEF RowsAgree, Agrees
<1>2. ASSUME NEW f \in Sources, Edit(f) PROVE RowsAgree'
  <2>1. ASSUME NEW g \in Sources \ {f}, NEW row, Agrees(row, g) PROVE Agrees(row, g)'
    BY <1>2, <2>1, EditEffect DEF Agrees
  <2>2. ASSUME NEW row, row.stat \in Int, row.content \in Int, Agrees(row, f)
        PROVE  Agrees(row, f)'
    BY <1>2, <2>2, EditEffect
  <2>3. UNCHANGED <<rows, run>> /\ disk'[f].version = disk[f].version + 1
        /\ \A g \in Sources \ {f} : disk'[g] = disk[g]
    BY <1>2, EditEffect
  <2>4. \A g \in Sources : rows'[g] # Absent => Agrees(rows[g], g)'
    BY <1>0, <2>1, <2>2, <2>3 DEF RowsAgree
  <2>5. \A g \in Sources : run.parsed[g].state = "parsed" => Agrees(run.parsed[g].row, g)'
    BY <1>0, <1>a, <2>1, <2>2, <2>3 DEF RowsAgree
  <2>6. ASSUME NEW g \in Sources, run.parsed[g].state = "opened"
        PROVE  run.parsed[g].stat <= disk'[g].version
    <3>1. run.parsed[g].stat \in Int /\ disk[g].version \in Int
      BY <1>0, <1>a, <2>6
    <3>2. run.parsed[g].stat <= disk[g].version
      BY <2>6 DEF RowsAgree
    <3>3. QED BY <2>3, <3>1, <3>2
  <2>7. QED
    BY <2>3, <2>4, <2>5, <2>6 DEF RowsAgree, Agrees
<1>3. CASE Delete
  <2>1. disk' = disk /\ run'.parsed = run.parsed
        /\ \A f \in Sources : rows'[f] \in {Absent, rows[f]}
    BY <1>0, <1>3, DeleteEffect DEF Delete, WriteRows, files
  <2>2. QED BY <2>1 DEF RowsAgree, Agrees
<1>4. CASE Write
  <2>1. disk' = disk /\ run'.parsed = run.parsed
        /\ \A f \in Sources : rows'[f] \in {run.parsed[f].row, rows[f]}
        /\ \A g \in Sources \ Written : rows'[g] = rows[g]
    BY <1>0, <1>4, MoveEffect DEF Write, WriteRows, files, PCs
  <2>2. \A f \in Written : run.parsed[f].state = "parsed"
    BY <1>0, <1>4, AttemptsDiffer DEF Write, Move, Written, Types, RunTypes, PhaseInv, Runs
  <2>3. QED BY <2>1, <2>2 DEF RowsAgree, Agrees
<1>5. CASE RecordFilter \/ Return \/ Crash
  <2>1. \A f \in Sources : run'.parsed[f].state = "queued"
    BY <1>0, <1>5, RecordEffect, NoRunEffect, AttemptsDiffer DEF Return, Crash
  <2>2. disk' = disk /\ rows' = rows
    BY <1>5 DEF RecordFilter, Return, Crash, tables, files
  <2>3. QED BY <2>1, <2>2 DEF RowsAgree, Agrees
<1>6. ASSUME NEW f \in Sources, ParseStat(f) PROVE RowsAgree'
  <2>1. disk' = disk /\ rows' = rows
    BY <1>6 DEF ParseStat, Looks, tables, files
  <2>2. /\ \A g \in Sources \ {f} : run'.parsed[g] = run.parsed[g]
        /\ run'.parsed[f] \in {Unparsed, Opened(disk[f].version)}
    BY <1>0, <1>6, ParseStatEffect DEF Runs
  <2>3. /\ run'.parsed[f].state \in {"failed", "opened"}
        /\ run'.parsed[f].state = "opened" => run'.parsed[f].stat <= disk[f].version
    BY <1>0, <2>2 DEF Unparsed, Opened, Versions
  <2>4. QED BY <2>1, <2>2, <2>3 DEF RowsAgree, Agrees
<1>7. ASSUME NEW f \in Sources, ParseRead(f) PROVE RowsAgree'
  <2>1. disk' = disk /\ rows' = rows
    BY <1>7 DEF ParseRead, Looks, tables, files
  <2>2. /\ \A g \in Sources \ {f} : run'.parsed[g] = run.parsed[g]
        /\ run'.parsed[f] = Reads(f) /\ run.parsed[f].state = "opened"
    BY <1>0, <1>7, ParseReadEffect DEF Runs
  <2>3. run.parsed[f].stat <= disk[f].version
    BY <2>2 DEF RowsAgree
  <2>4. /\ Reads(f).state \in {"failed", "parsed"}
        /\ Reads(f).state = "parsed" => Agrees(Reads(f).row, f) /\ ~Reads(f).row.minified
    <3>1. disk[f].version <= disk[f].version
      <4>1. \A n \in Int : n <= n
        OBVIOUS
      <4>2. QED BY <1>0, <4>1, Zenon
    <3>2. CASE disk[f].kind = "plain"
      <4>1. Reads(f).state = "parsed" /\ Reads(f).row.stat = run.parsed[f].stat
            /\ Reads(f).row.content = disk[f].version /\ Reads(f).row.minified = FALSE
        BY <3>2 DEF Reads, Parsed
      <4>2. QED BY <2>3, <3>1, <3>2, <4>1 DEF Agrees
    <3>3. CASE disk[f].kind # "plain"
      <4>1. Reads(f).state = "failed"
        BY <3>3 DEF Reads, Unparsed
      <4>2. QED BY <4>1
    <3>4. QED BY <3>2, <3>3
  <2>5. QED BY <2>1, <2>2, <2>4 DEF RowsAgree, Agrees
<1>8. QED
  BY <1>1, <1>2, <1>3, <1>4, <1>5, <1>6, <1>7, QuietSteps

(***************************************************************************)
(* Minified files.                                                         *)
(***************************************************************************)
\* A step that changes no row and leaves or does not enter the phases in which
\* rows of minified files are looked for.
LEMMA MinifiedQuiet ==
  ASSUME MinifiedGoes, UNCHANGED <<disk, rows>>,
         \/ UNCHANGED <<run, filtered>>
         \/ /\ run'.pc \notin {"decide", "delete", "parse", "complete", "record"}
            /\ UNCHANGED filtered \/ run.pc = "record"
  PROVE  MinifiedGoes'
BY DEF MinifiedGoes, UpToDate

LEMMA StepKeepsMinifiedGoes ==
  Types /\ RowsAgree /\ MinifiedGoes /\ [Next]_vars => MinifiedGoes'
<1> SUFFICES ASSUME Types, RowsAgree, MinifiedGoes, [Next]_vars PROVE MinifiedGoes'
  OBVIOUS
<1>0. /\ run \in Runs /\ build \in Versions /\ PhaseInv
      /\ \A f \in Sources : disk[f].version \in Versions
      /\ \A f \in Sources : StatOf(f) \in Versions \cup {NoStat}
      /\ \A f \in Sources : rows[f] # Absent => rows[f] \in Rows /\ rows[f].stat \in Int
      /\ Versions \subseteq Int
  BY DEF Types, RunTypes, StoreTypes, StatOf, Rows, Versions
<1> USE DEF tables, files, markers, Looks
<1>1. CASE EditBuild \/ GraphStep \/ UNCHANGED vars
  <2>1. UNCHANGED <<disk, rows, run, filtered>>
    BY <1>1 DEF EditBuild, GraphStep, ReadGeneration, ReadFiles, ReadSource, ReadSymbols, ReadRefs, StoreGraph,
                BuilderMoves, vars
  <2>2. QED BY <2>1, MinifiedQuiet
<1>2. CASE StartUpdate
  BY <1>0, <1>2, MoveEffect, MinifiedQuiet DEF StartUpdate, PCs
<1>3. CASE ListFiles
  BY <1>0, <1>3, WalkEffects, MinifiedQuiet DEF ListFiles
<1>4. ASSUME NEW f \in Sources, Stat(f) PROVE MinifiedGoes'
  BY <1>0, <1>4, StatEffect, MinifiedQuiet DEF Stat
<1>5. CASE RecordFilter
  BY <1>0, <1>5, RecordEffect, MinifiedQuiet DEF RecordFilter
<1>6. CASE CompareFingerprint
  BY <1>0, <1>6, CompareEffect, MinifiedQuiet DEF CompareFingerprint
<1>7. CASE ModuleStep
  <2>1. UNCHANGED <<disk, rows, filtered>>
    BY <1>7 DEF ModuleStep, AssumeDerived, SyncModules, IndexDependencies, BuildTransitive,
         StoreFingerprint, Derive, derivation
  <2>2. QED BY <1>0, <1>7, <2>1, DeriveEffect, MinifiedQuiet
<1>8. CASE Return \/ Crash
  BY <1>8, NoRunEffect, MinifiedQuiet DEF Return, Crash
<1>9. ASSUME NEW f \in Sources, Edit(f) PROVE MinifiedGoes'
  <2>1. ASSUME rows[f] # Absent PROVE rows[f].stat # disk'[f].version
    <3>1. rows[f].stat \in Int /\ Agrees(rows[f], f) /\ disk[f].version \in Int
      BY <1>0, <2>1 DEF RowsAgree
    <3>2. rows[f].stat <= disk[f].version /\ disk'[f].version = disk[f].version + 1
      BY <1>9, <3>1, EditEffect DEF Agrees
    <3>3. QED BY <3>1, <3>2
  <2>2. UNCHANGED filtered
    BY <1>9 DEF Edit
  <2>3. QED
    BY <1>9, <2>1, <2>2, EditEffect DEF MinifiedGoes, UpToDate
<1>10. CASE AllStatted
  <2>1. run'.pc = "decide" /\ run'.todo = run'.keep /\ UNCHANGED <<disk, rows, filtered>>
    BY <1>0, <1>10, WalkEffects DEF AllStatted
  <2>2. QED BY <2>1 DEF MinifiedGoes, UpToDate
<1>11. ASSUME NEW f \in Sources, Decide(f) PROVE MinifiedGoes'
  <2>1. UNCHANGED <<disk, rows, filtered>>
    BY <1>11 DEF Decide
  <2>2. /\ run.pc = "decide" /\ run'.pc = "decide"
        /\ run'.todo = run.todo \ {f} /\ run'.keep \subseteq run.keep
        /\ IsSkipped(f) => f \notin run'.keep
    BY <1>0, <1>11, DecideEffect
  <2>3. UpToDate(f) /\ rows[f].minified => IsSkipped(f)
    BY DEF MinifiedGoes, UpToDate, RowsAgree, Agrees, IsSkipped
  <2>4. QED BY <2>1, <2>2, <2>3 DEF MinifiedGoes, UpToDate
<1>12. CASE Mark
  <2>1. /\ UNCHANGED <<disk, rows, filtered>> /\ run.todo = {}
        /\ run.pc = "decide" /\ run'.pc = "delete" /\ run'.keep = run.keep
    BY <1>0, <1>12, MoveEffect DEF Mark, PCs
  <2>2. QED BY <2>1 DEF MinifiedGoes, UpToDate
<1>13. CASE Delete
  <2>1. /\ UNCHANGED <<disk, filtered>> /\ run.pc = "delete" /\ run.todo = {}
        /\ \A f \in Sources : rows'[f] = IF f \in Dropped THEN Absent ELSE rows[f]
    BY <1>0, <1>13, DeleteEffect DEF Delete, WriteRows, PhaseInv
  <2>2. QED BY <2>1 DEF MinifiedGoes, UpToDate, Dropped
<1>14. ASSUME NEW f \in Sources, ParseStat(f) \/ ParseRead(f) PROVE MinifiedGoes'
  <2>1. UNCHANGED <<disk, rows, filtered>> /\ run'.pc = "parse" /\ run.pc = "parse"
    BY <1>0, <1>14, ParseStatEffect, ParseReadEffect DEF ParseStat, ParseRead
  <2>2. QED BY <2>1 DEF MinifiedGoes, UpToDate
<1>15. CASE Write
  <2>1. /\ UNCHANGED <<disk, filtered>> /\ run.pc = "parse"
        /\ \A f \in Sources : rows'[f] = IF f \in Written THEN run.parsed[f].row ELSE rows[f]
    BY <1>0, <1>15, MoveEffect DEF Write, WriteRows, PCs
  <2>2. \A f \in Written : ~run.parsed[f].row.minified
    BY <1>0, <1>15, AttemptsDiffer DEF Write, Written, PhaseInv, Runs, RowsAgree, Move
  <2>3. QED BY <2>1, <2>2 DEF MinifiedGoes, UpToDate
<1>16. CASE Complete
  <2>1. /\ UNCHANGED <<disk, rows, filtered>> /\ run.pc = "complete"
    BY <1>16 DEF Complete, Move
  <2>2. QED BY <2>1 DEF MinifiedGoes, UpToDate
<1>17. QED
  BY <1>1, <1>2, <1>3, <1>4, <1>5, <1>6, <1>7, <1>8, <1>9, <1>10, <1>11, <1>12, <1>13, <1>14,
     <1>15, <1>16 DEF Next, UpdateStep, ModuleStep

RowInv == Types /\ RowsAgree /\ MinifiedGoes

LEMMA RowOfRebuild ==
  ASSUME NEW row, NEW kind,
         row = [stat |-> 1, content |-> 1, minified |-> kind = "minified"]
  PROVE  row.stat = 1 /\ row.content = 1 /\ (row.minified <=> kind = "minified")
OBVIOUS

LEMMA InitialRowInv == Init => RowInv
<1> SUFFICES ASSUME Init PROVE RowsAgree /\ MinifiedGoes
  BY InitialTypes DEF RowInv
<1>1. \A f \in Sources : run.parsed[f].state = "queued"
  BY NoRunEffect, AttemptsDiffer DEF Init
<1>2. ASSUME NEW kind \in [Sources -> Kinds \ {"unreadable"}],
             disk = [f \in Sources |-> [version |-> 1, kind |-> kind[f]]],
             rows = [f \in Sources |->
               IF kind[f] = "plain" \/ (kind[f] = "minified" /\ ~filtered)
               THEN [stat |-> 1, content |-> 1, minified |-> kind[f] = "minified"]
               ELSE Absent],
             NEW f \in Sources, rows[f] # Absent
      PROVE  /\ rows[f].stat = 1 /\ rows[f].content = 1 /\ disk[f].version = 1
             /\ disk[f].kind = IF rows[f].minified THEN "minified" ELSE "plain"
             /\ rows[f].minified => ~filtered
  <2>1. disk[f] = [version |-> 1, kind |-> kind[f]]
    BY <1>2
  <2>2. /\ kind[f] = "plain" \/ (kind[f] = "minified" /\ ~filtered)
        /\ rows[f] = [stat |-> 1, content |-> 1, minified |-> kind[f] = "minified"]
    BY <1>2, Zenon
  <2>3. /\ rows[f].stat = 1 /\ rows[f].content = 1
        /\ rows[f].minified <=> kind[f] = "minified"
    BY <2>2, RowOfRebuild, Zenon
  <2>4. disk[f].version = 1 /\ disk[f].kind = kind[f]
    BY <2>1
  <2>5. kind[f] = "plain" \/ (kind[f] = "minified" /\ ~filtered)
    BY <2>2, Zenon
  <2>6. QED BY <2>3, <2>4, <2>5
<1>a. PICK index \in Indexes :
        /\ filtered = index.filtered
        /\ disk = [f \in Sources |-> [version |-> 1, kind |-> index.kind[f]]]
        /\ rows = [f \in Sources |->
             IF index.kind[f] = "plain" \/ (index.kind[f] = "minified" /\ ~index.filtered)
             THEN [stat |-> 1, content |-> 1, minified |-> index.kind[f] = "minified"]
             ELSE Absent]
  BY Zenon DEF Init
<1>b. index.kind \in [Sources -> Kinds \ {"unreadable"}]
  BY IndexesAssumption
<1>3. ASSUME NEW f \in Sources, rows[f] # Absent
      PROVE  /\ rows[f].stat = 1 /\ rows[f].content = 1 /\ disk[f].version = 1
             /\ disk[f].kind = IF rows[f].minified THEN "minified" ELSE "plain"
             /\ rows[f].minified => ~filtered
  BY <1>2, <1>a, <1>b, <1>3, Zenon
<1>4. RowsAgree
  BY <1>1, <1>3 DEF RowsAgree, Agrees
<1>5. MinifiedGoes
  BY <1>3 DEF Init, MinifiedGoes, UpToDate, NoRun
<1>6. QED BY <1>4, <1>5

LEMMA RowInvariant == Spec => []RowInv
<1>1. RowInv /\ [Next]_vars => RowInv'
  BY StepKeepsAllTypes, StepKeepsRowsAgree, StepKeepsMinifiedGoes DEF RowInv
<1>2. QED
  BY InitialRowInv, <1>1, PTL DEF Spec

\* Whatever is outdated can be told by looking, so that an edit that no update
\* has seen is found by the next one, and the filter for minified files is
\* recorded as done only when every such row would be looked at anyway.
THEOREM NothingOutdatedIsMissed == Spec => []OutdatedIsNoticed
<1>1. RowInv => OutdatedIsNoticed
  <2> SUFFICES ASSUME RowInv PROVE OutdatedIsNoticed
    OBVIOUS
  <2>1. \A f \in Sources : rows[f] # Absent => rows[f].stat \in 1..MaxEdits + 1
    BY DEF RowInv, Types, StoreTypes, Rows, Versions
  <2>2. QED
    BY <2>1 DEF RowInv, RowsAgree, Agrees, MinifiedGoes, UpToDate, OutdatedIsNoticed,
                StatOf, NoStat
<1>2. QED
  BY <1>1, RowInvariant, PTL

(***************************************************************************)
(* Files that nobody touches while an update runs.                         *)
(***************************************************************************)
\* A file that is followed and that the step neither touches nor gets any
\* further with.
LEMMA FollowedQuiet ==
  ASSUME Followed, NEW f \in untouched, UNCHANGED <<rows[f], disk[f], run>>
  PROVE  /\ run'.pc = "stat" => Looked(f)'
         /\ run'.pc = "decide" => IF f \in run'.todo THEN Seen(f)' ELSE Decided(f)'
         /\ run'.pc = "delete" => Decided(f)'
         /\ run'.pc = "parse"  => Handled(f)'
         /\ run'.pc \notin {"idle", "list", "stat", "decide", "delete", "parse"} => Exact(f)'
BY DEF Followed, Looked, Seen, Decided, UpToDate, Handled, Exact

\* A decision about a file whose stat is that of now.
LEMMA DecisionIsRight ==
  ASSUME RowInv, NEW f \in Sources, Seen(f), f \in run.keep, Decide(f)
  PROVE  Decided(f)'
<1>0. run \in Runs /\ UNCHANGED <<disk, rows>>
  BY DEF RowInv, Types, RunTypes, Decide, Looks, files, tables
<1>1. IsChanged(f) <=> ~UpToDate(f)
  BY DEF Seen, IsChanged, UpToDate
<1>2. /\ run'.keep = IF IsSkipped(f) THEN run.keep \ {f} ELSE run.keep
      /\ run'.plan = IF IsChanged(f) /\ ~IsSkipped(f) THEN run.plan \cup {f} ELSE run.plan
  BY <1>0, DecideEffect
<1>3. CASE disk[f].kind = "plain"
  BY <1>0, <1>1, <1>2, <1>3 DEF Decided, UpToDate, IsSkipped
<1>4. CASE disk[f].kind = "minified"
  <2>1. UpToDate(f) => rows[f].minified /\ ~filtered
    BY <1>4 DEF RowInv, RowsAgree, Agrees, UpToDate, MinifiedGoes
  <2>2. IsSkipped(f)
    BY <1>1, <1>4, <2>1 DEF IsSkipped
  <2>3. QED BY <1>0, <1>2, <1>4, <2>2 DEF Decided
<1>5. CASE disk[f].kind = "unreadable"
  BY <1>0, <1>5 DEF Decided
<1>6. disk[f].kind \in {"plain", "minified", "unreadable"}
  BY DEF RowInv, Types, StoreTypes, Kinds, Seen
<1>7. QED BY <1>3, <1>4, <1>5, <1>6

LEMMA StepKeepsFollowed == RowInv /\ Followed /\ [Next]_vars => Followed'
<1> SUFFICES ASSUME RowInv, Followed, [Next]_vars, NEW f \in untouched'
             PROVE  /\ run'.pc = "stat" => Looked(f)'
                    /\ run'.pc = "decide" => IF f \in run'.todo THEN Seen(f)' ELSE Decided(f)'
                    /\ run'.pc = "delete" => Decided(f)'
                    /\ run'.pc = "parse"  => Handled(f)'
                    /\ run'.pc \notin {"idle", "list", "stat", "decide", "delete", "parse"}
                         => Exact(f)'
  BY DEF Followed
<1> DEFINE Goal == /\ run'.pc = "stat" => Looked(f)'
                   /\ run'.pc = "decide" => IF f \in run'.todo THEN Seen(f)' ELSE Decided(f)'
                   /\ run'.pc = "delete" => Decided(f)'
                   /\ run'.pc = "parse"  => Handled(f)'
                   /\ run'.pc \notin {"idle", "list", "stat", "decide", "delete", "parse"}
                        => Exact(f)'
<1>0. /\ run \in Runs /\ build \in Versions /\ PhaseInv
      /\ \A g \in Sources : disk[g].version \in Versions /\ disk[g].kind \in Kinds
      /\ \A g \in Sources : StatOf(g) \in Versions \cup {NoStat}
      /\ untouched \in SUBSET Sources /\ Types
  BY DEF RowInv, Types, RunTypes, StoreTypes, StatOf
<1>a. untouched' \in SUBSET Sources
  BY <1>0, StepKeepsAllTypes DEF Types, StoreTypes
<1> USE DEF tables, files, markers, touched, Looks
<1>1. ASSUME NEW g \in Sources, Edit(g) PROVE Goal
  BY <1>0, <1>1, EditEffect, FollowedQuiet DEF Edit
<1>2. CASE EditBuild \/ GraphStep \/ UNCHANGED vars
  <2>1. UNCHANGED <<disk, rows, run, untouched>>
    BY <1>2 DEF EditBuild, GraphStep, ReadGeneration, ReadFiles, ReadSource, ReadSymbols, ReadRefs, StoreGraph,
                BuilderMoves, vars
  <2>2. QED BY <2>1, FollowedQuiet
<1>3. CASE StartUpdate
  BY <1>0, <1>3, MoveEffect DEF StartUpdate, PCs
<1>4. CASE ListFiles
  BY <1>0, <1>a, <1>4, WalkEffects DEF ListFiles, Looked
<1>5. ASSUME NEW g \in Sources, Stat(g) PROVE Goal
  <2>1. /\ UNCHANGED <<disk, untouched>> /\ run.pc = "stat" /\ run'.pc = "stat"
        /\ run'.todo = run.todo \ {g} /\ run'.keep = run.keep
        /\ run'.seen = [run.seen EXCEPT ![g] = StatOf(g)]
    BY <1>0, <1>5, StatEffect DEF Stat
  <2>2. /\ run'.seen[g] = StatOf(g)
        /\ \A h \in Sources \ {g} : run'.seen[h] = run.seen[h]
    BY <1>0, <2>1 DEF Runs
  <2>3. QED BY <1>a, <2>1, <2>2 DEF Followed, Looked, StatOf
<1>6. CASE AllStatted
  <2>1. /\ UNCHANGED <<disk, untouched>> /\ run.pc = "stat" /\ run'.pc = "decide"
        /\ run.todo = {} /\ run'.todo = run.keep
        /\ run'.seen = run.seen /\ run'.keep = run.keep
    BY <1>0, <1>6, WalkEffects DEF AllStatted
  <2>2. Looked(f)
    BY <2>1 DEF Followed
  <2>3. disk[f].kind = "gone" \/ f \in run.keep
    BY <2>2 DEF Looked
  <2>4. QED BY <2>1, <2>2, <2>3 DEF Looked, Seen, Decided
<1>7. ASSUME NEW g \in Sources, Decide(g) PROVE Goal
  <2>1. /\ UNCHANGED <<disk, rows, untouched>> /\ run.pc = "decide" /\ run'.pc = "decide"
        /\ g \in run.todo /\ run'.todo = run.todo \ {g} /\ run.todo \subseteq run.keep
    BY <1>0, <1>7, DecideEffect DEF Decide, PhaseInv
  <2>2. CASE f = g
    BY <1>7, <2>1, <2>2, DecisionIsRight DEF Followed
  <2>3. CASE f # g
    <3>1. /\ run'.seen[f] = run.seen[f]
          /\ f \in run'.keep <=> f \in run.keep
          /\ f \in run'.plan <=> f \in run.plan
      BY <1>0, <1>a, <1>7, <2>3, DecideEffect
    <3>2. QED BY <2>1, <2>3, <3>1 DEF Followed, Seen, Decided, UpToDate
  <2>4. QED BY <2>2, <2>3
<1>8. CASE Mark
  <2>1. /\ UNCHANGED <<disk, rows, untouched>> /\ run.pc = "decide" /\ run'.pc = "delete"
        /\ run.todo = {} /\ run'.keep = run.keep /\ run'.plan = run.plan
    BY <1>0, <1>8, MoveEffect DEF Mark, PCs
  <2>2. QED BY <2>1 DEF Followed, Decided, UpToDate
<1>9. CASE Delete
  <2>1. /\ UNCHANGED <<disk, untouched>> /\ run.pc = "delete" /\ run'.pc = "parse"
        /\ run.plan \subseteq run.keep /\ run'.plan = run.plan /\ run'.todo = run.plan
        /\ \A g \in Sources : rows'[g] = IF g \in Dropped THEN Absent ELSE rows[g]
    BY <1>0, <1>9, DeleteEffect DEF Delete, WriteRows, PhaseInv
  <2>2. Decided(f)
    BY <2>1 DEF Followed
  <2>3. CASE disk[f].kind = "plain"
    BY <1>a, <2>1, <2>2, <2>3 DEF Decided, Handled, UpToDate, Dropped
  <2>4. CASE disk[f].kind \in {"gone", "minified"}
    <3>1. f \notin run.keep /\ f \notin run'.plan
      BY <2>1, <2>2, <2>4 DEF Decided
    <3>2. rows'[f] = Absent
      BY <1>a, <2>1, <3>1 DEF Dropped
    <3>3. QED BY <2>1, <2>4, <3>1, <3>2 DEF Handled
  <2>5. CASE disk[f].kind = "unreadable"
    BY <2>1, <2>5 DEF Handled
  <2>6. QED BY <1>0, <1>a, <2>1, <2>3, <2>4, <2>5 DEF Kinds
<1>10. ASSUME NEW g \in Sources, ParseStat(g) PROVE Goal
  <2>1. /\ UNCHANGED <<disk, rows, untouched>> /\ run.pc = "parse" /\ run'.pc = "parse"
        /\ run.todo \subseteq run.plan /\ run'.plan = run.plan /\ g \in run.todo
        /\ disk[g].kind # "gone" => run'.todo = run.todo
        /\ run'.todo \in {run.todo, run.todo \ {g}}
        /\ \A h \in Sources \ {g} : run'.parsed[h] = run.parsed[h]
    BY <1>0, <1>10, ParseStatEffect DEF ParseStat, PhaseInv, Runs
  <2>2. Handled(f)
    BY <2>1 DEF Followed
  <2>3. QED BY <1>a, <2>1, <2>2 DEF Handled, UpToDate
<1>11. ASSUME NEW g \in Sources, ParseRead(g) PROVE Goal
  <2>1. /\ UNCHANGED <<disk, rows, untouched>> /\ run.pc = "parse" /\ run'.pc = "parse"
        /\ run.todo \subseteq run.plan /\ run'.plan = run.plan /\ g \in run.todo
        /\ run'.todo = run.todo \ {g}
        /\ run'.parsed = [run.parsed EXCEPT ![g] = Reads(g)]
    BY <1>0, <1>11, ParseReadEffect DEF ParseRead, PhaseInv
  <2>a. /\ run'.parsed[g] = Reads(g)
        /\ \A h \in Sources \ {g} : run'.parsed[h] = run.parsed[h]
    BY <1>0, <2>1 DEF Runs
  <2>2. Handled(f)
    BY <2>1 DEF Followed
  <2>3. disk[g].kind = "plain" =>
          Reads(g).state = "parsed" /\ Reads(g).row.content = disk[g].version
    BY DEF Reads, Parsed
  <2>4. CASE f = g
    <3>1. f \in run.plan
      BY <2>1, <2>4
    <3>2. CASE disk[f].kind = "plain"
      BY <2>1, <2>a, <2>3, <2>4, <3>2 DEF Handled
    <3>3. CASE disk[f].kind = "unreadable"
      BY <2>1, <3>3 DEF Handled
    <3>4. QED BY <1>0, <1>a, <2>2, <3>1, <3>2, <3>3 DEF Handled, Kinds
  <2>5. CASE f # g
    BY <1>a, <2>1, <2>a, <2>2, <2>5 DEF Handled, UpToDate
  <2>6. QED BY <2>4, <2>5
<1>12. CASE Write
  <2>1. /\ UNCHANGED <<disk, untouched>> /\ run.pc = "parse" /\ run'.pc = "complete"
        /\ run.todo = {}
        /\ \A g \in Sources : rows'[g] = IF g \in Written THEN run.parsed[g].row ELSE rows[g]
    BY <1>0, <1>12, MoveEffect DEF Write, WriteRows, PCs
  <2>2. Handled(f)
    BY <2>1 DEF Followed
  <2>3. UpToDate(f) => rows[f].content = disk[f].version
    BY <1>a DEF RowInv, RowsAgree, Agrees, UpToDate
  <2>4. run.parsed[f].state = "parsed" => run.parsed[f] # Unparsed /\ run.parsed[f].row # Absent
    BY <1>0, <1>a, AttemptsDiffer, AbsentAssumption DEF Runs
  <2>5. CASE disk[f].kind = "plain" /\ f \in run.plan
    <3>1. run.parsed[f].state = "parsed" /\ run.parsed[f].row.content = disk[f].version
      BY <2>1, <2>2, <2>5 DEF Handled
    <3>2. rows'[f] = run.parsed[f].row
      BY <1>a, <2>1, <2>4, <2>5, <3>1 DEF Written
    <3>3. QED BY <2>1, <2>4, <2>5, <3>1, <3>2 DEF Exact
  <2>6. CASE disk[f].kind = "plain" /\ f \notin run.plan
    BY <1>a, <2>1, <2>2, <2>3, <2>6 DEF Handled, Exact, Written, UpToDate
  <2>7. CASE disk[f].kind \in {"gone", "minified"}
    BY <1>a, <2>1, <2>2, <2>7 DEF Handled, Exact, Written
  <2>8. CASE disk[f].kind = "unreadable"
    BY <2>1, <2>8 DEF Exact
  <2>9. QED BY <1>0, <1>a, <2>5, <2>6, <2>7, <2>8 DEF Kinds
<1>13. ASSUME UNCHANGED <<disk, rows, untouched>>,
              run.pc \notin {"idle", "list", "stat", "decide", "delete", "parse"},
              run'.pc \notin {"idle", "list", "stat", "decide", "delete", "parse"}
       PROVE  Goal
  BY <1>13 DEF Followed, Exact
<1>14. CASE Complete
  BY <1>0, <1>13, <1>14, MoveEffect DEF Complete, PCs
<1>15. CASE RecordFilter
  BY <1>0, <1>13, <1>15, RecordEffect DEF RecordFilter
<1>16. CASE CompareFingerprint
  BY <1>0, <1>13, <1>16, CompareEffect DEF CompareFingerprint
<1>17. CASE ModuleStep
  <2>1. UNCHANGED <<disk, rows, untouched>>
    BY <1>17 DEF ModuleStep, AssumeDerived, SyncModules, IndexDependencies, BuildTransitive,
         StoreFingerprint, Derive, derivation
  <2>2. QED BY <1>0, <1>13, <1>17, <2>1, DeriveEffect
<1>18. CASE Return \/ Crash
  BY <1>18 DEF Return, Crash
<1>19. QED
  BY <1>1, <1>2, <1>3, <1>4, <1>5, <1>6, <1>7, <1>8, <1>9, <1>10, <1>11, <1>12, <1>14,
     <1>15, <1>16, <1>17, <1>18 DEF Next, UpdateStep, ModuleStep

LEMMA StepKeepsCovered ==
  RowInv /\ Followed /\ CoveredInv /\ [Next]_vars => CoveredInv'
<1> SUFFICES ASSUME RowInv, Followed, CoveredInv, [Next]_vars PROVE CoveredInv'
  OBVIOUS
<1>0. /\ run \in Runs /\ build \in Versions /\ PhaseInv /\ run.pc \in PCs
      /\ \A g \in Sources : disk[g].version \in Versions /\ disk[g].kind \in Kinds
      /\ \A g \in Sources : StatOf(g) \in Versions \cup {NoStat}
      /\ untouched \in SUBSET Sources /\ covered \in SUBSET Sources
  BY DEF RowInv, Types, RunTypes, StoreTypes, StatOf, Runs
<1> USE DEF tables, files, touched, Looks
<1>1. ASSUME UNCHANGED <<disk, rows, untouched, covered>>,
             run'.pc # "idle" => run.pc # "idle"
      PROVE  CoveredInv'
  BY <1>1 DEF CoveredInv, ReturnedMeansIndexed, Exact
<1>2. ASSUME NEW f \in Sources, Edit(f) PROVE CoveredInv'
  <2>1. /\ UNCHANGED <<rows, run>> /\ \A g \in Sources \ {f} : disk'[g] = disk[g]
        /\ covered' = covered \ {f} /\ untouched' = untouched \ {f}
    BY <1>2, EditEffect DEF RowInv, Edit
  <2>2. QED BY <1>0, <2>1 DEF CoveredInv, ReturnedMeansIndexed, Exact
<1>3. CASE EditBuild \/ GraphStep \/ UNCHANGED vars
  BY <1>1, <1>3 DEF EditBuild, GraphStep, ReadGeneration, ReadFiles, ReadSource, ReadSymbols, ReadRefs, StoreGraph,
                BuilderMoves, vars
<1>4. CASE StartUpdate
  <2>1. UNCHANGED <<disk, rows, covered>> /\ untouched' = Sources
    BY <1>4 DEF StartUpdate
  <2>2. QED BY <1>0, <2>1 DEF CoveredInv, ReturnedMeansIndexed, Exact
<1>5. CASE ListFiles \/ AllStatted
  BY <1>0, <1>1, <1>5, WalkEffects DEF ListFiles, AllStatted
<1>6. ASSUME NEW f \in Sources, Stat(f) \/ Decide(f) \/ ParseStat(f) \/ ParseRead(f)
      PROVE  CoveredInv'
  <2>1. UNCHANGED <<disk, rows, untouched, covered>>
    BY <1>6 DEF Stat, Decide, ParseStat, ParseRead
  <2>2. run.pc # "idle"
    BY <1>6 DEF Stat, Decide, ParseStat, ParseRead, Reading
  <2>3. QED BY <1>1, <2>1, <2>2
<1>7. CASE Mark \/ Complete
  BY <1>1, <1>7 DEF Mark, Complete, Move
<1>8. CASE Delete
  <2>1. /\ UNCHANGED <<disk, untouched, covered>> /\ run.pc = "delete"
        /\ \A g \in Sources : rows'[g] = IF g \in Dropped THEN Absent ELSE rows[g]
    BY <1>8 DEF Delete, WriteRows
  <2>2. ASSUME NEW f \in covered PROVE Exact(f)'
    <3>1. f \in untouched /\ Exact(f) /\ Decided(f) /\ f \in Sources
      BY <1>0, <2>1 DEF CoveredInv, ReturnedMeansIndexed, Followed
    <3>2. disk[f].kind = "plain" => f \notin Dropped
      BY <3>1 DEF Decided, Dropped
    <3>3. QED BY <1>0, <2>1, <3>1, <3>2 DEF Exact, Kinds
  <2>3. QED BY <2>1, <2>2 DEF CoveredInv, ReturnedMeansIndexed
<1>9. CASE Write
  <2>1. /\ UNCHANGED <<disk, untouched, covered>> /\ run.pc = "parse"
        /\ run'.pc = "complete"
    BY <1>0, <1>9, MoveEffect DEF Write, WriteRows, PCs
  <2>2. Followed'
    BY StepKeepsFollowed
  <2>3. covered \subseteq untouched
    BY <2>1 DEF CoveredInv
  <2>4. QED BY <2>1, <2>2, <2>3 DEF CoveredInv, ReturnedMeansIndexed, Followed
<1>10. CASE RecordFilter \/ CompareFingerprint
  BY <1>0, <1>1, <1>10 DEF RecordFilter, CompareFingerprint
<1>11. CASE ModuleStep
  <2>1. UNCHANGED <<disk, rows, untouched, covered>> /\ run.pc # "idle"
    BY <1>11 DEF ModuleStep, AssumeDerived, SyncModules, IndexDependencies, BuildTransitive,
         StoreFingerprint, Derive, derivation, Move
  <2>2. QED BY <1>1, <2>1
<1>12. CASE Return
  <2>1. /\ UNCHANGED <<disk, rows>> /\ covered' = untouched /\ run.pc = "return"
        /\ run'.pc = "idle"
    BY <1>12, NoRunEffect DEF Return
  <2>2. QED BY <2>1 DEF CoveredInv, ReturnedMeansIndexed, Followed, Exact
<1>13. CASE Crash
  BY <1>13, NoRunEffect DEF Crash, CoveredInv, ReturnedMeansIndexed, Exact
<1>14. QED
  BY <1>2, <1>3, <1>4, <1>5, <1>6, <1>7, <1>8, <1>9, <1>10, <1>11, <1>12, <1>13
     DEF Next, UpdateStep, ModuleStep

\* A file that was not touched since an update began that has returned is in
\* the index as it is on disk, whatever happened to other files and however
\* many updates were killed.
THEOREM ReturnedUpdateIndexed == Spec => []ReturnedMeansIndexed
<1>1. Init => Followed /\ CoveredInv
  BY NoRunEffect DEF Init, Followed, CoveredInv, ReturnedMeansIndexed
<1>2. RowInv /\ Followed /\ CoveredInv /\ [Next]_vars => Followed' /\ CoveredInv'
  BY StepKeepsFollowed, StepKeepsCovered
<1>3. CoveredInv => ReturnedMeansIndexed
  BY DEF CoveredInv
<1>4. QED
  BY <1>1, <1>2, <1>3, RowInvariant, PTL DEF Spec

(***************************************************************************)
(* The marker.                                                             *)
(***************************************************************************)
LEMMA OwedQuiet ==
  ASSUME OwedInv, UNCHANGED <<owed, dirty>>,
         run'.pc \notin {"delete", "parse", "complete"}
  PROVE  OwedInv'
BY DEF OwedInv, HalfAppliedIsDirty

LEMMA StepKeepsOwed == Types /\ OwedInv /\ [Next]_vars => OwedInv'
<1> SUFFICES ASSUME Types, OwedInv, [Next]_vars PROVE OwedInv'
  OBVIOUS
<1>0. /\ run \in Runs /\ build \in Versions /\ PhaseInv
      /\ \A g \in Sources : disk[g].version \in Versions
      /\ \A g \in Sources : StatOf(g) \in Versions \cup {NoStat}
  BY DEF Types, RunTypes, StoreTypes, StatOf
<1> USE DEF tables, markers, Looks
<1>1. ASSUME UNCHANGED <<owed, dirty, rows, run>> PROVE OwedInv'
  BY <1>1 DEF OwedInv, HalfAppliedIsDirty, Dropped, Written
<1>2. CASE EditBuild \/ GraphStep \/ UNCHANGED vars
  BY <1>1, <1>2 DEF EditBuild, GraphStep, ReadGeneration, ReadFiles, ReadSource, ReadSymbols, ReadRefs, StoreGraph,
                BuilderMoves, vars
<1>3. ASSUME NEW f \in Sources, Edit(f) PROVE OwedInv'
  BY <1>1, <1>3 DEF Edit
<1>4. CASE StartUpdate
  BY <1>0, <1>4, MoveEffect, OwedQuiet DEF StartUpdate, PCs
<1>5. CASE ListFiles \/ AllStatted
  BY <1>0, <1>5, WalkEffects, OwedQuiet DEF ListFiles, AllStatted
<1>6. ASSUME NEW f \in Sources, Stat(f) PROVE OwedInv'
  BY <1>0, <1>6, StatEffect, OwedQuiet DEF Stat
<1>7. ASSUME NEW f \in Sources, Decide(f) PROVE OwedInv'
  BY <1>0, <1>7, DecideEffect, OwedQuiet DEF Decide
<1>8. CASE Mark
  <2>1. /\ owed' = run.plan \cup Dropped /\ UNCHANGED rows
        /\ dirty' = (dirty \/ run.plan \cup Dropped # {})
        /\ run'.pc = "delete" /\ run'.plan = run.plan /\ run'.keep = run.keep
    BY <1>0, <1>8, MoveEffect DEF Mark, PCs
  <2>2. Dropped' = Dropped
    BY <2>1 DEF Dropped
  <2>3. QED BY <2>1, <2>2 DEF OwedInv, HalfAppliedIsDirty
<1>9. CASE Delete
  <2>1. /\ owed = run.plan \cup Dropped /\ owed' = owed \ Dropped /\ dirty' = dirty
        /\ run'.pc = "parse" /\ run'.plan = run.plan /\ run.plan \subseteq run.keep
    BY <1>0, <1>9, DeleteEffect DEF Delete, OwedInv, PhaseInv
  <2>2. run.plan \cap Dropped = {}
    BY <2>1 DEF Dropped
  <2>3. QED BY <2>1, <2>2 DEF OwedInv, HalfAppliedIsDirty
<1>10. ASSUME NEW f \in Sources, ParseStat(f) \/ ParseRead(f) PROVE OwedInv'
  <2>1. /\ UNCHANGED <<owed, dirty>> /\ run.pc = "parse" /\ run'.pc = "parse"
        /\ run'.plan = run.plan
    BY <1>0, <1>10, ParseStatEffect, ParseReadEffect DEF ParseStat, ParseRead
  <2>2. QED BY <2>1 DEF OwedInv, HalfAppliedIsDirty
<1>11. CASE Write
  <2>1. /\ owed = run.plan /\ owed' = owed \ Written /\ dirty' = dirty
        /\ run'.pc = "complete" /\ run'.plan = run.plan /\ run'.parsed = run.parsed
    BY <1>0, <1>11, MoveEffect DEF Write, OwedInv, PCs
  <2>2. Written' = Written
    BY <2>1 DEF Written
  <2>3. QED BY <2>1, <2>2 DEF OwedInv, HalfAppliedIsDirty
<1>12. CASE Complete
  <2>1. /\ owed = run.plan \ Written /\ owed' = owed
        /\ dirty' = (dirty /\ Written # run.plan) /\ run'.pc = "record"
    BY <1>0, <1>12, MoveEffect DEF Complete, OwedInv, PCs
  <2>2. QED BY <2>1 DEF OwedInv, HalfAppliedIsDirty
<1>13. CASE RecordFilter
  BY <1>0, <1>13, RecordEffect, OwedQuiet DEF RecordFilter
<1>14. CASE CompareFingerprint
  BY <1>0, <1>14, CompareEffect, OwedQuiet DEF CompareFingerprint
<1>15. CASE ModuleStep
  <2>1. UNCHANGED <<owed, dirty>>
    BY <1>15 DEF ModuleStep, AssumeDerived, SyncModules, IndexDependencies, BuildTransitive,
         StoreFingerprint, Derive, derivation
  <2>2. QED BY <1>0, <1>15, <2>1, DeriveEffect, OwedQuiet
<1>16. CASE Return \/ Crash
  BY <1>16, NoRunEffect, OwedQuiet DEF Return, Crash
<1>17. QED
  BY <1>2, <1>3, <1>4, <1>5, <1>6, <1>7, <1>8, <1>9, <1>10, <1>11, <1>12, <1>13, <1>14,
     <1>15, <1>16 DEF Next, UpdateStep, ModuleStep

LEMMA TypeInvariant == Spec => []Types
BY InitialTypes, StepKeepsAllTypes, PTL DEF Spec

LEMMA OwedInvariant == Spec => []OwedInv
<1>1. Init => OwedInv
  BY NoRunEffect DEF Init, OwedInv, HalfAppliedIsDirty
<1>2. QED
  BY <1>1, StepKeepsOwed, TypeInvariant, PTL DEF Spec

\* A change that an update had planned and not stored is never forgotten: the
\* marker is there until it is stored or no longer needed.
THEOREM HalfAppliedIsMarked == Spec => []HalfAppliedIsDirty
<1>1. OwedInv => HalfAppliedIsDirty
  BY DEF OwedInv
<1>2. QED
  BY <1>1, OwedInvariant, PTL

(***************************************************************************)
(* The module graph.                                                       *)
(***************************************************************************)
LEMMA StepKeepsDerived == Types /\ DerivedInv /\ [Next]_vars => DerivedInv'
<1> SUFFICES ASSUME Types, DerivedInv, [Next]_vars PROVE DerivedInv'
  OBVIOUS
<1>0. /\ run \in Runs /\ build \in Versions /\ build \in Int
      /\ modules \in Derivations /\ Absent \notin Nat
      /\ \A g \in Sources : disk[g].version \in Versions
      /\ \A g \in Sources : StatOf(g) \in Versions \cup {NoStat}
  BY UpdateAssumption, AbsentAssumption DEF Types, RunTypes, StoreTypes, StatOf, Versions
<1> USE DEF files, Looks, derivation
<1>1. ASSUME UNCHANGED <<build, derivation>>,
             \/ UNCHANGED run
             \/ run'.pc \notin {"assume", "modules", "deps", "closure", "store"}
      PROVE  DerivedInv'
  BY <1>1 DEF DerivedInv, FingerprintMeansDerived
<1>2. CASE GraphStep \/ UNCHANGED vars
  BY <1>1, <1>2 DEF GraphStep, ReadGeneration, ReadFiles, ReadSource, ReadSymbols, ReadRefs, StoreGraph,
                BuilderMoves, vars
<1>3. ASSUME NEW f \in Sources, Edit(f) PROVE DerivedInv'
  BY <1>1, <1>3 DEF Edit
<1>4. CASE EditBuild
  <2>1. /\ build' = build + 1 /\ UNCHANGED <<modules, derived, run>>
    BY <1>4 DEF EditBuild
  <2>2. /\ modules.fingerprint \in 0..build \cup {Absent} /\ modules.list \in 0..build
        /\ modules.deps \in 0..build /\ modules.closure \in 0..build
    BY DEF DerivedInv
  <2>3. run.pc \in {"assume", "modules", "deps", "closure", "store"} => run.build \in 1..build
    BY DEF DerivedInv
  <2>4. modules.fingerprint # build'
    BY <1>0, <2>1, <2>2
  <2>5. QED BY <1>0, <2>1, <2>2, <2>3, <2>4 DEF DerivedInv, FingerprintMeansDerived
<1>5. CASE StartUpdate
  BY <1>0, <1>1, <1>5, MoveEffect DEF StartUpdate, PCs
<1>6. CASE ListFiles \/ AllStatted
  BY <1>0, <1>1, <1>6, WalkEffects DEF ListFiles, AllStatted
<1>7. ASSUME NEW f \in Sources, Stat(f) PROVE DerivedInv'
  BY <1>0, <1>1, <1>7, StatEffect DEF Stat
<1>8. ASSUME NEW f \in Sources, Decide(f) PROVE DerivedInv'
  BY <1>0, <1>1, <1>8, DecideEffect DEF Decide
<1>9. CASE Mark
  BY <1>0, <1>1, <1>9, MoveEffect DEF Mark, PCs
<1>10. CASE Delete
  BY <1>0, <1>1, <1>10, DeleteEffect DEF Delete
<1>11. ASSUME NEW f \in Sources, ParseStat(f) \/ ParseRead(f) PROVE DerivedInv'
  BY <1>0, <1>1, <1>11, ParseStatEffect, ParseReadEffect DEF ParseStat, ParseRead
<1>12. CASE Write
  BY <1>0, <1>1, <1>12, MoveEffect DEF Write, PCs
<1>13. CASE Complete
  BY <1>0, <1>1, <1>13, MoveEffect DEF Complete, PCs
<1>14. CASE RecordFilter
  BY <1>0, <1>1, <1>14, RecordEffect DEF RecordFilter
<1>15. CASE CompareFingerprint
  <2>1. /\ UNCHANGED <<build, modules, derived>> /\ run'.build = build
        /\ run'.pc \in {"assume", "return", "modules"}
        /\ run'.pc = "modules" => modules.fingerprint # build
    BY <1>0, <1>15, CompareEffect DEF CompareFingerprint
  <2>2. build \in 1..build
    BY <1>0 DEF Versions
  <2>3. QED BY <2>1, <2>2 DEF DerivedInv, FingerprintMeansDerived
<1>16. CASE SyncModules
  <2>1. /\ run.pc = "modules" /\ run'.pc = "deps" /\ run'.build = run.build /\ build' = build
        /\ modules' = [modules EXCEPT !.list = build] /\ derived' = derived
    BY <1>0, <1>16, MoveEffect DEF SyncModules, Derive, PCs
  <2>2. QED BY <1>0, <2>1 DEF DerivedInv, FingerprintMeansDerived, Versions, Derivations
<1>17. CASE IndexDependencies
  <2>1. /\ run.pc = "deps" /\ run'.pc = "closure" /\ run'.build = run.build /\ build' = build
        /\ modules' = [modules EXCEPT !.deps = build] /\ derived' = derived
    BY <1>0, <1>17, MoveEffect DEF IndexDependencies, Derive, PCs
  <2>2. QED BY <1>0, <2>1 DEF DerivedInv, FingerprintMeansDerived, Versions, Derivations
<1>18. CASE BuildTransitive
  <2>1. /\ run.pc = "closure" /\ run'.pc = "store" /\ run'.build = run.build /\ build' = build
        /\ modules' = [modules EXCEPT !.closure = modules.deps] /\ derived' = derived
    BY <1>0, <1>18, MoveEffect DEF BuildTransitive, Derive, PCs
  <2>2. QED BY <1>0, <2>1 DEF DerivedInv, FingerprintMeansDerived, Versions, Derivations
<1>19. CASE StoreFingerprint
  <2>1. /\ run.pc = "store" /\ run'.pc = "return" /\ run'.build = run.build /\ build' = build
        /\ modules' = [modules EXCEPT !.fingerprint = run.build] /\ derived' = TRUE
    BY <1>0, <1>19, MoveEffect DEF StoreFingerprint, Derive, PCs
  <2>2. QED BY <1>0, <2>1 DEF DerivedInv, FingerprintMeansDerived, Versions, Derivations
<1>20. CASE AssumeDerived
  <2>1. /\ run.pc = "assume" /\ run'.pc = "return" /\ build' = build
        /\ modules' = [modules EXCEPT !.fingerprint = run.build] /\ derived' = FALSE
    BY <1>0, <1>20, MoveEffect DEF AssumeDerived, Derive, PCs
  <2>2. QED BY <1>0, <2>1 DEF DerivedInv, FingerprintMeansDerived, Versions, Derivations
<1>21. CASE Return \/ Crash
  BY <1>1, <1>21, NoRunEffect DEF Return, Crash
<1>22. QED
  BY <1>2, <1>3, <1>4, <1>5, <1>6, <1>7, <1>8, <1>9, <1>10, <1>11, <1>12, <1>13, <1>14,
     <1>15, <1>16, <1>17, <1>18, <1>19, <1>20, <1>21 DEF Next, UpdateStep, ModuleStep

LEMMA InitialDerived == Init => DerivedInv
<1> SUFFICES ASSUME Init PROVE DerivedInv
  OBVIOUS
<1>1. PICK index \in Indexes : modules = index.modules
  BY DEF Init
<1>2. modules \in LeftModules
  BY <1>1, IndexesAssumption
<1>3. /\ modules.fingerprint \in {Absent, Older, 1}
      /\ {modules.list, modules.deps, modules.closure} \subseteq {Older, 1}
  BY <1>2 DEF LeftModules
<1>4. build = 1 /\ run.pc = "idle"
  BY NoRunEffect DEF Init
<1>5. derived => IsDerived(modules)
  BY Zenon DEF Init
<1>6. FingerprintMeansDerived
  BY <1>5 DEF FingerprintMeansDerived, IsDerived
<1>7. QED BY <1>3, <1>4, <1>6 DEF DerivedInv, Older

\* If the graph was derived when the fingerprint on record was, by an update
\* or by a rebuild that no edit disturbed, and the build files still have it,
\* then the whole module graph is theirs, wherever updates were killed and
\* whenever build files were edited.  An index whose first fingerprint was
\* taken without deriving anything is not covered until the next derivation.
THEOREM FingerprintIsLast == Spec => []FingerprintMeansDerived
<1>1. DerivedInv => FingerprintMeansDerived
  BY DEF DerivedInv
<1>2. QED
  BY <1>1, InitialDerived, StepKeepsDerived, TypeInvariant, PTL DEF Spec

(***************************************************************************)
(* The symbol graph.                                                       *)
(***************************************************************************)
\* Whoever changes a row counts the change.
LEMMA WritesAreCounted ==
  ASSUME Types, Delete \/ Write
  PROVE  /\ generation' \in {generation, generation + 1}
         /\ generation' = generation => writes' = writes /\ rows' = rows
         /\ UNCHANGED <<disk, builder, graph>>
<1>0. rows = [f \in Sources |-> rows[f]]
  BY DEF Types, StoreTypes
<1>a. generation \in Nat
  BY DEF Types, StoreTypes
<1>1. ASSUME NEW new, NEW counted \in BOOLEAN, WriteRows(new, counted), new # rows => counted
      PROVE  /\ generation' \in {generation, generation + 1}
             /\ generation' = generation => writes' = writes /\ rows' = rows
  BY <1>a, <1>1 DEF WriteRows
<1>2. CASE Delete
  <2> DEFINE new == [f \in Sources |-> IF f \in Dropped THEN Absent ELSE rows[f]]
  <2>1. Dropped = {} => new = rows
    BY <1>0
  <2>2. WriteRows(new, Dropped # {})
    BY <1>2 DEF Delete
  <2>3. QED BY <1>1, <1>2, <2>1, <2>2 DEF Delete, files
<1>3. CASE Write
  <2> DEFINE new == [f \in Sources |-> IF f \in Written THEN run.parsed[f].row ELSE rows[f]]
  <2>1. Written = {} => new = rows
    BY <1>0
  <2>2. WriteRows(new, Written # {})
    BY <1>3 DEF Write
  <2>3. QED BY <1>1, <1>3, <2>1, <2>2 DEF Write, files
<1>4. QED BY <1>2, <1>3

\* A file that is edited has a row of an older version, if any.
LEMMA EditOutdates ==
  ASSUME Types, RowsAgree, NEW f \in Sources, Edit(f), NEW imports, NEW g \in Sources,
         ImportsOfRow(imports, g)
  PROVE  ImportsOfRow(imports, g)'
<1>1. /\ disk'[f].version = disk[f].version + 1
      /\ \A h \in Sources \ {f} : disk'[h] = disk[h]
      /\ UNCHANGED rows
  BY EditEffect
<1>2. rows[f] # Absent => rows[f].content \in Int /\ rows[f].content <= disk[f].version
  BY DEF RowsAgree, Agrees, Types, StoreTypes, Rows, Versions
<1>3. disk[f].version \in Int
  BY DEF Types, StoreTypes, Versions
<1>4. rows'[f] # Absent => rows'[f].content # disk'[f].version
  BY <1>1, <1>2, <1>3
<1>5. QED BY <1>1, <1>4 DEF ImportsOfRow

LEMMA StepKeepsGraph == Types /\ RowsAgree /\ GraphInv /\ [Next]_vars => GraphInv'
<1> SUFFICES ASSUME Types, RowsAgree, GraphInv, [Next]_vars PROVE GraphInv'
  OBVIOUS
<1>0. /\ generation \in Nat /\ writes \in Nat
      /\ builder \in Builders /\ graph \in Graphs \cup {Absent}
  BY DEF Types, StoreTypes
<1> USE DEF tables, files, Looks
<1>1. ASSUME UNCHANGED <<generation, writes, builder, graph, rows, disk>> PROVE GraphInv'
  BY <1>1 DEF GraphInv, BuilderInv, StoredInv, ImportsOfRow
<1>2. CASE Delete \/ Write
  <2>1. /\ generation' \in {generation, generation + 1}
        /\ generation' = generation => writes' = writes /\ rows' = rows
        /\ UNCHANGED <<disk, builder, graph>>
    BY <1>2, WritesAreCounted
  <2>2. builder.generation \in Nat /\ (graph # Absent => graph.generation \in Nat)
    BY <1>0 DEF Builders, Graphs
  <2>3. CASE generation' = generation
    BY <1>1, <2>1, <2>3
  <2>4. CASE generation' = generation + 1
    BY <1>0, <2>1, <2>2, <2>4 DEF GraphInv
  <2>5. QED BY <2>1, <2>3, <2>4
<1>3. ASSUME UNCHANGED <<generation, writes, rows, disk, graph>>,
             builder'.generation <= generation,
             builder'.generation = generation => BuilderInv'
      PROVE  GraphInv'
  BY <1>3 DEF GraphInv, StoredInv, ImportsOfRow
<1>4. CASE ReadGeneration
  <2>1. /\ UNCHANGED <<generation, writes, rows, disk, graph>>
        /\ builder' = [builder EXCEPT !.pc = "files", !.generation = generation]
    BY <1>4 DEF ReadGeneration, BuilderMoves
  <2>2. builder'.pc = "files" /\ builder'.generation = generation
    BY <1>0, <2>1 DEF Builders
  <2>3. QED BY <1>0, <1>3, <2>1, <2>2 DEF BuilderInv
<1>5. CASE ReadFiles
  <2>1. /\ UNCHANGED <<generation, writes, rows, disk, graph>>
        /\ builder' = [builder EXCEPT !.pc = "sources", !.files = writes,
                                      !.todo = {f \in Sources : rows[f] # Absent}]
    BY <1>5 DEF ReadFiles, BuilderMoves
  <2>2. /\ builder'.pc = "sources" /\ builder'.generation = builder.generation
        /\ builder'.files = writes /\ builder'.todo = {f \in Sources : rows[f] # Absent}
    BY <1>0, <2>1 DEF Builders
  <2>3. QED BY <1>3, <2>1, <2>2 DEF GraphInv, BuilderInv, ImportsOfRow
<1>6. ASSUME NEW f \in Sources, ReadSource(f) PROVE GraphInv'
  <2>1. /\ UNCHANGED <<generation, writes, rows, disk, graph>>
        /\ builder.pc = "sources"
        /\ builder' = [builder EXCEPT !.todo = @ \ {f}, !.imports[f] = disk[f].version]
    BY <1>6 DEF ReadSource, BuilderMoves
  <2>2. /\ builder'.pc = "sources" /\ builder'.generation = builder.generation
        /\ builder'.files = builder.files /\ builder'.todo = builder.todo \ {f}
        /\ builder'.imports[f] = disk[f].version
        /\ \A g \in Sources \ {f} : builder'.imports[g] = builder.imports[g]
    BY <1>0, <2>1 DEF Builders, Imports
  <2>3. QED BY <1>3, <2>1, <2>2 DEF GraphInv, BuilderInv, ImportsOfRow
<1>7. CASE ReadSymbols
  <2>1. /\ UNCHANGED <<generation, writes, rows, disk, graph>>
        /\ builder.pc = "sources" /\ builder.todo = {}
        /\ builder' = [builder EXCEPT !.pc = "refs", !.symbols = writes]
    BY <1>7 DEF ReadSymbols, BuilderMoves
  <2>2. /\ builder'.pc = "refs" /\ builder'.symbols = writes
        /\ UNCHANGED <<builder.generation, builder.files, builder.todo, builder.imports>>
    BY <1>0, <2>1 DEF Builders
  <2>3. QED BY <1>3, <2>1, <2>2 DEF GraphInv, BuilderInv, ImportsOfRow
<1>8. CASE ReadRefs
  <2>1. /\ UNCHANGED <<generation, writes, rows, disk, graph>> /\ builder.pc = "refs"
        /\ builder' = [builder EXCEPT !.pc = "store", !.refs = writes]
    BY <1>8 DEF ReadRefs, BuilderMoves
  <2>2. /\ builder'.pc = "store" /\ builder'.refs = writes
        /\ UNCHANGED <<builder.generation, builder.files, builder.todo, builder.imports,
                       builder.symbols>>
    BY <1>0, <2>1 DEF Builders
  <2>3. QED BY <1>3, <2>1, <2>2 DEF GraphInv, BuilderInv, ImportsOfRow
<1>9. CASE StoreGraph
  <2>1. /\ UNCHANGED <<generation, writes, rows, disk>>
        /\ builder.pc = "store" /\ builder' = NotBuilding
        /\ graph' = [generation |-> builder.generation, files |-> builder.files,
                     imports |-> builder.imports, symbols |-> builder.symbols,
                     refs |-> builder.refs]
    BY <1>9 DEF StoreGraph, BuilderMoves
  <2>2. builder'.pc = "idle" /\ builder'.generation = 0
    BY <2>1 DEF NotBuilding
  <2>3. builder.generation <= generation
    BY DEF GraphInv
  <2>4. builder.generation = generation => StoredInv'
    BY <2>1 DEF GraphInv, BuilderInv, StoredInv, ImportsOfRow
  <2>5. QED BY <1>0, <2>1, <2>2, <2>3, <2>4 DEF GraphInv, BuilderInv
<1>10. ASSUME NEW f \in Sources, Edit(f) PROVE GraphInv'
  <2>1. UNCHANGED <<generation, writes, rows, builder, graph>>
    BY <1>10 DEF Edit
  <2>2. BuilderInv => BuilderInv'
    BY <1>10, <2>1, EditOutdates DEF BuilderInv
  <2>3. graph # Absent /\ StoredInv => StoredInv'
    BY <1>10, <2>1, EditOutdates DEF StoredInv
  <2>4. QED BY <2>1, <2>2, <2>3 DEF GraphInv
<1>11. CASE EditBuild \/ StartUpdate \/ Return \/ Crash \/ UNCHANGED vars
  BY <1>1, <1>11 DEF EditBuild, StartUpdate, Return, Crash, vars
<1>12. ASSUME NEW f \in Sources, Stat(f) \/ Decide(f) \/ ParseStat(f) \/ ParseRead(f)
       PROVE  GraphInv'
  BY <1>1, <1>12 DEF Stat, Decide, ParseStat, ParseRead
<1>13. CASE ListFiles \/ AllStatted \/ Mark \/ Complete \/ RecordFilter \/ CompareFingerprint
  BY <1>1, <1>13 DEF ListFiles, AllStatted, Mark, Complete, RecordFilter, CompareFingerprint
<1>14. CASE ModuleStep
  BY <1>1, <1>14 DEF ModuleStep, AssumeDerived, SyncModules, IndexDependencies,
                     BuildTransitive, StoreFingerprint, Derive
<1>15. QED
  BY <1>2, <1>4, <1>5, <1>6, <1>7, <1>8, <1>9, <1>10, <1>11, <1>12, <1>13, <1>14
     DEF Next, UpdateStep, GraphStep, ModuleStep

\* A symbol graph that passes for fresh was built from the rows that are in
\* the index now, all of them, and none of them is half of an update; and what
\* it read from a source itself is what the row was made of, unless the source
\* has been edited since.
THEOREM FreshGraphIsThatOfTheRows == Spec => []FreshGraphIsExact
<1>1. Init => GraphInv
  BY DEF Init, GraphInv, BuilderInv, NotBuilding
<1>2. OwedInv /\ GraphInv => FreshGraphIsExact
  BY DEF OwedInv, HalfAppliedIsDirty, GraphInv, StoredInv, ImportsOfRow, FreshGraphIsExact,
         GraphIsFresh
<1>3. RowInv => Types /\ RowsAgree
  BY DEF RowInv
<1>4. QED
  BY <1>1, <1>2, <1>3, StepKeepsGraph, OwedInvariant, RowInvariant, PTL DEF Spec
=============================================================================

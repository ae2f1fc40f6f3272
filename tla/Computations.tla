---------------------------- MODULE Computations ----------------------------
(***************************************************************************)
(* What commands compute once the index is there, and the threads and      *)
(* processes they use for it.  A behaviour is that of one program: the     *)
(* parse pipeline of a rebuild, a text search over a list of files or over *)
(* a walk, a reading of the log, a walk that gathers files, a session of   *)
(* the MCP server, a command of the version control system, the edges of   *)
(* the symbol graph, or one of the searches of the graphs of modules,      *)
(* symbols and callers.  They share nothing but the form of what they      *)
(* promise: an answer with a short definition, whatever the order of the   *)
(* steps, and an end.                                                      *)
(***************************************************************************)
EXTENDS Integers, Sequences, FiniteSets

CONSTANTS Threads, Capacity,
          Rebuilds, Searches, Scans, Readings, Walks, Sessions, Commands,
          Routes, Dependencies, MaxDepth, Builds, Counts, SymbolGraphs, Questions, Trees

VARIABLES program, job, shared, worker, channel, consumer, result

vars == <<program, job, shared, worker, channel, consumer, result>>

Write   == INSTANCE ParseAndWrite
Search  == INSTANCE TextSearch
Scan    == INSTANCE LimitedScan
Log     == INSTANCE LogWindows WITH slots <- channel
Walk    == INSTANCE WalkCollect
Serve   == INSTANCE ToolServer
Process == INSTANCE BoundedProcess
Graph   == INSTANCE SymbolEdges
Route   == INSTANCE ModuleRoute
Deps    == INSTANCE TransitiveDeps
Count   == INSTANCE Dependents
Cycles  == INSTANCE GraphCycles
Paths   == INSTANCE GraphPaths
Tree    == INSTANCE CallTree

ASSUME ComputationAssumption ==
  /\ Write!ParseAssumption /\ Search!SearchAssumption /\ Scan!ScanAssumption
  /\ Log!ReadingAssumption /\ Walk!WalkAssumption /\ Serve!SessionAssumption
  /\ Process!CommandAssumption /\ Graph!BuildAssumption /\ Route!RouteAssumption
  /\ Deps!DependencyAssumption /\ Count!CountAssumption
  /\ Cycles!GraphAssumption /\ Paths!QuestionAssumption /\ Tree!TreeAssumption

\* Computations of a single thread.
Serial   == {"route", "deps", "count", "cycles", "paths", "tree"}
Unshared == shared = 0 /\ worker = <<>> /\ channel = <<>>

Init ==
  \/ program = "write"   /\ Write!Init
  \/ program = "search"  /\ Search!Init
  \/ program = "scan"    /\ Scan!Init
  \/ program = "log"     /\ Log!Init
  \/ program = "walk"    /\ Walk!Init
  \/ program = "serve"   /\ Serve!Init
  \/ program = "process" /\ Process!Init
  \/ program = "graph"   /\ Graph!Init
  \/ program = "route"   /\ Route!Init  /\ Unshared
  \/ program = "deps"    /\ Deps!Init   /\ Unshared
  \/ program = "count"   /\ Count!Init  /\ Unshared
  \/ program = "cycles"  /\ Cycles!Init /\ Unshared
  \/ program = "paths"   /\ Paths!Init  /\ Unshared
  \/ program = "tree"    /\ Tree!Init   /\ Unshared

SerialStep ==
  /\ \/ program = "route"  /\ Route!Next
     \/ program = "deps"   /\ Deps!Next
     \/ program = "count"  /\ Count!Next
     \/ program = "cycles" /\ Cycles!Next
     \/ program = "paths"  /\ Paths!Next
     \/ program = "tree"   /\ Tree!Next
  /\ UNCHANGED <<program, shared, worker, channel>>

ConsumerStep ==
  /\ \/ program = "write"   /\ Write!ConsumerStep
     \/ program = "search"  /\ Search!ConsumerStep
     \/ program = "scan"    /\ Scan!ConsumerStep
     \/ program = "log"     /\ Log!ConsumerStep
     \/ program = "walk"    /\ Walk!ConsumerStep
     \/ program = "serve"   /\ Serve!ConsumerStep
     \/ program = "process" /\ Process!Next
     \/ program = "graph"   /\ Graph!ConsumerStep
  /\ UNCHANGED program

WorkerStep(t) ==
  /\ \/ program = "write"  /\ Write!WorkerStep(t)
     \/ program = "search" /\ Search!WorkerStep(t)
     \/ program = "scan"   /\ Scan!WorkerStep(t)
     \/ program = "log"    /\ Log!WorkerStep(t)
     \/ program = "walk"   /\ Walk!WorkerStep(t)
     \/ program = "serve"  /\ Serve!WorkerStep(t)
     \/ program = "graph"  /\ Graph!WorkerStep(t)
  /\ UNCHANGED program

Over ==
  CASE program = "write"   -> Write!Over
    [] program = "search"  -> Search!Over
    [] program = "scan"    -> Scan!Over
    [] program = "log"     -> Log!Over
    [] program = "walk"    -> Walk!Over
    [] program = "serve"   -> Serve!Over
    [] program = "process" -> Process!Over
    [] program = "graph"   -> Graph!Over
    [] program \in Serial  -> consumer.pc = "done"

Next == SerialStep \/ ConsumerStep \/ \E t \in Threads : WorkerStep(t)

\* No thread is stopped for ever, and those that sleep look again.
Fairness ==
  /\ WF_vars(SerialStep) /\ WF_vars(ConsumerStep)
  /\ \A t \in Threads : WF_vars(WorkerStep(t))

Spec == Init /\ [][Next]_vars /\ Fairness
-----------------------------------------------------------------------------
\* Threads and processes give what one thread would: files are stored in
\* their order, a search finds the first lines of each pattern, a walk and a
\* log come whole or with an error, every request of a client gets its one
\* answer, the output of a process is whole, marked or replaced by a timeout,
\* and a graph has the edges of one pass over the references.
AsOneThread ==
  CASE program = "write"   -> Write!StoredInOrder
    [] program = "search"  -> Search!FoundInOrder
    [] program = "scan"    -> Scan!AsManyAsAllowed
    [] program = "log"     -> Log!WholeLogOrItsError
    [] program = "walk"    -> Walk!AllOrTooMany
    [] program = "serve"   -> Serve!EveryRequestAnswered /\ Serve!InlineInOrder
    [] program = "process" -> Process!CompleteOrMarked
    [] program = "graph"   -> Graph!GraphOfOnePass
    [] OTHER -> TRUE

\* The searches of the graphs give what their definitions say, and an answer
\* that is not the whole one says so.
SearchesAreRight ==
  CASE program = "route"  -> Route!RoutesAreRight
    [] program = "deps"   -> Deps!WaysAreShortest
    [] program = "count"  -> Count!EveryDependentOnce
    [] program = "cycles" -> Cycles!CyclesAreRight
    [] program = "paths"  -> Paths!SearchIsRight
    [] program = "tree"   -> Tree!TreeIsWhole
    [] OTHER -> TRUE

\* Channels hold what they were made for: no thread waits at a channel that
\* only fills up because its receiver is waiting too, and parse threads stay
\* within two batches of what is stored.
ChannelsSuffice ==
  CASE program = "write"  -> Write!RunAheadIsBounded
    [] program = "search" -> Len(channel) <= Capacity
    [] program = "scan"   -> Scan!SendersNeverWait
    [] OTHER -> TRUE

\* Every computation ends, also when a transaction or a process fails, a limit
\* stops it or a pipe is full.  Two faults are left out, see EveryRebuildEnds.
Faulty == program = "write" /\
            (job.panics # {} \/ job.startable < Cardinality(Threads))
EveryComputationEnds == <>(Over \/ Faulty)

\* A rebuild ends whatever happens in it: a parser that panics, or a thread
\* that cannot be started, makes it fail.
EveryRebuildEnds == <>Over

\* The tree of callers has everyone who calls the function within its depth.
EveryCallerIsShown == program = "tree" => Tree!EveryCallerIsShown
=============================================================================

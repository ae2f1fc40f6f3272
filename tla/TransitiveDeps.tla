--------------------------- MODULE TransitiveDeps ---------------------------
(***************************************************************************)
(* The table of dependencies that a module reaches through others          *)
(* (build_transitive_deps).  A dependency of kind "api" is handed on to    *)
(* those that depend on the module; the table holds a row for each module  *)
(* and each way to begin, up to a depth.  Equal rows are one, but the code *)
(* stores them again for a dependency declared with two kinds.             *)
(*                                                                         *)
(* An operator introduced as a slip is no part of the model: it is a       *)
(* mistake that the operator below it could contain and that some property *)
(* excludes.                                                               *)
(***************************************************************************)
EXTENDS Integers, Sequences, FiniteSets, SequencesExt

CONSTANTS Dependencies,  \* the tables of direct dependencies to consider
          MaxDepth       \* 5

\* Direct dependencies: <<module, dependency, kind>>.
DependencyAssumption ==
  /\ MaxDepth \in Nat \ {0}
  /\ \A j \in Dependencies : j \subseteq Nat \X Nat \X {"api", "implementation"}

VARIABLES
  job,       \* the direct dependencies, which never change
  consumer,  \* the direct dependencies to do; the one at hand, as the modules
             \* met beyond it and the ways still to go
  result     \* the rows, each the way from a module to its dependency

vars == <<job, consumer, result>>

Exported(m) == {d[2] : d \in {e \in job : e[1] = m /\ e[3] = "api"}}

Init ==
  /\ job \in Dependencies
  /\ consumer = [pc |-> "build", left |-> job, visited |-> {}, queue |-> <<>>]
  /\ result = {}

\* The ways one step further, in the order of the table.
Onward(way, met) ==
  LET next == SetToSortSeq(Exported(way[Len(way)]) \ met, <)
  IN  [i \in 1..Len(next) |-> Append(way, next[i])]

Direct ==
  /\ consumer.pc = "build" /\ consumer.queue = <<>> /\ consumer.left # {}
  /\ LET d == CHOOSE d \in consumer.left : TRUE
     IN  /\ consumer' = [consumer EXCEPT !.left = @ \ {d}, !.visited = {d[2]},
                                         !.queue = Onward(<<d[1], d[2]>>, {})]
         /\ result' = result \cup {<<d[1], d[2]>>}
  /\ UNCHANGED job

\* The head of the queue, unless it leads too far or to a module met before.
Follows(Join(_, _)) ==
  /\ consumer.pc = "build" /\ consumer.queue # <<>>
  /\ LET way == Head(consumer.queue)
         met == consumer.visited \cup {way[Len(way)]}
     IN  IF met = consumer.visited \/ Len(way) - 1 > MaxDepth
         THEN consumer' = [consumer EXCEPT !.queue = Tail(@)] /\ UNCHANGED result
         ELSE /\ consumer' = [consumer EXCEPT !.visited = met,
                                              !.queue = Join(Tail(@), Onward(way, met))]
              /\ result' = result \cup {way}
  /\ UNCHANGED job

\* Slip: the new ways go first.
TransitiveLastFirst == Follows(LAMBDA rest, new : new \o rest)

Transitive == Follows(LAMBDA rest, new : rest \o new)

Finish ==
  /\ consumer.pc = "build" /\ consumer.queue = <<>> /\ consumer.left = {}
  /\ consumer' = [consumer EXCEPT !.pc = "done"]
  /\ UNCHANGED <<job, result>>

Over == consumer.pc = "done"

Next == Direct \/ Transitive \/ Finish

Spec == Init /\ [][Next]_vars /\ WF_vars(Next)
-----------------------------------------------------------------------------
\* The modules that x hands on in exactly k further steps, and no fewer.
Handed(x) ==
  LET within[k \in 0..MaxDepth] ==
        IF k = 0 THEN {x}
        ELSE within[k - 1] \cup UNION {Exported(m) : m \in within[k - 1]}
  IN  [k \in 0..(MaxDepth - 1) |-> IF k = 0 THEN {x} ELSE within[k] \ within[k - 1]]

\* Each row is a way along dependencies of which all but the first are handed
\* on; for each dependency, whatever its kinds, there is a shortest way for every
\* module within reach, and no other.
WaysAreShortest ==
  Over =>
    /\ \A way \in result :
         /\ \E d \in job : d[1] = way[1] /\ d[2] = way[2]
         /\ \A i \in 2..(Len(way) - 1) : way[i + 1] \in Exported(way[i])
    /\ \A d \in job :
         LET rows == {way \in result : way[1] = d[1] /\ way[2] = d[2]}
         IN  \A k \in 0..(MaxDepth - 1) :
               /\ {way[Len(way)] : way \in {r \in rows : Len(r) = k + 2}} = Handed(d[2])[k]
               /\ Cardinality({r \in rows : Len(r) = k + 2}) = Cardinality(Handed(d[2])[k])
=============================================================================

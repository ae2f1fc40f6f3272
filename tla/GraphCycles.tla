---------------------------- MODULE GraphCycles ----------------------------
(***************************************************************************)
(* The dependency cycles of the symbol graph (graph cycles): its strongly  *)
(* connected components with two symbols or more, found by Tarjan's        *)
(* algorithm with an explicit stack of calls, and one shortest cycle in    *)
(* each of them.                                                           *)
(*                                                                         *)
(* An operator introduced as a slip is no part of the model: it is a       *)
(* mistake that the operator below it could contain and that some property *)
(* excludes.                                                               *)
(***************************************************************************)
EXTENDS Integers, Sequences, FiniteSets, SequencesExt

CONSTANTS SymbolGraphs  \* the graphs to consider: of each symbol those it uses

GraphAssumption ==
  \A j \in SymbolGraphs :
    /\ j \in Seq(Seq(1..Len(j)))
    /\ \A n \in 1..Len(j) : \A i \in 1..Len(j[n]) : j[n][i] # n

VARIABLES
  job,       \* the graph, which never changes
  consumer,  \* the state of the search
  result     \* the components, and a cycle in each

vars == <<job, consumer, result>>

Nodes == 1..Len(job)
Least(a, b) == IF a < b THEN a ELSE b

\* index 0: not visited.
Init ==
  /\ job \in SymbolGraphs
  /\ consumer = [pc |-> "components", start |-> 1, call |-> <<>>, stack |-> <<>>, counter |-> 1,
                 index |-> [n \in Nodes |-> 0], low |-> [n \in Nodes |-> 0],
                 from |-> 0, queue |-> <<>>, parent |-> <<>>]
  /\ result = [components |-> <<>>, cycles |-> <<>>]

(***************************************************************************)
(* strongly_connected                                                      *)
(***************************************************************************)
\* A node visited for the first time, by the given stack of calls.
Entered(n, call) ==
  [consumer EXCEPT !.call = Append(call, [node |-> n, next |-> 1]),
                   !.stack = Append(@, n), !.counter = @ + 1,
                   !.index[n] = consumer.counter, !.low[n] = consumer.counter]

NextStart ==
  /\ consumer.pc = "components" /\ consumer.call = <<>> /\ consumer.start \in Nodes
  /\ consumer' = IF consumer.index[consumer.start] # 0
                 THEN [consumer EXCEPT !.start = @ + 1] ELSE Entered(consumer.start, <<>>)
  /\ UNCHANGED <<job, result>>

Top == consumer.call[Len(consumer.call)]
OnStack(n) == \E i \in 1..Len(consumer.stack) : consumer.stack[i] = n

\* Slip: also a node of a finished component counts.
NextChildAnywhere ==
  /\ consumer.pc = "components" /\ consumer.call # <<>> /\ Top.next <= Len(job[Top.node])
  /\ LET child == job[Top.node][Top.next]
         call  == [consumer.call EXCEPT ![Len(consumer.call)].next = @ + 1]
     IN  consumer' = IF consumer.index[child] = 0 THEN Entered(child, call)
                     ELSE [consumer EXCEPT !.call = call,
                             !.low[Top.node] = Least(@, consumer.index[child])]
  /\ UNCHANGED <<job, result>>

NextChild ==
  /\ consumer.pc = "components" /\ consumer.call # <<>> /\ Top.next <= Len(job[Top.node])
  /\ LET child == job[Top.node][Top.next]
         call  == [consumer.call EXCEPT ![Len(consumer.call)].next = @ + 1]
     IN  consumer' = CASE consumer.index[child] = 0 -> Entered(child, call)
                       [] consumer.index[child] # 0 /\ OnStack(child) ->
                            [consumer EXCEPT !.call = call,
                               !.low[Top.node] = Least(@, consumer.index[child])]
                       [] OTHER -> [consumer EXCEPT !.call = call]
  /\ UNCHANGED <<job, result>>

\* A call returns; the root of a component takes it off the stack.
Return ==
  /\ consumer.pc = "components" /\ consumer.call # <<>> /\ Top.next > Len(job[Top.node])
  /\ LET n      == Top.node
         call   == Front(consumer.call)
         low    == IF call = <<>> THEN consumer.low
                   ELSE [consumer.low EXCEPT ![Last(call).node] = Least(@, consumer.low[n])]
         place  == CHOOSE i \in 1..Len(consumer.stack) : consumer.stack[i] = n
         isRoot == consumer.low[n] = consumer.index[n]
         found  == SubSeq(consumer.stack, place, Len(consumer.stack))
     IN  /\ consumer' = [consumer EXCEPT !.call = call, !.low = low,
                           !.stack = IF isRoot THEN SubSeq(@, 1, place - 1) ELSE @]
         /\ result' = IF isRoot /\ Len(found) > 1
                      THEN [result EXCEPT !.components = Append(@, Reverse(found))] ELSE result
  /\ UNCHANGED job

(***************************************************************************)
(* cmd_graph_cycles and cycle_through                                      *)
(***************************************************************************)
\* Larger components first.  What comes first in a component depends on names.
Sort ==
  /\ consumer.pc = "components" /\ consumer.call = <<>> /\ consumer.start \notin Nodes
  /\ consumer' = [consumer EXCEPT !.pc = "cycles"]
  /\ result' = [result EXCEPT !.components = SortSeq(@, LAMBDA a, b : Len(a) > Len(b))]
  /\ UNCHANGED job

Component == ToSet(result.components[Len(result.cycles) + 1])

Begin ==
  /\ consumer.pc = "cycles" /\ consumer.from = 0
  /\ IF Len(result.cycles) = Len(result.components)
     THEN consumer' = [consumer EXCEPT !.pc = "done"]
     ELSE \E n \in Component :
            consumer' = [consumer EXCEPT !.from = n, !.queue = <<n>>, !.parent = <<>>]
  /\ UNCHANGED <<job, result>>

\* The way back from n to where the search began.
WayTo(n) ==
  LET way[m \in Nodes] == IF m = consumer.from THEN <<m>>
                          ELSE Append(way[consumer.parent[m]], m)
  IN  way[n]

Search ==
  /\ consumer.pc = "cycles" /\ consumer.from # 0
  /\ LET n    == Head(consumer.queue)
         news == SelectSeq(job[n], LAMBDA m : m \in Component \ DOMAIN consumer.parent)
     IN  IF consumer.from \in ToSet(job[n])
         THEN /\ result' = [result EXCEPT !.cycles = Append(@, Append(WayTo(n), consumer.from))]
              /\ consumer' = [consumer EXCEPT !.from = 0]
         ELSE /\ consumer' = [consumer EXCEPT !.queue = Tail(@) \o news,
                                              !.parent = [m \in ToSet(news) |-> n] @@ @]
              /\ UNCHANGED result
  /\ UNCHANGED job

Over == consumer.pc = "done"

Next == NextStart \/ NextChild \/ Return \/ Sort \/ Begin \/ Search

Spec == Init /\ [][Next]_vars /\ WF_vars(Next)
-----------------------------------------------------------------------------
\* What n reaches within a number of steps, at least one.
ReachOf(n) ==
  LET within[k \in Nodes] ==
        IF k = 1 THEN ToSet(job[n])
        ELSE within[k - 1] \cup UNION {ToSet(job[m]) : m \in within[k - 1]}
  IN  within

Mutual(n) == {m \in Nodes : m \in ReachOf(n)[Len(job)] /\ n \in ReachOf(m)[Len(job)]}

\* The components are the sets of symbols that reach each other, every one
\* once, the larger ones first, and the cycle shown for a component goes along
\* its edges and is as short as its first symbol allows.
CyclesAreRight ==
  Over =>
    /\ LET sets == [i \in 1..Len(result.components) |-> ToSet(result.components[i])]
       IN  /\ ToSet(sets) = {Mutual(n) : n \in Nodes} \ {{}}
           /\ \A i, k \in 1..Len(sets) : i < k => sets[i] # sets[k]
           /\ \A i, k \in 1..Len(sets) : i < k => Cardinality(sets[i]) >= Cardinality(sets[k])
    /\ \A i \in 1..Len(result.cycles) :
         LET cycle == result.cycles[i]
         IN  /\ ToSet(cycle) \subseteq ToSet(result.components[i])
             /\ cycle[1] = cycle[Len(cycle)]
             /\ \A k \in 1..(Len(cycle) - 1) : cycle[k + 1] \in ToSet(job[cycle[k]])
             /\ \A k \in 1..(Len(cycle) - 2) : cycle[1] \notin ReachOf(cycle[1])[k]
=============================================================================

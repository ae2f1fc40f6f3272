----------------------------- MODULE Dependents -----------------------------
(***************************************************************************)
(* How many symbols depend on each symbol within some steps                *)
(* (count_dependents): a search in breadth from every symbol, all with one *)
(* table of marks that is never cleared.                                   *)
(*                                                                         *)
(* An operator introduced as a slip is no part of the model: it is a       *)
(* mistake that the operator below it could contain and that some property *)
(* excludes.                                                               *)
(***************************************************************************)
EXTENDS Integers, Sequences, FiniteSets, SequencesExt

CONSTANTS Counts       \* the graphs to consider, with a depth

\* The users of each symbol along resolved edges, every one once.
IsCount(j) ==
  /\ j.incoming \in Seq(Seq(1..Len(j.incoming))) /\ j.depth \in Nat
  /\ \A n \in 1..Len(j.incoming) : n \notin ToSet(j.incoming[n]) /\ IsInjective(j.incoming[n])

CountAssumption == \A j \in Counts : IsCount(j)

VARIABLES
  job,       \* the graph and the depth, which never change
  consumer,  \* where the search is, and the marks: from where a symbol was
             \* reached last
  result     \* the numbers of dependents

vars == <<job, consumer, result>>

Nodes == 1..Len(job.incoming)

Init ==
  /\ job \in Counts
  /\ consumer = [pc |-> "count", start |-> 1, level |-> 0, frontier |-> <<>>, reached |-> 0,
                 stamp |-> [n \in Nodes |-> 0]]
  /\ result = [n \in Nodes |-> 0]

Start ==
  /\ consumer.pc = "count" /\ consumer.frontier = <<>>
  /\ consumer' =
       IF consumer.start \notin Nodes THEN [consumer EXCEPT !.pc = "done"]
       ELSE IF job.incoming[consumer.start] = <<>> THEN [consumer EXCEPT !.start = @ + 1]
       ELSE [consumer EXCEPT !.frontier = <<consumer.start>>, !.level = 0, !.reached = 0,
                             !.stamp[consumer.start] = consumer.start]
  /\ UNCHANGED <<job, result>>

\* Slip: a mark counts whoever left it.
UnmarkedByAnyone ==
  LET users == FlattenSeq([i \in 1..Len(consumer.frontier) |-> job.incoming[consumer.frontier[i]]])
  IN  FoldLeft(LAMBDA new, n : IF consumer.stamp[n] # 0 \/ n \in ToSet(new) THEN new ELSE Append(new, n),
               <<>>, users)

\* The users of the frontier that this search has not reached.
Unmarked ==
  LET users == FlattenSeq([i \in 1..Len(consumer.frontier) |-> job.incoming[consumer.frontier[i]]])
  IN  FoldLeft(LAMBDA new, n : IF consumer.stamp[n] = consumer.start \/ n \in ToSet(new) THEN new
                               ELSE Append(new, n),
               <<>>, users)

\* One level; the search ends at the depth or where nothing is left.
Level ==
  /\ consumer.pc = "count" /\ consumer.frontier # <<>>
  /\ LET next    == IF consumer.level < job.depth THEN Unmarked ELSE <<>>
         reached == consumer.reached + Len(next)
     IN  IF next = <<>>
         THEN /\ result' = [result EXCEPT ![consumer.start] = reached]
              /\ consumer' = [consumer EXCEPT !.start = @ + 1, !.frontier = <<>>]
         ELSE /\ consumer' = [consumer EXCEPT !.frontier = next, !.reached = reached, !.level = @ + 1,
                                !.stamp = [n \in Nodes |-> IF n \in ToSet(next) THEN consumer.start
                                                           ELSE @[n]]]
              /\ UNCHANGED result
  /\ UNCHANGED job

Over == consumer.pc = "done"

Next == Start \/ Level

Spec == Init /\ [][Next]_vars /\ WF_vars(Next)
-----------------------------------------------------------------------------
\* Who depends on n by a chain of at most so many users.
DependentsOf(n) ==
  LET within[k \in 0..job.depth] ==
        IF k = 0 THEN {n}
        ELSE within[k - 1] \cup UNION {ToSet(job.incoming[m]) : m \in within[k - 1]}
  IN  within[job.depth] \ {n}

\* The number stored for a symbol is that of the symbols that depend on it
\* within the depth, each once, itself never, whatever the searches before
\* have left behind.
EveryDependentOnce ==
  Over => \A n \in Nodes : result[n] = Cardinality(DependentsOf(n))
=============================================================================

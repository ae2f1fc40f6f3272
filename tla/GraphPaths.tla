----------------------------- MODULE GraphPaths -----------------------------
(***************************************************************************)
(* Two searches of the symbol graph that proceed level by level: the       *)
(* shortest ways from some symbols to others, or else back (graph path),   *)
(* and the symbols that depend on some, tests left out if so asked (graph  *)
(* impact).                                                                *)
(*                                                                         *)
(* An operator introduced as a slip is no part of the model: it is a       *)
(* mistake that the operator below it could contain and that some property *)
(* excludes.                                                               *)
(***************************************************************************)
EXTENDS Integers, Sequences, FiniteSets, SequencesExt, FiniteSetsExt

CONSTANTS Questions    \* the questions to consider

\* A question: the edges <<symbol, symbol it uses, "uses">> of enough confidence
\* and the members <<class, member, "contains">>, as the database lists them,
\* where the search starts and what it looks for, how far it goes, how many
\* ways are listed; for an impact the symbols it starts from, and the tests to
\* leave out.
IsQuestion(j) ==
  /\ j.edges \in Seq(Nat \X Nat \X {"uses"})
  /\ j.members \in Seq(Nat \X Nat \X {"contains"})
  /\ j.from \cup j.to \cup j.tests \subseteq Nat
  /\ j.maxDepth \in Nat /\ j.maxPaths \in Nat
  /\ j.asks \in {"path", "impact"}

QuestionAssumption == \A j \in Questions : IsQuestion(j)

VARIABLES
  job,       \* the question, which never changes
  consumer,  \* phase, level, frontier; of the symbols seen their distance and
             \* those they were reached from, as <<symbol, kind of edge>>
  result     \* ways found and their number; or dependents left out

vars == <<job, consumer, result>>

Seeded(pc, direction, seeds) ==
  [pc |-> pc, direction |-> direction, level |-> 1, frontier |-> seeds, distance |-> [n \in seeds |-> 0],
   preds |-> [n \in seeds |-> <<>>]]

Init ==
  /\ job \in Questions
  /\ consumer = Seeded(job.asks, "forward", job.from)
  /\ result = [direction |-> "none", length |-> 0, number |-> 0, ways |-> <<>>, excluded |-> {}]

Edges   == ToSet(job.edges)
Members == ToSet(job.members)

\* shortest_paths, one level: every step out of the frontier that does not lead
\* back to a level before.
Steps ==
  SelectSeq(job.edges \o job.members,
            LAMBDA e : e[1] \in consumer.frontier /\ e[2] \notin DOMAIN consumer.distance)

\* Slip: one predecessor is enough.
OnePred(n) == SubSeq(SelectSeq(Steps, LAMBDA e : e[2] = n), 1, 1)

Preds(n) == SelectSeq(Steps, LAMBDA e : e[2] = n)

Exhausted == consumer.frontier = {} \/ consumer.level > job.maxDepth

Sources == IF consumer.direction = "forward" THEN job.from ELSE job.to
Targets == IF consumer.direction = "forward" THEN job.to ELSE job.from

Level ==
  /\ consumer.pc = "path" /\ ~Exhausted
  /\ \E new \in {{e[2] : e \in ToSet(Steps)}} : consumer' = [consumer EXCEPT
       !.pc = IF new \cap Targets = {} THEN "path" ELSE "collect",
       !.level = @ + 1, !.frontier = new,
       !.distance = [n \in new |-> consumer.level] @@ @,
       !.preds = [n \in new |-> Preds(n)] @@ @]
  /\ UNCHANGED <<job, result>>

\* count_paths and collect_paths: along the predecessors back to a source.
Collect ==
  /\ consumer.pc = "collect"
  /\ LET waysTo[n \in DOMAIN consumer.distance] ==
           IF n \in Sources THEN <<<<<<n, "start">>>>>>
           ELSE FlattenSeq([i \in 1..Len(consumer.preds[n]) |->
                  LET last == consumer.preds[n][i]
                  IN  [k \in 1..Len(waysTo[last[1]]) |->
                         Append(waysTo[last[1]][k], <<n, last[3]>>)]])
         reached == SetToSeq(consumer.frontier \cap Targets)
     IN  \E all \in {FlattenSeq([i \in 1..Len(reached) |-> waysTo[reached[i]]])} :
           result' = [result EXCEPT
             !.direction = consumer.direction, !.length = consumer.level - 1,
             !.number = Len(all), !.ways = SubSeq(all, 1, Min({Len(all), job.maxPaths}))]
  /\ consumer' = [consumer EXCEPT !.pc = "done"]
  /\ UNCHANGED job

\* Nothing found: the other way round, or no answer.
GiveUp ==
  /\ consumer.pc = "path" /\ Exhausted
  /\ consumer' = IF consumer.direction = "forward" THEN Seeded("path", "reverse", job.to)
                 ELSE [consumer EXCEPT !.pc = "done"]
  /\ UNCHANGED <<job, result>>

\* reverse_reach, one level: those that use a symbol of the frontier, by the
\* first edge they have.
Dependents ==
  /\ consumer.pc = "impact"
  /\ \E into \in {{e \in Edges : e[2] \in consumer.frontier
                                /\ e[1] \notin DOMAIN consumer.distance}} :
       LET new == {e[1] : e \in into} \ job.tests
       IN  IF Exhausted THEN consumer' = [consumer EXCEPT !.pc = "done"] /\ UNCHANGED result
           ELSE /\ consumer' = [consumer EXCEPT
                     !.level = @ + 1, !.frontier = new,
                     !.distance = [n \in new |-> consumer.level] @@ @,
                     !.preds = [n \in new |->
                        <<<<Min({e[2] : e \in {d \in into : d[1] = n}}), n, "uses">>>>] @@ @]
                /\ result' = [result EXCEPT
                     !.excluded = @ \cup ({e[1] : e \in into} \cap job.tests)]
  /\ UNCHANGED job

Over == consumer.pc = "done"

Next == Level \/ Collect \/ GiveUp \/ Dependents

Spec == Init /\ [][Next]_vars /\ WF_vars(Next)
-----------------------------------------------------------------------------
\* All ways of k steps, with the kind of each.
WaysOf(sources) ==
  LET of[k \in 0..job.maxDepth] ==
        IF k = 0 THEN {<<<<n, "start">>>> : n \in sources}
        ELSE UNION {{Append(w, <<e[2], e[3]>>) : e \in {d \in Edges \cup Members : d[1] = w[k][1]}} :
                      w \in of[k - 1]}
  IN  [k \in 1..job.maxDepth |-> of[k]]

Between(sources, targets) ==
  LET ways == WaysOf(sources)
  IN  [k \in 1..job.maxDepth |-> {w \in ways[k] : w[k + 1][1] \in targets \ sources}]

AreShortest(ways) ==
  /\ \A k \in 1..(result.length - 1) : ways[k] = {}
  /\ ToSet(result.ways) \subseteq ways[result.length]
  /\ result.number = Cardinality(ways[result.length])
  /\ Cardinality(ToSet(result.ways)) = Len(result.ways)
  /\ Len(result.ways) = Min({job.maxPaths, result.number})

\* The ways shown are shortest ways, each once, as many as there are up to the
\* limit, and their number is right; the other direction is taken, or none,
\* only if there is no way.
WaysAreShortest ==
  LET forward == Between(job.from, job.to)
      reverse == Between(job.to, job.from)
      NoWay(ways) == \A k \in 1..job.maxDepth : ways[k] = {}
  IN  CASE result.direction = "forward" -> AreShortest(forward)
        [] result.direction = "reverse" -> NoWay(forward) /\ AreShortest(reverse)
        [] OTHER -> NoWay(forward) /\ NoWay(reverse)

\* Who depends on the symbols within so many steps, tests not counted, neither
\* as dependents nor on the way.
DependentsWithin(k) ==
  LET of[i \in 0..job.maxDepth] ==
        IF i = 0 THEN job.from
        ELSE of[i - 1] \cup ({e[1] : e \in {d \in Edges : d[2] \in of[i - 1]}} \ job.tests)
  IN  of[k]

\* Every dependent is found at its least distance, with a next symbol one step
\* nearer; the tests left out are those that use one that is not.
ImpactIsRight ==
  /\ \A k \in 0..job.maxDepth :
       {n \in DOMAIN consumer.distance : consumer.distance[n] <= k} = DependentsWithin(k)
  /\ \A n \in DOMAIN consumer.distance \ job.from :
       LET via == consumer.preds[n][1][1]
       IN  <<n, via, "uses">> \in Edges /\ consumer.distance[via] = consumer.distance[n] - 1
  /\ result.excluded =
       {n \in job.tests \ job.from :
          job.maxDepth > 0 /\ \E e \in Edges :
            e[1] = n /\ e[2] \in DependentsWithin(job.maxDepth - 1)}

SearchIsRight ==
  Over => IF job.asks = "path" THEN WaysAreShortest ELSE ImpactIsRight
=============================================================================

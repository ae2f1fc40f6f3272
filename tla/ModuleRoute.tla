---------------------------- MODULE ModuleRoute ----------------------------
(***************************************************************************)
(* The routes between two modules (module-route): the shortest one, found  *)
(* breadth first, or all simple ones, found depth first with the distances *)
(* to the target as a guide.  Each search gives up when its time is over,  *)
(* and an empty answer comes with a reason.                                *)
(*                                                                         *)
(* An operator introduced as a slip is no part of the model: it is a       *)
(* mistake that the operator below it could contain and that some property *)
(* excludes.                                                               *)
(***************************************************************************)
EXTENDS Integers, Sequences, FiniteSets, SequencesExt

CONSTANTS Routes       \* the questions to consider

\* A question: the dependencies <<module, dependency, kind>> as the database
\* lists them, by the name of the dependency, the two ends, the kinds that count,
\* whether all routes are asked for and how many, the longest route, and
\* whether the time may run out.
IsRoute(j) ==
  /\ j.edges \in Seq(Nat \X Nat \X {"api", "implementation"})
  /\ \A i, k \in 1..Len(j.edges) : i < k => j.edges[i][2] <= j.edges[k][2]
  /\ j.from \in Nat /\ j.to \in Nat
  /\ j.kinds # {} /\ j.kinds \subseteq {"api", "implementation"}
  /\ j.all \in BOOLEAN /\ j.maxPaths \in Nat /\ j.maxDepth \in Nat
  /\ j.hurried \in BOOLEAN

RouteAssumption == \A j \in Routes : IsRoute(j)

VARIABLES
  job,       \* the question, which never changes
  consumer,  \* the search: its phase, queue, distances, predecessors, stack
  result     \* the routes, why they are cut short, and why there are none

vars == <<job, consumer, result>>

AnyKind  == {"api", "implementation"}
Filtered == job.kinds # AnyKind

Edges == {job.edges[i] : i \in 1..Len(job.edges)}

Outgoing(n, kinds) == SelectSeq(job.edges, LAMBDA e : e[1] = n /\ e[3] \in kinds)

Dependents(n) == {e[1] : e \in {d \in Edges : d[2] = n /\ d[3] \in job.kinds}}

\* A step of a route.
Hop(e) == <<e[2], e[3]>>

\* A search from n: the queue, the distance and predecessor of what was seen.
Seeded(pc, n) == [pc |-> pc, queue |-> <<n>>, seen |-> (n :> 0), pred |-> <<>>, stack |-> <<>>]

Init ==
  /\ job \in Routes
  /\ consumer = Seeded("ask", job.from)
  /\ result = [routes |-> <<>>, cut |-> "no", empty |-> "no"]

Ends(routes, cut, empty) ==
  /\ consumer' = [consumer EXCEPT !.pc = "done"]
  /\ result' = [routes |-> routes, cut |-> cut, empty |-> empty]

\* No route of the kind: is there one of another kind?
NothingFound ==
  IF Filtered THEN consumer' = Seeded("probe", job.from) /\ UNCHANGED result
  ELSE Ends(<<>>, "no", "unreachable")

Ask ==
  /\ consumer.pc = "ask"
  /\ LET self == SelectSeq(Outgoing(job.from, job.kinds), LAMBDA e : e[2] = job.from)
     IN  CASE job.from = job.to /\ self # <<>> -> Ends(<<<<Hop(self[1])>>>>, "no", "no")
           [] job.from = job.to /\ self = <<>> -> Ends(<<>>, "no", "self")
           [] job.from # job.to /\ ~job.all ->
                consumer' = Seeded("shortest", job.from) /\ UNCHANGED result
           [] job.from # job.to /\ job.all /\ job.maxPaths = 0 ->
                Ends(<<>>, "max_paths", "truncated")
           [] OTHER -> consumer' = Seeded("distances", job.to) /\ UNCHANGED result
  /\ UNCHANGED job

(***************************************************************************)
(* bfs_shortest, once for the kinds asked for and once for all.            *)
(***************************************************************************)
\* The route that the predecessors describe.
Backtrack(n) ==
  LET to[k \in 0..consumer.seen[n]] ==   \* the module k hops before the end
        IF k = 0 THEN n ELSE consumer.pred[to[k - 1]][1]
  IN  [i \in 1..consumer.seen[n] |->
         LET m == to[consumer.seen[n] - i] IN <<m, consumer.pred[m][2]>>]

\* The head of the queue brings those it leads to.
Expands(news) ==
  consumer' = [consumer EXCEPT
    !.queue = Tail(@) \o [i \in 1..Len(news) |-> news[i][1]],
    !.seen  = [m \in {news[i][1] : i \in 1..Len(news)} |->
                 consumer.seen[Head(consumer.queue)] + 1] @@ @,
    !.pred  = [m \in {news[i][1] : i \in 1..Len(news)} |->
                 <<Head(consumer.queue), news[CHOOSE i \in 1..Len(news) : news[i][1] = m][2]>>] @@ @]

\* Of edges to the same module only the first one counts.
News(n, kinds) ==
  LET out == Outgoing(n, kinds)
      new == {i \in 1..Len(out) : /\ out[i][2] \notin DOMAIN consumer.seen
                                  /\ \A k \in 1..(i - 1) : out[k][2] # out[i][2]}
  IN  [i \in 1..Cardinality(new) |->
         Hop(out[CHOOSE k \in new : Cardinality({l \in new : l <= k}) = i])]

SearchStep(kinds, found, notFound) ==
  IF consumer.queue = <<>> THEN notFound
  ELSE LET n == Head(consumer.queue)
       IN  CASE n = job.to -> found
             [] n # job.to /\ consumer.seen[n] >= job.maxDepth ->
                  consumer' = [consumer EXCEPT !.queue = Tail(@)] /\ UNCHANGED result
             [] OTHER -> Expands(News(n, kinds)) /\ UNCHANGED result

Shortest ==
  /\ consumer.pc = "shortest"
  /\ SearchStep(job.kinds, Ends(<<Backtrack(job.to)>>, "no", "no"), NothingFound)
  /\ UNCHANGED job

Probe ==
  /\ consumer.pc = "probe"
  /\ SearchStep(AnyKind, Ends(<<>>, "no", "kind_filter"), Ends(<<>>, "no", "unreachable"))
  /\ UNCHANGED job

(***************************************************************************)
(* dfs_all_paths.                                                          *)
(***************************************************************************)
\* Edges to the target come first.
Frame(n, kind) ==
  LET out == Outgoing(n, job.kinds)
  IN  [node |-> n, kind |-> kind,
       todo |-> SelectSeq(out, LAMBDA e : e[2] = job.to)
                \o SelectSeq(out, LAMBDA e : e[2] # job.to)]

Distances ==
  /\ consumer.pc = "distances"
  /\ IF consumer.queue # <<>>
     THEN LET n   == Head(consumer.queue)
              new == IF consumer.seen[n] >= job.maxDepth THEN {}
                     ELSE Dependents(n) \ DOMAIN consumer.seen
          IN  /\ consumer' = [consumer EXCEPT
                   !.queue = Tail(@) \o SetToSeq(new),
                   !.seen  = [m \in new |-> consumer.seen[n] + 1] @@ @]
              /\ UNCHANGED result
     ELSE IF job.from \notin DOMAIN consumer.seen THEN NothingFound
     ELSE /\ consumer' = [consumer EXCEPT !.pc = "all",
                                          !.stack = <<Frame(job.from, "none")>>]
          /\ UNCHANGED result
  /\ UNCHANGED job

\* Shorter routes first, then by the names of the modules on the way.
Before(p, q) ==
  \/ Len(p) < Len(q)
  \/ /\ Len(p) = Len(q)
     /\ \E i \in 1..Len(p) : p[i][1] < q[i][1] /\ \A k \in 1..(i - 1) : p[k][1] = q[k][1]

Sorted(routes) == SortSeq(routes, Before)

\* Slip: a search that ran out of time is taken for one that found nothing.
GiveUpSilently ==
  /\ job.hurried
  /\ \/ consumer.pc = "shortest" /\ consumer.queue # <<>> /\ NothingFound
     \/ consumer.pc = "all" /\ Ends(Sorted(result.routes), "timeout", "no")
  /\ UNCHANGED job

\* The time is over.  The probe for other kinds says then that there is none.
GiveUp ==
  /\ job.hurried
  /\ \/ /\ consumer.pc \in {"shortest", "distances"} /\ consumer.queue # <<>>
        /\ Ends(<<>>, "timeout", "truncated")
     \/ /\ consumer.pc = "all"
        /\ Ends(Sorted(result.routes), "timeout",
                IF result.routes = <<>> THEN "truncated" ELSE "no")
     \/ consumer.pc = "probe" /\ consumer.queue # <<>> /\ Ends(<<>>, "no", "unreachable")
  /\ UNCHANGED job

OnPath(n) == \E i \in 1..Len(consumer.stack) : consumer.stack[i].node = n

\* The next edge of the module on top of the stack.  It is passed over when it
\* closes a cycle or leads nowhere near the target.
All ==
  /\ consumer.pc = "all"
  /\ IF consumer.stack = <<>>
     THEN IF result.routes = <<>> THEN NothingFound ELSE Ends(Sorted(result.routes), "no", "no")
     ELSE LET depth == Len(consumer.stack)
              top   == consumer.stack[depth]
          IN  IF top.todo = <<>>
              THEN consumer' = [consumer EXCEPT !.stack = Front(@)] /\ UNCHANGED result
              ELSE LET e     == Hop(Head(top.todo))
                       rest  == [consumer.stack EXCEPT ![depth].todo = Tail(@)]
                       route == [i \in 1..depth |-> IF i = depth THEN e
                                 ELSE <<consumer.stack[i + 1].node, consumer.stack[i + 1].kind>>]
                       found == Append(result.routes, route)
                   IN  CASE \/ OnPath(e[1]) \/ e[1] \notin DOMAIN consumer.seen
                            \/ depth + consumer.seen[e[1]] > job.maxDepth ->
                              consumer' = [consumer EXCEPT !.stack = rest] /\ UNCHANGED result
                         [] e[1] = job.to /\ Len(found) >= job.maxPaths ->
                              Ends(Sorted(found), "max_paths", "no")
                         [] e[1] = job.to /\ Len(found) < job.maxPaths ->
                              /\ consumer' = [consumer EXCEPT !.stack = rest]
                              /\ result' = [result EXCEPT !.routes = found]
                         [] OTHER ->
                              /\ consumer' = [consumer EXCEPT
                                   !.stack = Append(rest, Frame(e[1], e[2]))]
                              /\ UNCHANGED result
  /\ UNCHANGED job

Over == consumer.pc = "done"

Next == Ask \/ Shortest \/ Probe \/ Distances \/ GiveUp \/ All

Spec == Init /\ [][Next]_vars /\ WF_vars(Next)
-----------------------------------------------------------------------------
(***************************************************************************)
(* All simple routes of these kinds, by their number of hops.              *)
(***************************************************************************)
Simple(p) == \A i \in 1..Len(p) : p[i][1] # job.from /\ \A k \in 1..(i - 1) : p[k][1] # p[i][1]

AllRoutes(kinds) ==
  LET from[k \in 0..job.maxDepth] ==
        IF k = 0 THEN {<<>>}
        ELSE {p \in {Append(q, <<e[2], e[3]>>) : q \in from[k - 1],
                       e \in {d \in Edges : d[3] \in kinds}} :
                /\ Simple(p)
                /\ \E d \in Edges :
                     /\ d[1] = (IF k = 1 THEN job.from ELSE p[k - 1][1])
                     /\ d[2] = p[k][1] /\ d[3] = p[k][2]}
  IN  {p \in UNION {from[k] : k \in 1..job.maxDepth} : p[Len(p)][1] = job.to}

\* What is reported is right: routes are routes, no one twice, the shorter ones
\* first; without a sign that it was cut short the answer is complete, or the
\* shortest there is; and "no route" is never said when one of the kind asked
\* for exists.  Of other kinds one may exist, if time was over.
RoutesAreRight ==
  Over /\ job.from # job.to =>
    LET routes == AllRoutes(job.kinds)
        given  == {result.routes[i] : i \in 1..Len(result.routes)}
    IN  /\ given \subseteq routes /\ Cardinality(given) = Len(result.routes)
        /\ \A i, k \in 1..Len(result.routes) :
             i < k => ~Before(result.routes[k], result.routes[i])
        /\ job.all /\ result.cut = "no" => given = routes
        /\ result.cut = "max_paths" => Len(result.routes) = job.maxPaths
        /\ ~job.all /\ result.cut = "no" =>
             \/ routes = {} /\ given = {}
             \/ \E p \in given : \A q \in routes : Len(p) <= Len(q)
        /\ (result.empty = "no") <=> (given # {})
        /\ result.empty = "truncated" <=> result.cut # "no" /\ given = {}
        /\ result.empty = "kind_filter" => routes = {} /\ AllRoutes(AnyKind) # {}
        /\ result.empty = "unreachable" =>
             routes = {} /\ (AllRoutes(AnyKind) = {} \/ job.hurried)
=============================================================================

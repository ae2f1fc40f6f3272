------------------------------ MODULE CallTree ------------------------------
(***************************************************************************)
(* The tree of the callers of a function (call-tree).  Callers are found   *)
(* by scans of the repository, one for several functions: the walk that    *)
(* prints the tree is replayed over what is known so far, and what it      *)
(* lacks is looked up, until it lacks nothing.                             *)
(*                                                                         *)
(* An operator introduced as a slip is no part of the model: it is a       *)
(* mistake that the operator below it could contain and that some property *)
(* excludes.                                                               *)
(***************************************************************************)
EXTENDS Integers, Sequences, FiniteSets, SequencesExt

CONSTANTS Trees        \* the trees to consider

\* A tree: the callers a scan finds for each name, as <<name, definition>>, the
\* name asked for, the depth, and the names that no code can call.
IsTree(j) ==
  /\ j.root \in DOMAIN j.callers /\ j.depth \in Nat
  /\ \A n \in DOMAIN j.callers : \A i \in 1..Len(j.callers[n]) :
       j.callers[n][i][1] \in DOMAIN j.callers
  /\ j.uncallable \subseteq DOMAIN j.callers

TreeAssumption == \A j \in Trees : IsTree(j)

VARIABLES
  job,       \* the tree, which never changes
  consumer,  \* the names whose callers are known; whether the tree is printed
  result     \* the nodes printed: <<depth, caller, how it is shown>>

vars == <<job, consumer, result>>

(***************************************************************************)
(* walk_call_tree over the callers of some names.  The walk collects the   *)
(* names expanded, the names it lacks, and the nodes it visits.            *)
(***************************************************************************)
Names == DOMAIN job.callers
Sites == UNION {ToSet(job.callers[n]) : n \in Names}
WalkStates == [expanded : SUBSET Names, missing : SUBSET Names,
          nodes : Seq((1..job.depth) \X Sites \X {"shown", "above", "recursive"})]

Walk(known) ==
  LET callersOf[name \in Names, depth \in 1..(job.depth + 1), path \in SUBSET Sites, walk \in WalkStates] ==
        LET \* A caller at this depth below a path of callers.
            VisitSite(w, site) ==
              LET called     == site[1]
                  expandable == depth < job.depth /\ called \notin job.uncallable
                  Visited(how) == [w EXCEPT !.nodes = Append(@, <<depth, site, how>>)]
              IN  CASE site \in path -> Visited("recursive")
                    [] site \notin path /\ expandable /\ called \notin w.expanded ->
                         callersOf[called, depth + 1, path \cup {site},
                                   [Visited("shown") EXCEPT !.expanded = @ \cup {called}]]
                    [] OTHER ->
                         Visited(IF expandable /\ called \in known /\ job.callers[called] # <<>>
                                 THEN "above" ELSE "shown")
        IN  IF depth > job.depth THEN walk
            ELSE IF name \notin known THEN [walk EXCEPT !.missing = @ \cup {name}]
            ELSE FoldLeft(VisitSite, walk, job.callers[name])
  IN  callersOf[job.root, 1, {}, [expanded |-> {job.root}, missing |-> {}, nodes |-> <<>>]]

Init ==
  /\ job \in Trees
  /\ consumer = [pc |-> "collect", known |-> {}]
  /\ result = <<>>

\* Slip: the nodes of the drafts are kept.
PrintDrafts ==
  /\ consumer.pc = "collect"
  /\ LET walk == Walk(consumer.known)
     IN  /\ consumer' = IF walk.missing = {} THEN [consumer EXCEPT !.pc = "done"]
                        ELSE [consumer EXCEPT !.known = @ \cup walk.missing]
         /\ result' = result \o SelectSeq(walk.nodes, LAMBDA n : n \notin ToSet(result))
  /\ UNCHANGED job

\* One shared scan for all that the draft lacks; then the tree itself.
Collect ==
  /\ consumer.pc = "collect"
  /\ LET walk == Walk(consumer.known)
     IN  IF walk.missing = {}
         THEN consumer' = [consumer EXCEPT !.pc = "done"] /\ result' = walk.nodes
         ELSE consumer' = [consumer EXCEPT !.known = @ \cup walk.missing] /\ UNCHANGED result
  /\ UNCHANGED job

Over == consumer.pc = "done"

Next == Collect

Spec == Init /\ [][Next]_vars /\ WF_vars(Next)
-----------------------------------------------------------------------------
\* Who calls the function by a chain of callers, each of them callable.
CallersWithin ==
  LET of[k \in 0..job.depth] ==
        IF k = 0 THEN {}
        ELSE of[k - 1] \cup ToSet(job.callers[job.root])
             \cup UNION {ToSet(job.callers[s[1]]) : s \in {r \in of[k - 1] : r[1] \notin job.uncallable}}
  IN  of

\* The tree is the one that a walk with all callers at hand prints: what a
\* draft looked up in vain or skipped leaves no trace.  Every direct caller is
\* in it, nobody who is no caller is, and a node that refers to one above has
\* the callers of its name in the tree.
TreeIsWhole ==
  Over /\ job.depth > 0 =>
    LET shown(k) == {result[i][2] : i \in {n \in 1..Len(result) : result[n][1] = k}}
    IN  /\ result = Walk(DOMAIN job.callers).nodes
        /\ shown(1) = ToSet(job.callers[job.root])
        /\ \A k \in 1..job.depth : shown(k) \subseteq CallersWithin[k]
        /\ \A i \in 1..Len(result) : result[i][3] = "above" =>
             ToSet(job.callers[result[i][2][1]]) \subseteq {result[n][2] : n \in 1..Len(result)}

\* Every caller within the depth is in the tree.
EveryCallerIsShown ==
  Over /\ job.depth > 0 => CallersWithin[job.depth] = {result[i][2] : i \in 1..Len(result)}
=============================================================================

--------------------------- MODULE RefreshService ---------------------------
(***************************************************************************)
(* What ast-index promises to hooks and readers: edits are made, refreshes *)
(* are queued, and a queued refresh is declared served only when the index *)
(* reflects every edit made before it was queued.  Nothing is said of      *)
(* processes, claims, locks or failures: UpdateCoordinator implements this *)
(* specification when only refreshes that scan the source are in use.      *)
(***************************************************************************)
EXTENDS Naturals, Sequences

VARIABLES edits,     \* source edits made so far
          exists,    \* whether there is an index
          index,     \* the edit up to which its rows are current
          queued,    \* queued[g]: edits made when refresh g was queued
          served     \* refreshes 1..served are declared served

vars == <<edits, exists, index, queued, served>>

Init ==
  /\ edits = 0 /\ exists = TRUE /\ index = 0
  /\ queued = <<>> /\ served = 0

Edit ==
  /\ edits' = edits + 1
  /\ UNCHANGED <<exists, index, queued, served>>

Queue ==
  /\ queued' = Append(queued, edits)
  /\ UNCHANGED <<edits, exists, index, served>>

\* An index never goes back to an older state of the source.
Publish ==
  /\ exists' = TRUE
  /\ index' \in 0..edits
  /\ exists => index' >= index
  /\ \A g \in 1..served : queued[g] <= index'
  /\ UNCHANGED <<edits, queued, served>>

Remove ==
  /\ exists' = FALSE
  /\ UNCHANGED <<edits, index, queued, served>>

\* Progress is only ever made, and only over reflected edits.
Serve ==
  /\ served' \in served + 1 .. Len(queued)
  /\ exists => \A g \in served + 1 .. served' : queued[g] <= index
  /\ UNCHANGED <<edits, exists, index, queued>>

Next == Edit \/ Queue \/ Publish \/ Remove \/ Serve

Spec == Init /\ [][Next]_vars
=============================================================================

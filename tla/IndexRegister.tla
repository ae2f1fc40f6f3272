---------------------------- MODULE IndexRegister ----------------------------
(***************************************************************************)
(* What publishing an index promises: the index is one whole generation,   *)
(* or none, and the generation on offer replaces it at a single instant.   *)
(* Until the replacement is durable a crash may take it back; from then on *)
(* only the next one changes the index.                                    *)
(***************************************************************************)
CONSTANTS Generations, None

VARIABLES current,   \* the generation that is the index now
          outcomes,  \* the generations that a crash now may leave
          offered    \* the generation that is being published

vars == <<current, outcomes, offered>>

Init ==
  /\ current \in Generations \cup {None}
  /\ outcomes = {current} /\ offered = current

Offer ==
  /\ outcomes = {current}
  /\ offered' \in Generations \cup {None}
  /\ UNCHANGED <<current, outcomes>>

Replace ==
  /\ outcomes = {current}
  /\ current' = offered
  /\ outcomes' \in {{offered}, {current, offered}}
  /\ UNCHANGED offered

Settle ==
  /\ current' \in outcomes
  /\ outcomes' = {current'}
  /\ UNCHANGED offered

Next == Offer \/ Replace \/ Settle

Spec == Init /\ [][Next]_vars
=============================================================================

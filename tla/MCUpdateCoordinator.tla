------------------------- MODULE MCUpdateCoordinator -------------------------
(***************************************************************************)
(* UpdateCoordinator on a few clients, each of which runs any one command. *)
(***************************************************************************)
EXTENDS UpdateCoordinator, TLC

CONSTANTS c1, c2, c3

ThreeClients == {c1, c2, c3}
ClientSymmetry == Permutations(Clients)

ThreeTokens == 1..3

Scanning   == {"background", "update", "read", "rebuild", "clear"}
Background == {"background", "rebuild"}
Hooks      == {"background", "read", "modules"}
=============================================================================

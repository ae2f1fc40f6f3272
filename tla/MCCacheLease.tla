---------------------------- MODULE MCCacheLease ----------------------------
(***************************************************************************)
(* CacheLease with two projects and a few processes.                       *)
(***************************************************************************)
EXTENDS CacheLease, TLC

CONSTANTS k1, k2, p1, p2, p3, i1, i2, i3, i4, i5

TwoKeys        == {k1, k2}
ThreeProcesses == {p1, p2, p3}
FiveInodes     == {i1, i2, i3, i4, i5}
Symmetry == Permutations(Processes) \cup Permutations(Keys)
=============================================================================

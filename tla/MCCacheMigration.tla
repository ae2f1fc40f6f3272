-------------------------- MODULE MCCacheMigration --------------------------
(***************************************************************************)
(* CacheMigration with one project that is reached by an alias, linkRoot, *)
(* whose canonical path is oldRoot, newRoot or linkRoot itself, next to    *)
(* another project that has its index already.                             *)
(***************************************************************************)
EXTENDS CacheMigration, TLC

CONSTANTS oldRoot, newRoot, linkRoot, otherRoot, p1, p2

FourRoots    == {oldRoot, newRoot, linkRoot, otherRoot}
TwoProjects  == [root \in FourRoots |->
                   IF root = otherRoot THEN "other" ELSE "project"]
LinkMoves    == [root \in FourRoots |->
                   IF root = linkRoot THEN {oldRoot, newRoot, linkRoot} ELSE {root}]
LinkIsOld    == [root \in FourRoots |-> IF root = linkRoot THEN oldRoot ELSE root]
LinkOrNew    == {linkRoot, newRoot}
OtherOnly    == [root \in {otherRoot} |-> 0]
RawKeyOrNone == {{}, {<<"old", linkRoot>>}, {<<"new", linkRoot>>}}
TwoProcesses == {p1, p2}
ThreeTokens  == 0..2

OneOfEach   == [faults |-> 1, remounts |-> 1, overlaps |-> 1]
TwoFaults   == [faults |-> 2, remounts |-> 1, overlaps |-> 0]
TwoRemounts == [faults |-> 1, remounts |-> 2, overlaps |-> 0]
ThreeBudgets == {OneOfEach, TwoFaults, TwoRemounts}

Symmetry == Permutations(Processes)
=============================================================================

------------------------- MODULE MCIndexPublication -------------------------
EXTENDS IndexPublication
CONSTANTS r1
OneReader == {r1}
AllFileSystems == {"ordered", "reordering", "windows"}

\* Where metadata changes may reach the disk in any order, the model has one
\* power loss and no failing operation.
Crashes  == [ordered |-> 2, reordering |-> 1, windows |-> 2]
Failures == [ordered |-> 1, reordering |-> 0, windows |-> 1]
=============================================================================

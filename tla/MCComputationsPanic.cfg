SPECIFICATION Spec
CONSTANTS
  t1 = t1
  t2 = t2
  Threads <- TwoThreads
  Capacity = 1
  MaxDepth = 3
  Rebuilds <- APanic
  Searches <- None
  Scans <- None
  Readings <- None
  Walks <- None
  Sessions <- None
  Commands <- None
  Routes <- None
  Dependencies <- None
  Builds <- None
  Counts <- None
  SymbolGraphs <- None
  Questions <- None
  Trees <- None
PROPERTIES
  EveryRebuildEnds
CHECK_DEADLOCK FALSE

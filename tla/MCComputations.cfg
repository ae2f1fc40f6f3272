SPECIFICATION Spec
CONSTANTS
  t1 = t1
  t2 = t2
  Threads <- TwoThreads
  Capacity = 1
  MaxDepth = 3
  Rebuilds <- SomeRebuilds
  Searches <- SomeSearches
  Scans <- SomeScans
  Readings <- SomeReadings
  Walks <- SomeWalks
  Sessions <- SomeSessions
  Commands <- SomeCommands
  Routes <- SomeRoutes
  Dependencies <- SomeDependencies
  Builds <- SomeBuilds
  Counts <- SomeCounts
  SymbolGraphs <- AllSymbolGraphs
  Questions <- SomeQuestions
  Trees <- SomeTrees
INVARIANTS
  AsOneThread
  SearchesAreRight
  ChannelsSuffice
PROPERTIES
  EveryComputationEnds
CHECK_DEADLOCK FALSE

SPECIFICATION Spec
CONSTANTS
  None = None
  k1 = k1
  k2 = k2
  Collectors <- TwoCollectors
  Paths <- TwoPaths
  Instances <- SmallInstances
  MaxCommitId = 5
  DeadCommitsLimit = 1
  HeadMovesAnytime = FALSE
INVARIANTS
  TypeOK
  SameAsFullCollection

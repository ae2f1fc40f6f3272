SPECIFICATION Spec
CONSTANTS
  None = None
  oldRoot = oldRoot
  newRoot = newRoot
  linkRoot = linkRoot
  otherRoot = otherRoot
  p1 = p1
  p2 = p2
  Roots <- FourRoots
  Project <- TwoProjects
  Targets <- LinkMoves
  Requested <- LinkOrNew
  FirstCanonical <- LinkIsOld
  Leftovers <- RawKeyOrNone
  FirstGenerations <- OtherOnly
  Processes <- TwoProcesses
  MaxIdentities = 3
  CutShortInUse = FALSE
  Tokens <- ThreeTokens
  Budgets <- ThreeBudgets
SYMMETRY Symmetry
INVARIANTS
  TypeOK
  IndexesStayApart
  IndexIsFound
  OneDirectoryPerCommand
  FailuresAreExcused
PROPERTIES
  HistoryIsKept

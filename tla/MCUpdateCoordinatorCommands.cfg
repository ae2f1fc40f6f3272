SPECIFICATION Spec
CONSTANTS
  c1 = c1
  c2 = c2
  c3 = c3
  Clients <- ThreeClients
  Tokens <- ThreeTokens
  Commands <- Scanning
  MaxEdits = 1
  MaxCrashes = 0
  MaxLaunchFailures = 0
SYMMETRY ClientSymmetry
INVARIANTS
  TypeOK
  IndexInv
  CompletedMeansIndexed
  AnswersAreFresh
  PendingIsNotStranded
PROPERTIES
  ImplementsService

SPECIFICATION Spec
CONSTANTS
  c1 = c1
  c2 = c2
  c3 = c3
  Clients <- ThreeClients
  Tokens <- ThreeTokens
  Commands <- Background
  MaxEdits = 1
  MaxCrashes = 1
  MaxLaunchFailures = 1
SYMMETRY ClientSymmetry
INVARIANTS
  ScansAreExclusive
PROPERTIES
  ClaimIsReleasedByItsOwner

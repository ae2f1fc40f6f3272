SPECIFICATION FairSpec
CONSTANTS
  c1 = c1
  c2 = c2
  c3 = c3
  Clients <- ThreeClients
  Tokens <- ThreeTokens
  Commands <- Hooks
  MaxEdits = 0
  MaxCrashes = 0
  MaxLaunchFailures = 0
PROPERTIES
  EveryGenerationSettles
  WaitersReturn

SPECIFICATION Spec
CONSTANTS
  None = None
  k1 = k1
  k2 = k2
  p1 = p1
  p2 = p2
  p3 = p3
  i1 = i1
  i2 = i2
  i3 = i3
  i4 = i4
  i5 = i5
  Keys <- TwoKeys
  Processes <- ThreeProcesses
  Inodes <- FiveInodes
  MaxCommands = 3
  MaxCrashes = 1
  MaxVanished = 1
SYMMETRY Symmetry
INVARIANTS
  TypeOK
  InUseIsKept
  PublisherIsAlone
  OneLockPerKey
  LayoutHolderNeverWaits
PROPERTIES
  InterruptedIsKept

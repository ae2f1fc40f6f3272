SPECIFICATION Spec
CONSTANTS
  Absent = Absent
  f1 = f1
  f2 = f2
  Sources <- TwoSources
  Indexes <- SmallIndexes
  MaxEdits = 2
INVARIANTS
  TypeOK
  OutdatedIsNoticed
  ReturnedMeansIndexed
  HalfAppliedIsDirty
  
  FreshGraphIsExact

  

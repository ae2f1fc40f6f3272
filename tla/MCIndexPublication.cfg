SPECIFICATION Spec
CONSTANTS
  None = None
  Closed = Closed
  r1 = r1
  Readers <- OneReader
  MaxPublications = 2
  FileSystems <- AllFileSystems
  MaxCrashes <- Crashes
  MaxFailures <- Failures
INVARIANTS
  TypeOK
  AlwaysRecoverable
  ReportedIsDurable
  ReadersSeeTheIndex
PROPERTIES
  ImplementsRegister

SPECIFICATION Spec
CONSTANTS
  Paths <- AllPaths
  NumOperations = 2
  KeyOf <- TwoKeys
  Tmp <- TmpFiles
  Dir = "dir"
  Protocols <- UnsafeAndInPlace
  Announced = {TRUE, FALSE}
  Concurrent = FALSE
  FsModels <- BothOrders
  MaxUnpersistedWindow = 2
  TornWrites = FALSE
  MaxTested = 2
  HostFailures = TRUE
INVARIANTS
  TypeOK
  EvidenceKept
  FindingsReproduce
PROPERTY TestsStates

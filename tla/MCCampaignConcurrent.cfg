SPECIFICATION Spec
CONSTANTS
  Paths <- AllPaths
  NumOperations = 2
  KeyOf <- TwoKeys
  Tmp <- TmpFiles
  Dir = "dir"
  Protocols <- UnsafeAndInPlace
  Announced = {TRUE, FALSE}
  Concurrent = TRUE
  FsModels <- OnlyXfs
  MaxUnpersistedWindow = 3
  TornWrites = TRUE
  MaxTested = 1
  HostFailures = FALSE
INVARIANTS
  OnlyBrokenPromises
  BlamesItsOwn
  UnsafeIsExposed
  LossIsExact

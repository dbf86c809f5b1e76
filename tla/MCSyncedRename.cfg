SPECIFICATION Spec
CONSTANTS
  Paths <- AllPaths
  NumOperations = 2
  KeyOf <- TwoKeys
  Tmp <- TmpFiles
  Dir = "dir"
  Protocols <- RenameOnly
  Announced = {TRUE}
  Concurrent = FALSE
  FsModels <- OnlyXfs
  MaxUnpersistedWindow = 2
  TornWrites = FALSE
  MaxTested = 1
  HostFailures = FALSE
INVARIANT SyncedRenameIsSafe

SPECIFICATION Spec
CONSTANTS
  tmp = tmp
  db = db
  Paths = {tmp, db}
  DirectoryOf <- TwoDirectories
  Threads = {t1}
  Ops <- SequentialOps
  FsModels <- MODELS
  MaxEvents = 4
  MaxUnpersistedWindow = 2
  TornWrites = TRUE
INVARIANTS
  TypeOK
  DurabilityFloor
  Covered
  
CHECK_DEADLOCK FALSE

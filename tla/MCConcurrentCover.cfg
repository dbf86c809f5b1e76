SPECIFICATION Spec
CONSTANTS
  tmp = tmp
  db = db
  Paths = {tmp, db}
  DirectoryOf <- TwoDirectories
  Threads = {t1, t2}
  Ops <- ConcurrentOps
  FsModels <- OnlyXfs
  MaxEvents = 4
  MaxUnpersistedWindow = 8
  TornWrites = FALSE
INVARIANT Covered
CHECK_DEADLOCK FALSE

SPECIFICATION Spec
CONSTANTS
  tmp = tmp
  db = db
  Ops <- MixedOps
  FsModels <- BothOrders
  MaxEvents = 3
  MaxUnpersistedWindow = 2
  TornWrites = TRUE
  MaxExhaustiveWorkloadOps = 1
  MaxStatesPerCrashPoint = 3
INVARIANTS
  TypeOK
  EnumerationExact
  SamplingIsSound
  PersistencePointsTested
PROPERTY Terminates

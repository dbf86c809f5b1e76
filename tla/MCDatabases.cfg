SPECIFICATION Spec
CONSTANTS
  NumOperations = 3
  ConcurrentThreads = 2
  CommitsFail = TRUE
INVARIANTS
  TypeOK
  NoFalseReport
  VerdictIsOwed
PROPERTIES
  PromisesStand
  Terminates

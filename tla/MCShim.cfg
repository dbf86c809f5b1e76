SPECIFICATION Spec
CONSTANTS
  t1 = t1
  t2 = t2
  Paths <- TwoFiles
  Programs <- EveryProgram
  Fds = {1, 2}
  MAX_FD = 3
  OpenFlags <- Create
  RenameWhileOpen = FALSE
INVARIANTS
  TypeOK
  OffsetIsTrue
  MarkersApart
  ReplayIsFaithful
  
  StampsOrderCalls
CHECK_DEADLOCK FALSE

SPECIFICATION Spec
CONSTANTS
  t1 = t1
  t2 = t2
  Paths <- TwoFiles
  Programs <- Threaded
  Fds = {1, 2}
  MAX_FD = 3
  OpenFlags <- Create
  RenameWhileOpen = FALSE
INVARIANT PathIsCached
CHECK_DEADLOCK FALSE

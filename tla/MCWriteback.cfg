SPECIFICATION Spec
CONSTANTS
  WRITEBACK_WAIT_MS = 60
  CommitInterval = 40
  Expires <- UpToFour
  Wakeups <- UpToThree
  Slack = 2
INVARIANTS
  TypeOK
  WaitSuffices
  Decides

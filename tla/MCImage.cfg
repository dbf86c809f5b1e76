SPECIFICATION Spec
CONSTANTS
  NumImages = 6
  Failing <- COMMANDS
  Interrupts = TRUE
INVARIANTS
  TypeOK
  Released
  LeakEndsCampaign
PROPERTY TestsStates

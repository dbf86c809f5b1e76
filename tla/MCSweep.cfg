SPECIFICATION Spec
CONSTANTS
  SWEEP <- ThreeConfigs
  SHAPES <- TwoShapes
  Outcomes <- NoneOrTwo
  MaxSweeps = 2
INVARIANTS
  TypeOK
  ReportedIsPackaged
  OneTracePerShape
  PublishedAgree

SPECIFICATION Spec
CONSTANTS
  Height = 10
  Width = 8
  BlurAmount = 4
  Side = 3
  Capacity = 2
CHECK_DEADLOCK FALSE
INVARIANTS PipelineInv
PROPERTIES Ends

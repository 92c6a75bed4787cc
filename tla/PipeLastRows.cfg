SPECIFICATION Spec
CONSTANTS
  Pairs = 2
  Frames = 1
  Modes = {FALSE}
  StrayTags = {0}
  InOrder = FALSE
  Drained = TRUE
  None = None
INVARIANTS
  FrameComplete
CHECK_DEADLOCK FALSE

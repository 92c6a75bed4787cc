SPECIFICATION BothSpec
CONSTANTS
  Pairs = 4
  Frames = 3
  Modes <- Both
  StrayTags <- SomeTags
  InOrder = TRUE
  Drained = FALSE
  None = None
INVARIANTS
  TypesOK
  LumaReady
  VReady
  OutputFree
  UReadyInOrder
  FrameCompleteInOrder
CHECK_DEADLOCK FALSE

SPECIFICATION FairSpec
CONSTANTS
  Contexts = {c1}
  Images = {front, back}
  SrcSizes <- Aligned
  SrcW = 32
  Places = {p1, p2, torn}
  Unscaled <- OneUnscaled
  LoadMayFail = FALSE
  Unset = Unset
  Front = front
  Back = back
  Torn = torn
  EarlyToggle = FALSE
  MayQuit = TRUE
INVARIANTS
  VoInv
  NoDrawWhileConverting
  LastRunFinished
  NoTornFrame
PROPERTIES
  FlipReturns
  UninitReturns
  ServesFrames
CHECK_DEADLOCK FALSE

SPECIFICATION Spec
CONSTANTS
  Contexts = {c1}
  Images = {front, back}
  SrcSizes <- Aligned
  SrcW = 32
  Places = {p1, p2, torn}
  Unscaled <- OneUnscaled
  LoadMayFail = FALSE
  Unset = Unset
  Front = front
  Back = back
  Torn = torn
  EarlyToggle = TRUE
  MayQuit = FALSE
INVARIANTS
  LastRunFinished

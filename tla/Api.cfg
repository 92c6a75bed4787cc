SPECIFICATION FairSpec
CONSTANTS
  Contexts = {c1}
  Images = {front, back}
  SrcSizes <- Aligned
  SrcW = 32
  Places = {p1, p2}
  Unscaled <- OneUnscaled
  LoadMayFail = FALSE
  Unset = Unset
  Front = front
  Back = back
  AskedForms <- AllForms
  Ahead = 6
INVARIANTS
  AInv
  AnswersAccounted
  LastRunShown
PROPERTIES
  ApiCallsReturn

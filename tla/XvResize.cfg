SPECIFICATION Spec
CONSTANTS
  Contexts = {c1}
  Images = {i1, i2}
  SrcSizes <- TwoSizes
  Places = {p1, p2}
  Unscaled <- OneUnscaled
  Drawn <- Apart
  LoadMayFail = FALSE
  Unset = Unset
  Formats = {"planar"}
  MayStop = FALSE
INVARIANTS
  SizeProcessed

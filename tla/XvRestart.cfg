SPECIFICATION Spec
CONSTANTS
  Contexts = {c1, c2}
  Images = {i1, i2}
  SrcSizes <- Aligned
  Places = {p1, p2}
  Unscaled <- OneUnscaled
  Drawn <- Apart
  LoadMayFail = FALSE
  Unset = Unset
  Formats = {"planar"}
  MayStop = TRUE
SYMMETRY Symmetry
INVARIANTS
  ImageProcessed
CHECK_DEADLOCK FALSE

SPECIFICATION FairSpec
CONSTANTS
  Contexts = {c1}
  Images = {i1, i2, i3}
  SrcSizes <- Aligned
  Places = {p1, p2}
  Unscaled <- OneUnscaled
  Drawn <- Apart
  LoadMayFail = FALSE
  Unset = Unset
  Formats = {"planar"}
  MayStop = FALSE
INVARIANTS
  ImageInv
  ImageProcessed
PROPERTIES
  ServesFrames

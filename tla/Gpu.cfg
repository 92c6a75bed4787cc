SPECIFICATION Spec
CONSTANTS
  Procs = {p1, p2}
  Lines <- TwoLines
  Offsets <- TwoOffsets
  Object <- ThreeWords
  Looks = 2
  Nobody = Nobody
  MaxDirect = 3
SYMMETRY Symmetry
INVARIANTS
  DeviceInv
  OneOwner
  ContextLives
  NothingLeft
  ObjectWritten

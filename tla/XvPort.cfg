SPECIFICATION FairSpec
CONSTANTS
  Contexts = {c1, c2}
  Images = {i1}
  SrcSizes <- TwoSizes
  Places = {p1, p2}
  Unscaled <- OneUnscaled
  Drawn <- Apart
  LoadMayFail = TRUE
  Unset = Unset
  Formats = {"planar", "packed"}
  MayStop = TRUE
CONSTRAINT InScope
INVARIANTS
  TypeOK
  IInv
  IdleMeansAnswered
  SendsReachLiveContext
  FilterMatches
  NoFutileWait
PROPERTIES
  ArgsStable
  StopLosesNoFrame
  CallReturns
  StoppedContextGoes
CHECK_DEADLOCK FALSE

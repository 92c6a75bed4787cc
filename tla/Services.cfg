SPECIFICATION ServicesSpec
CONSTANTS
  MaxHeight = 9
  Heights <- SomeHeights
  NoRow = NoRow
  Lanes = 2
  RectSizes <- SomeSizes
  MaxRuns = 2
  Spoilt = Spoilt
  PairCounts <- TwoCounts
  Widths <- TwoWidths
  MaxFrames = 3
  NoLines = NoLines
  Program = Program
  Greeting = Greeting
  Argument = Argument
  Garbage = Garbage
INVARIANTS
  ServicesTypeOK
  RowsInside
  RectDrawn
  FrameConverted
PROPERTIES
  CallsReturn
CHECK_DEADLOCK FALSE

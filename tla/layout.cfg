SPECIFICATION LayoutSpec
CONSTANTS
  f1 = f1
  f2 = f2
  f3 = f3
  Nil = Nil
  Frames = {f1, f2, f3}
  LabelH = 1
  Heights = {4, 6}
  Amounts = {2}
  Modes = {"default", "-stack", "stack"}
  Ys = {1, 3, 5}
  MaxCalls = 40
  w1 = w1
  w2 = w2
  Windows = {w1, w2}
  Elsewhere = {w2}
  NoWindow = NoWindow
  Screens <- MCScreens
  SizeHints <- MCSizeHints
  Decorations <- MCDecorations
  Asked <- MCAsked
  GrowAmounts <- MCGrowAmounts
  Pointers <- MCPointers
  MaxSteps = 5
  TitleH = 5
  Border = 1
  BarH = 5
  Snap = 2
  Huge = 1000
SYMMETRY Symmetry
INVARIANTS
  Tiled
  NotPushedEarly
  Reachable
  Settled
  AsksToStay
PROPERTIES
  PlacesFree
CHECK_DEADLOCK FALSE

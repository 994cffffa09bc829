CONSTANTS
  w1 = w1
  w2 = w2
  Windows = {w1, w2}
  Views = {1, 2}
  First = 1
  NoInput = {w2}
  TakeFocus = {w2}
  Grouped = {w1, w2}
  Patient = TRUE
  Reuse = TRUE
  MaxMaps = 2
  MaxQueue = 3
SPECIFICATION Spec
INVARIANTS
  Shown
  SelectedHasFocus
PROPERTIES
  KeptUntilWithdrawn
  Answered
CHECK_DEADLOCK FALSE

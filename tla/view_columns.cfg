CONSTANTS
  Clients = {c1, c2}
  ColIds = {1, 2, 3}
  Float = 0
  nil = nil
  NoFocus = {c1}
  Dialogs = {c1}
  Splash = {c2}
  HiddenFullscreen = FALSE
  MaxFull = 0
  FloatingValues = {"on"}
SPECIFICATION Spec
INVARIANTS
  DetachReadsLive
  IInv
PROPERTIES
  FocusKept
CHECK_DEADLOCK FALSE

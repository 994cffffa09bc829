CONSTANTS
  Clients = {c1, c2}
  ColIds = {1, 2}
  Float = 0
  nil = nil
  NoFocus = {}
  Dialogs = {}
  Splash = {}
  HiddenFullscreen = FALSE
  MaxFull = 2
  FloatingValues = {}
SYMMETRY Symmetry
SPECIFICATION Spec
INVARIANTS
  FullscreenShown
PROPERTIES
  RestoresColumn
CHECK_DEADLOCK FALSE

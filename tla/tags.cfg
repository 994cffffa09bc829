CONSTANTS
  Clients = {c1, c2}
  Names = {1, 2, 3}
  Orphans = 2
  First = 1
  nil = nil
  Writes <- ExprWrites
  Careful = TRUE
SPECIFICATION Spec
SYMMETRY Perms
INVARIANTS
  ListsAgree
  NeverCrashes
  InTaggedViews
  SelOnScreen
PROPERTIES
  PlacesKept

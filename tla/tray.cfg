SPECIFICATION Spec
CONSTANTS
  w1 = w1
  w2 = w2
  o1 = o1
  Nil = Nil
  Others = {o1}
  Windows = {w1, w2}
  Addrs = {a1, a2}
  a1 = a1
  a2 = a2
  MaxDocks = 1
  MaxQueue = 1
  Steal = TRUE
INVARIANTS
  SoleTray
  VisibleOnce
  DragsEnd
PROPERTIES
  Decided
CHECK_DEADLOCK FALSE

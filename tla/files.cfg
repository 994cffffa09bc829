SPECIFICATION Spec
CONSTANTS
  f1 = f1
  f2 = f2
  Nil = Nil
  Fids = {f1, f2}
  Addrs = {1, 2}
  Names <- MCNames
  Cut <- MCCut
  ObjNames = {"x"}
  Paths <- MCPaths
  Texts = {0, 1}
  MaxUnread = 1
INVARIANTS
  NeverStrays
  AppliedWhenClosed
  ReadersServed

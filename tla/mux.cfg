SPECIFICATION Spec
CONSTANTS
  i1 = i1
  s1 = s1
  a1 = a1
  a2 = a2
  NoCall = NoCall
  NoTag = NoTag
  Sync = {i1, s1}
  Async = {a1, a2}
  Inner <- MCInner
  Tags = {t1, t2}
INVARIANTS
  OneMuxer
  TagsKept
PROPERTIES
  KeepsPromise
  NoneLeftAsleep

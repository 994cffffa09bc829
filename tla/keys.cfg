SPECIFICATION Spec
CONSTANTS
  a = a
  b = b
  c = c
  bad = bad
  BadStroke = bad
  Nil = Nil
  Strokes <- MCStrokes
  Texts <- MCTexts
  MaxStrokes = 3
  MaxQueue = 3
  MaxNested = 2
INVARIANTS
  TableGrabbed
PROPERTIES
  Outcome
CHECK_DEADLOCK FALSE

SPECIFICATION Spec
CONSTANTS
  PatternRunes = {97, 98, 42, 124, 40, 41, 94}
  MaxPattern = 4
  ClassRunes = {97, 99, 45, 93, 94, 92}
  MaxClass = 3
  TextRunes = {97, 98, 10}
  MaxText = 2
  Patterns <- MCPatterns
  Texts <- MCTexts
  NSubexp = 3
  NStack = 20
  ListSize = 6
  BigListSize = 60
INVARIANTS
  Compiles
  
CHECK_DEADLOCK FALSE

SPECIFICATION Spec
CONSTANTS
  Char = {"a", "-", " "}
  Space = {" "}
  Word = {"a"}
  Typed = {"a", " "}
  NUL = "0"
  Junk = "?"
  Nil = Nil
  History <- MCHistory
  Completions <- MCCompletions
  Offsets = {0, 1}
  Pastes <- MCPastes
  Rows = 2
  MaxLen = 2
PROPERTIES
  KeepsLine
CHECK_DEADLOCK FALSE

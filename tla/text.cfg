SPECIFICATION Spec
CONSTANTS
  SourceRunes <- MCSourceRunes
  MaxSource = 3
  Sources <- MCSources
  WordBits = 8
  IntBuf = 40
  MaxQuoted = 3
  Calls <- MCCalls
  Sinks <- MCSinks
INVARIANTS
  Decodes
  Streams
  Prints
  Quotes
CHECK_DEADLOCK FALSE

CONSTANTS
  Prints <- MCPrints
  Texts <- MCTexts
  Reads = 2
  Garbage <- MCGarbage
  Finer = 10
  Infinity = 200000000
  MaxText = 5
SPECIFICATION Spec
INVARIANTS
  PipeKeepsNumbers
  ReadsNumeral
PROPERTIES
  StaysInBuffer
  ReadEnds
CHECK_DEADLOCK FALSE

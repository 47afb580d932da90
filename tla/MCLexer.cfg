SPECIFICATION Spec
CONSTANTS
  Units <- AllUnits
  Separators <- Blanks
  Ends <- Line
  MaxUnits = 3
  Letters <- MCLetters
  Digits <- MCDigits
  Operators <- MCOperators
  MaxTokens = 6
  MaxNames = 2
  NamesLength = 24
CHECK_DEADLOCK FALSE
INVARIANTS
  TokensAreWords NamesUnique PositionsExact RefusesOnlyTooLong
PROPERTY
  Advances

CONSTANTS
  Id <- MCId
  NDebug = TRUE
  TableCapacity = 8
  Sessions <- ParserSessions
  Start <- FirstWords
  Rules <- ParserGrammar
SPECIFICATION Spec
INVARIANTS
  AcceptsLanguage
  RefusesOthers
  KeepsWords
CHECK_DEADLOCK FALSE

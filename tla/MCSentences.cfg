CONSTANTS
  Id <- MCId
  NDebug = TRUE
  TableCapacity = 8
  Sessions <- SentenceSessions
  Start <- Sentences
  Rules <- Grammar
SPECIFICATION Spec
INVARIANTS
  NamesForConverter
  GroupsAsGrammar
PROPERTIES
  FileKeepsProgram
  ReverseKeepsReversible
  FormatterIsStable
CHECK_DEADLOCK FALSE

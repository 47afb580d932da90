CONSTANTS
  Id <- MCId
  NDebug = FALSE
  TableCapacity = 8
  Sessions <- CallSessions
  Start <- FirstWords
  Rules <- Grammar
SPECIFICATION Spec
INVARIANT AcceptsLanguage
CHECK_DEADLOCK FALSE

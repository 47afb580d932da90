CONSTANTS
  Scripts <- MCScripts
  MaxDefaults = 10
  IntOf <- MCIntOf
  Versions = {1, 2}
  FileNames <- MCFileNames
SPECIFICATION Spec
PROPERTY RunsPresentText
CHECK_DEADLOCK FALSE

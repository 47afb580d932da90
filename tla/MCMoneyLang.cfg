CONSTANTS
  Id <- MCId
  Capacity = 8
  Programs <- MCAllPrograms
  Nodes <- MCNodes
  ParamLists <- MCParamLists
  NameTable <- MCNameTable
  StdlibIn = 4
  StdlibOut = 5
  StackWords = 36
  Inputs <- MCInputs
SPECIFICATION MLSpec
INVARIANTS
  OutputCorrect
  AcceptsLegal
  StackBalanced
  Translatable
PROPERTIES
  KeepsScopes
  ReturnsToCaller
  ProgramStops

CONSTANTS
  Id <- MCId
  Capacity = 8
  Programs <- MCMissingArgument
  Nodes <- MCNodes
  ParamLists <- MCParamLists
  NameTable <- MCNameTable
  StdlibIn = 4
  StdlibOut = 5
  StackWords = 36
  Inputs <- MCInputs
SPECIFICATION MLSpec
INVARIANT AcceptsLegal

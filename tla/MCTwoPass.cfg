CONSTANTS
  IRs <- MCIRs
  Id <- MCId
  ArgsCount <- MCArgsCount
  StdlibIn = 2
  StdlibOut = 3
  StdlibInAddr = 40
  StdlibOutAddr = 16
  StdlibSize = 100
SPECIFICATION Spec
INVARIANTS
  JumpsLand
  CallsLand
CHECK_DEADLOCK FALSE

CONSTANTS
  Registered <- MCRegistered
  Lines <- MCLines
  IntOf <- MCIntOf
  MaxDefaults = 2
  MaxWords = 4
SPECIFICATION ArgvSpec
INVARIANTS
  OnNoValue
  AcceptsReadable
  StoresWhatIsMeant
CHECK_DEADLOCK FALSE

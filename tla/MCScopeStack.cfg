CONSTANTS
  Id <- MCId
  Capacity = 5
  ParamLists <- MCParamLists
SPECIFICATION Spec
INVARIANTS
  DistinctAddresses
  SearchIsLexical
  LayoutElsewhere
PROPERTIES
  ImplementsLexicalScopes
CHECK_DEADLOCK FALSE

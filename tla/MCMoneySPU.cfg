CONSTANTS
  Id <- MCId
  Capacity = 8
  Programs <- MCPrograms
  Nodes <- MCNodes
  Parameters <- MCParameters
  NameTable <- MCNameTable
  Taxed <- MCTaxed
  TaxCoeff = 2
  RamWords = 20
  Inputs <- MCInputs
SPECIFICATION SPUSpec
INVARIANTS
  ArgumentsAboveFrame
  DistinctWords
  OutputCorrect
  TranslatesLegal
PROPERTIES
  RestoresBase
  SPUStops

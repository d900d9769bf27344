SPECIFICATION SearchSpec
CONSTANTS
  Vectors <- DigitVectors
  Indexes <- DigitIndexes
  Values <- DigitValues
  FirstId = 1
  FieldNames <- DigitFields
  LowerCases <- Capitals
  SearchData <- DigitData
  StopWords = {}
  Stem <- Unstemmed
  SavedWords = {}
  Questions = {}
  Scribbles = {}
INVARIANT TokenSetHoldsTerms

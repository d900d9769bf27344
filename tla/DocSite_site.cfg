SPECIFICATION MCSpec
CONSTANTS
  Vectors <- MCVectors
  Indexes <- MCIndexes
  Values <- MCValues
  FirstId = 1
  FieldNames <- MCFieldNames
  LowerCases <- MCLowerCases
  SearchData <- MCSearchData
  StopWords <- MCStopWords
  Stem <- MCStem
  SavedWords <- MCSavedWords
  Questions <- MCQuestions
  Scribbles <- MCScribbles
  GoodQueries = {"git_", "tree"}
  BadQueries = {"foo:bar"}
  ShortQueries = {"gi"}
  Nothing = "none"
  MaxKeys = 3
  MaxHandlers = 3
  Groups <- MCGroups
  NoCondition = NoCondition
  Parent <- MCParent
  TitleOf <- MCTitles
  NoTitle = NoTitle
  Period = "."
  Undefined = "undefined"
  FilterTexts <- MCFilterTexts
  MaxHeadings = 4
INVARIANTS
  MagnitudesFresh
  TokenSetHoldsTerms
  QuestionsComeThrough
  HitsAreMatches
  ScoresAddUp
  QuietMeansCurrent
  OneTabPerGroup
  FilterShowsMatches
  OutlineKeepsHeadings
PROPERTIES
  ImplementsMaps
  ResultsCatchUp
  ClickSelects
\* The network and the user may be silent, and each key and heading is counted.
CHECK_DEADLOCK FALSE

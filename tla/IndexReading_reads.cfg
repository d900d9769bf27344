SPECIFICATION ReadingSpec
CONSTANTS
  IntMax = 3
  Indexes <- SomeIndexes
  Paths <- SomePaths
  Numbers <- SomeNumbers
  Enumerators = {e1, e2}
INVARIANTS
  NothingSkipped
  CurrentIsLastRead
  FoundWhereAsked
  EqualMeansSamePlace

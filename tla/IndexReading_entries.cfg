SPECIFICATION ReadingSpec
CONSTANTS
  IntMax = 3
  Indexes <- OneIndex
  Paths <- SomePaths
  Numbers <- SomeNumbers
  Enumerators = {e1, e2}
INVARIANTS
  EntriesShowWhatIsStored

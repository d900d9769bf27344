SPECIFICATION Spec
CONSTANTS
  IntRange = 4
  LongRange = 16
  HexTexts <- SomeHexTexts
  SomeIds <- ComparedIds
  Numbers <- SmallNumbers
  Texts <- SomeTexts
  NativeStrings <- SomeNativeStrings
  MaxArguments = 2
INVARIANTS
  IdsKeepTheirText
  EqualIdsAreSame
  CastsKeepValues
  StringsArrive
  NamesComeBack
  BuffersFreedOnce

SPECIFICATION Spec
CONSTANTS
  Threads = {t1, t2, t3}
  MaxMade = 4
SYMMETRY Symmetry
INVARIANTS
  ServesMadeValues
  RunsFactoryOnlyCold
  FlagMeansValue
CHECK_DEADLOCK FALSE

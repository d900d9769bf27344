SPECIFICATION Spec
CONSTANTS
  Repositories = {r1}
  Collections = {c1}
  Commits = {k1}
  Trees = {t1}
  Entries = {e1}
  None = none
INVARIANTS
  ObjectsBacked
CHECK_DEADLOCK FALSE

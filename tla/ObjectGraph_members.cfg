SPECIFICATION Spec
CONSTANTS
  Repositories = {r1, r2}
  Collections = {c1, c2}
  Commits = {k1}
  Trees = {t1, t2}
  Entries = {e1}
  None = none
SYMMETRY Symmetry
INVARIANTS
  MembersBacked
  HeldMembersUsable
CHECK_DEADLOCK FALSE

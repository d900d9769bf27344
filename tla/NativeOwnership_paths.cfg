SPECIFICATION FairSpec
CONSTANTS
  Tokens = {n1, n2}
  ReferenceKinds = {"direct", "symbolic", "invalid"}
  HeadKinds = {"direct", "symbolic", "invalid"}
  NoToken = none
  NoCall = nocall
INVARIANTS
  ReleasedOnce
  NothingLost
PROPERTIES
  EventuallyReleased
CHECK_DEADLOCK FALSE

SPECIFICATION Spec
CONSTANTS
  Objects <- SharedObject
  Exceptions = {e1, e2}
  Messages = {m1, m2}
  LoopCodes = {"GIT_ERROR", "GIT_ENOTFOUND"}
  Calls <- SomeCalls
  MaxDepth = 2
  NoException = noexc
INVARIANTS
  CalledInOrder
  OutcomeIsTheActions
  ExceptionsTellTheirFailure

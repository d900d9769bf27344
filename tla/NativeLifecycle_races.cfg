SPECIFICATION FairSpec
CONSTANTS
  Threads = {t1, t2}
  Finalizer = fin
  Wrappers = {w1, w2}
  NoWrapper = none
INVARIANTS
  NoDoubleFree
  NoUseAfterFree
  NoCallAfterDispose
  NothingLeaked
PROPERTIES
  ImplementsHandle
  EventuallyFreed
CHECK_DEADLOCK FALSE

SPECIFICATION Spec
CONSTANT Shapes <- KeptAliveShapes
INVARIANTS
  DerefsLive
CHECK_DEADLOCK FALSE

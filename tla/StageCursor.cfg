SPECIFICATION Spec
CONSTANTS
  NRows = 7
  BatchSize = 2
  ChanCap = 2
INVARIANTS PulledInOrder
PROPERTIES Released StreamSpec
CHECK_DEADLOCK FALSE

SPECIFICATION ServerSpec
CHECK_DEADLOCK FALSE
INVARIANTS
  ExitsCleanly

CONSTANTS
  Procs = {1, 2, 3, 4, 5}
  Files = {1, 2, 3, 4}
  PIPESIZE = 1
  NOFILE = 5
  MAXARGS = 3
  Missing <- Absent
  Lines <- Typed
  Inputs <- Short
SPECIFICATION LiveSpec
CHECK_DEADLOCK FALSE
INVARIANTS
  RefExact
  WiredRight
  ParseExact
PROPERTIES
  Drained

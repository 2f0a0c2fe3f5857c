CONSTANTS
  p1 = p1
  p2 = p2
  None = None
  Procs = {p1, p2}
  Names = {"a", "b"}
  NINODES = 4
  NINODE = 3
  Calls <- TreeCalls
  MaxCalls = 4
SPECIFICATION LiveSpec
CHECK_DEADLOCK FALSE
INVARIANTS
  NoPanic
  RefExact
  LinkCounts
PROPERTIES
  CallReturns

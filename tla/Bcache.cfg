CONSTANTS
  p1 = p1
  p2 = p2
  p3 = p3
  k1 = k1
  k2 = k2
  k3 = k3
  None = None
  Procs = {p1, p2, p3}
  Blocks = {k1, k2, k3}
  Vals = {0, 1}
  NBUF = 2
  MaxPins = 1
SPECIFICATION LiveSpec
CHECK_DEADLOCK FALSE
INVARIANTS
  RefcntExact
  ReadsLatest
PROPERTIES
  SleeperWoken

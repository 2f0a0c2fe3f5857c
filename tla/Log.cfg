CONSTANTS
  p1 = p1
  p2 = p2
  b1 = b1
  b2 = b2
  b3 = b3
  NoBlock = NoBlock
  InitProc = p1
  Procs = {p1, p2}
  Blocks = {b1, b2, b3}
  Vals = {0, 1}
  MAXOPBLOCKS = 2
  LOGSIZE = 4
  NLOG = 4
  OPBLOCKS = 1
SPECIFICATION LiveSpec
INVARIANTS
  NoPanic
PROPERTIES
  AtomicCommit
  SleepersWake

CONSTANTS
  p1 = p1
  p2 = p2
  p3 = p3
  None = None
  Procs = {p1, p2, p3}
  NUM = 8
  W = 8
SPECIFICATION LiveSpec
INVARIANTS
  ChainsIntact
  RingsHold
  SleepsForDescs
PROPERTIES
  FinishesOrMissed

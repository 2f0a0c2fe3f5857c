CONSTANTS
  Procs = {1, 2}
  Init1 = 1
  NPAGES = 20
  PGSIZE = 2
  FAN = 2
  W = 16
  Images <- Programs
  Incs <- Increments
  MaxSz = 9
  Fails = {0, 1, 2, 3, 4, 5, 6, 7, 8, 9, 20}
  MaxCalls = 5
SPECIFICATION Spec
CHECK_DEADLOCK FALSE
INVARIANTS
  PagesExact
  SizeMapped
  CopyExact

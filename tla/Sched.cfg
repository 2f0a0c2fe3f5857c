CONSTANTS
  c0 = c0
  c1 = c1
  p1 = p1
  p2 = p2
  None = None
  Cpus = {c0, c1}
  Cpu0 = c0
  Procs = {p1, p2}
  NextProc <- ProcOrder
  FirstProc = p1
  MaxLate = 1
  Naps = {1}
  Victims = {p1, p2}
SPECIFICATION Spec
INVARIANTS
  NoPanic
  InterruptsBack
  RunsOnce
  NoLostWakeup

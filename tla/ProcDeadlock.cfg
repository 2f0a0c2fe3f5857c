CONSTANTS
  NPROC = 4
  MaxPid = 5
  KillPids = {}
  Failures = {}
SPECIFICATION Spec
INVARIANT
  NoLockCycle
CHECK_DEADLOCK FALSE

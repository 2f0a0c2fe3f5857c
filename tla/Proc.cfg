CONSTANTS
  NPROC = 3
  MaxPid = 5
  KillPids = {2, 3, 4}
  Failures = {"trapframe", "memory", "copyout"}
SPECIFICATION LiveSpec
CHECK_DEADLOCK FALSE
INVARIANTS
  ParentAlive
  NoMissedExit
  
PROPERTIES
  CleanReuse
  KilledExits

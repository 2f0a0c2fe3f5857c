CONSTANTS
  r1 = r1
  w1 = w1
  None = None
  Readers = {r1}
  Writers = {w1}
  PIPESIZE = 2
  W = 4
  Bytes = {0, 1}
  MaxCall = 3
  Killable = {r1}
  Faults = {"copyin", "copyout"}
SPECIFICATION LiveSpec
CHECK_DEADLOCK FALSE
INVARIANTS
  NoMissedWakeup
PROPERTIES
  IsFifo
  CallsReturn

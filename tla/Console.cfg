CONSTANTS
  r1 = r1
  w1 = w1
  None = None
  Readers = {r1}
  Writers = {w1}
  Keys = {"x", "cr", "D", "H", "U"}
  INPUT_BUF = 2
  W = 4
  UART_TX_BUF_SIZE = 3
  ReadLens = {2}
  WriteLens = {2}
SPECIFICATION LiveSpec
CHECK_DEADLOCK FALSE
INVARIANTS
  SleepsOnEmpty
  
PROPERTIES
  IsLineInput
  OutputDrains

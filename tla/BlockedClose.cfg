SPECIFICATION FairSpec
CONSTANTS
  w1 = w1
  w2 = w2
  Writers = {w1}
  MaxLines = 2
  PipeSize = 1
  Buffer = 1
  Hangs = {"input"}
PROPERTIES
  CloseReturns
CHECK_DEADLOCK FALSE

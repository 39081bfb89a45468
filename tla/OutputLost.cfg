SPECIFICATION Spec
CONSTANTS
  w1 = w1
  w2 = w2
  Writers = {w1}
  MaxLines = 2
  PipeSize = 2
  Buffer = 2
  Hangs = {}
INVARIANTS
  OutputRead
CHECK_DEADLOCK FALSE

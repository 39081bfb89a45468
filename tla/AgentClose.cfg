SPECIFICATION FairSpec
CONSTANTS
  w1 = w1
  w2 = w2
  Writers = {w1}
  MaxLines = 3
  PipeSize = 1
  Buffer = 2
  Hangs = {"eof", "term", "long", "heirs", "apart", "refused"}
INVARIANTS
  NoTwin
  LastWord
PROPERTIES
  CloseReturns
  Ends
CHECK_DEADLOCK FALSE

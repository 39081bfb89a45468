SPECIFICATION Spec
CONSTANTS
  m1 = m1
  m2 = m2
  c1 = c1
  NoMsg = NoMsg
  Halt = Halt
  Msgs = {m1, m2, c1}
  CompressCmds = {c1}
  Faults = {"error", "late", "timeout", "stop", "exit"}
  MaxStrays = 1
INVARIANTS SoleConsumer Listening AnswerOwn
SYMMETRY Symmetry
CHECK_DEADLOCK FALSE

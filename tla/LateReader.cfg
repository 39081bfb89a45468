SPECIFICATION Spec
CONSTANTS
  m1 = m1
  m2 = m2
  c1 = c1
  NoMsg = NoMsg
  Halt = Halt
  Msgs = {m1, m2}
  CompressCmds = {}
  Faults = {}
  MaxStrays = 0
INVARIANTS OneConsumer
SYMMETRY Symmetry
CHECK_DEADLOCK FALSE

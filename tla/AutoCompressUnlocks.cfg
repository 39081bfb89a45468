SPECIFICATION Spec
CONSTANTS
  m1 = m1
  m2 = m2
  m3 = m3
  c1 = c1
  NoMsg = NoMsg
  Session0 = Session0
  Msgs = {m1, m2}
  CompressCmds = {}
  Commands = {}
  CmdKinds = {}
  MaxQueue = 1
  Warm = TRUE
  Faults = {}
  IdleReset = FALSE
  MaxAutoCompress = 1
INVARIANTS TurnMutex
